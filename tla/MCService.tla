----------------------------- MODULE MCService -----------------------------
(* Small instances of Service for TLC. *)
EXTENDS Service

OneOwner == [s \in {"a"} |-> 1]
TwoOwners == [s \in {"a", "b"} |-> IF s = "a" THEN 1 ELSE 2]
Never == {-1}
NeverOrTick == {-1, 1}
============================================================================
