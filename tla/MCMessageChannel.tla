-------------------------- MODULE MCMessageChannel --------------------------
(* Small instances of MessageChannel for TLC. *)
EXTENDS MessageChannel

Never == {-1}
NeverOrTick == {-1, 1}
============================================================================
