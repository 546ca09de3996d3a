-------------------------- MODULE MCStreamChannel --------------------------
(* Small instances of StreamChannel for TLC. *)
EXTENDS StreamChannel

LineOrTwo == {Line, 2}
Never == {-1}
ZeroOrTick == {0, 1}
NeverOrTick == {-1, 1}
============================================================================
