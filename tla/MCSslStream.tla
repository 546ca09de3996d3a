---------------------------- MODULE MCSslStream ----------------------------
(* Small instances of SslStream for TLC. *)
EXTENDS SslStream

LineOrTwo == {Line, 2}
LineOrOne == {Line, 1}
Never == {-1}
NeverOrTick == {-1, 1}
============================================================================
