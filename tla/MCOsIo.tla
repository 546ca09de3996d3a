------------------------------- MODULE MCOsIo -------------------------------
(* Small instances of OsIo for TLC. *)
EXTENDS OsIo

AllOrOne == {All, 1}
Children == Permutations(Pid)
=============================================================================
