---------------------------- MODULE MCTaskQueue ----------------------------
(* A small instance of TaskQueue for TLC. *)
EXTENDS TaskQueue, TLC

Symmetric == Permutations(Task) \cup Permutations(List)
============================================================================
