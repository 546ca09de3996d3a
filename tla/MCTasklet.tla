----------------------------- MODULE MCTasklet -----------------------------
(* Small instances of Tasklet for TLC. *)
EXTENDS Tasklet

Ticks == {0, 2}
ForeverAndTick == {-1, 1}
============================================================================
