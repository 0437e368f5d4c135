---------------------------- MODULE MCScheduler ----------------------------
(* Small instance of Scheduler for TLC.  Each of the four tasks exits with *)
(* a code of its own, so that no code can pass for that of another task.   *)
EXTENDS Scheduler

MCExitCodes == [p \in Pids |-> {10 + p}]
=============================================================================
