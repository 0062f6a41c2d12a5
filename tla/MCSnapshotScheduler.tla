------------------------- MODULE MCSnapshotScheduler -------------------------
(* The control server's use: main owns the scheduler, pool threads change  *)
(* the schedule and wake it.  Two changers can leave one change announced  *)
(* while another is half way; two starts show a restart after a stop.      *)
EXTENDS SnapshotScheduler

CONSTANTS main, handler1, handler2, soon, later
=============================================================================
