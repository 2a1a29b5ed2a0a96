---------------------------- MODULE MCScheduler ----------------------------
(* Small instances of Scheduler for TLC.                                   *)
EXTENDS Scheduler

(* The shell kills any task but the idle one.                              *)
MCCreated == Ids \ {IdleTask}
=============================================================================
