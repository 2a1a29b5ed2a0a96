----------------------------- MODULE MCTaskList -----------------------------
(* A small instance of TaskList for TLC: the shell kills any task but the  *)
(* idle one.                                                               *)
EXTENDS TaskList

MCCreated == 1..MaxId \ {2}
=============================================================================
