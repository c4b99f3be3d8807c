---------------------------- MODULE MCScheduler ----------------------------
(* Three blocks for five processes, so blocks are reused while others wait. *)
EXTENDS Scheduler
=============================================================================
