---------------------------- MODULE MCScheduler ----------------------------
(* The scheduler on a small pool of containers. *)
EXTENDS Scheduler
=============================================================================
