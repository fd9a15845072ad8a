----------------------------- MODULE MCScheduler -----------------------------
(* Scheduler with three threads, one of which wakes the others.               *)
EXTENDS Scheduler
=============================================================================
