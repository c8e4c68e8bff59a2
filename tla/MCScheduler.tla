---------------------------- MODULE MCScheduler -----------------------------
(* Scheduler on small task tables.                                          *)
EXTENDS Scheduler
=============================================================================
