----------------------------- MODULE MCScheduler -----------------------------
(* The scheduler on its own: one opaque job, so tasks differ by id and time. *)
EXTENDS Scheduler
=============================================================================
