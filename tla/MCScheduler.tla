---------------------------- MODULE MCScheduler -----------------------------
(* Two subjects, so that a cycle can be busy with one when the other falls *)
(* due; boundaries and retries beyond and within the poll interval.        *)
EXTENDS Scheduler

CONSTANT h1
=============================================================================
