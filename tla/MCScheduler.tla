----------------------------- MODULE MCScheduler -------------------------------
(***************************************************************************)
(* The scheduler with three processes of any classes, and queues that wake *)
(* may fill up to four entries, so that a process can be in a queue twice. *)
(***************************************************************************)
EXTENDS Scheduler

================================================================================
