----------------------------- MODULE MCJobQueue -----------------------------
(* The job queue for TLC: both slots belong to one process, so nothing but  *)
(* the epoch tells their leases apart.  The second job, which no handler    *)
(* takes, arrives when the first is settled.                                *)
EXTENDS JobQueue

MCOwnerOf == [s \in Slots |-> "worker"]
=============================================================================
