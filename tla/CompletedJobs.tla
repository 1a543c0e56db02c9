---------------------------- MODULE CompletedJobs -----------------------------
(***************************************************************************)
(* AppState::completed_jobs, the queue every thread posts to and the UI     *)
(* thread drains.  job_mutex is held around each of the two operations and  *)
(* nothing else, so each is a single step of the thread that performs it.   *)
(***************************************************************************)
EXTENDS Naturals, Sequences

VARIABLE results \* completed_jobs, oldest first

Post(r) == results' = Append(results, r)
===============================================================================
