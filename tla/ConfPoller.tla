------------------------------ MODULE ConfPoller ------------------------------
(***************************************************************************)
(* app/conf_poller: one thread that wakes up every few minutes and posts a  *)
(* callback that refreshes all confirmations.  It has a mutex and condition *)
(* variable of its own; unlike job_pump's, its stop() takes the mutex       *)
(* between the change of g_running and the notification.                    *)
(***************************************************************************)
EXTENDS CompletedJobs

CONSTANT MaxWaiting \* bound: results not yet applied beyond which no tick is posted

VARIABLES polling, \* g_running
          poller   \* where the thread is

pollerVars == <<polling, poller>>

PollerStates == {"test", "block", "waiting", "tick", "ended"}

Tick == [task |-> "tick", nr |-> 0]

PollerInit == polling = TRUE /\ poller = "test"

\* The loop condition and wait_for's predicate, with the mutex held from here
\* to the wait.
PollerTest ==
    /\ poller = "test"
    /\ poller' = IF polling THEN "block" ELSE "ended"
    /\ UNCHANGED <<polling, results>>

PollerBlock ==
    /\ poller = "block"
    /\ poller' = "waiting"
    /\ UNCHANGED <<polling, results>>

PollerSpurious ==
    /\ poller = "waiting"
    /\ poller' = "test"
    /\ UNCHANGED <<polling, results>>

\* The interval has passed.
PollerTimeout ==
    /\ poller = "waiting"
    /\ poller' = IF polling THEN "tick" ELSE "ended"
    /\ UNCHANGED <<polling, results>>

\* Polling is switched on, the vault unlocked and no refresh under way, and a
\* callback is posted; or one of these is not so.
PollerTick ==
    /\ poller = "tick"
    /\ poller' = "test"
    /\ \/ Len(results) < MaxWaiting /\ Post(Tick)
       \/ UNCHANGED results
    /\ UNCHANGED polling

PollerStep == PollerTest \/ PollerBlock \/ PollerTimeout \/ PollerTick

-------------------------------------------------------------------------------
(* stop(), step by step, on the UI thread. *)

StopPolling == polling' = FALSE /\ UNCHANGED poller

\* A slip: the mutex is not taken, as in job_pump.
NoLock_mutant == UNCHANGED pollerVars

\* lock_guard{}: waits for a thread between its test and its wait.
PollerLock == poller # "block" /\ UNCHANGED pollerVars

PollerNotify ==
    /\ poller' = IF poller = "waiting" THEN "test" ELSE poller
    /\ UNCHANGED polling
===============================================================================
