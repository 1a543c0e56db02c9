------------------------------ MODULE AppThreads ------------------------------
(***************************************************************************)
(* The threads of the application: the UI thread (win_main's frame loop and *)
(* shutdown sequence), job_pump's workers and the confirmation poller.      *)
(* Workers and the poller post results; the UI thread applies them once a   *)
(* frame, submits tasks, and at the end stops the poller, then the workers. *)
(***************************************************************************)
EXTENDS JobPump, ConfPoller

\* win_main starts four workers; the poller's callback is no task's result.
ASSUME ThreadsAssumption == Workers # {} /\ Tick.task \notin Tasks

VARIABLES main,   \* where the UI thread is
          ready,  \* the results this frame's drain() took and has not yet applied
          applied \* applied[t]: results of t applied so far (history)

mainVars == <<main, ready, applied>>
vars == <<pumpVars, pollerVars, results, mainVars>>

MainStates ==
    {"frame", "apply", "notify",
     "stopPoller", "lockPoller", "notifyPoller", "joinPoller",
     "stopPump", "notifyPump", "joinPump", "gone"}

Init ==
    /\ PumpInit /\ PollerInit
    /\ results = <<>>
    /\ main = "frame" /\ ready = <<>>
    /\ applied = [t \in Tasks |-> 0]

-------------------------------------------------------------------------------
(* A frame. *)

\* A slip: the results are copied out and dropped after the loop that applies them.
DrainByCopy_mutant ==
    /\ main = "frame"
    /\ results # <<>>
    /\ main' = "apply"
    /\ ready' = results
    /\ UNCHANGED <<results, pumpVars, pollerVars, applied>>

\* drain(): the results are swapped out under job_mutex ...
Drain ==
    /\ main = "frame"
    /\ results # <<>>
    /\ main' = "apply"
    /\ ready' = results
    /\ results' = <<>>
    /\ UNCHANGED <<pumpVars, pollerVars, applied>>

\* ... and applied one by one, without a lock.
Apply ==
    /\ main = "apply"
    /\ ready' = Tail(ready)
    /\ main' = IF ready' = <<>> THEN "frame" ELSE "apply"
    /\ applied' = IF Head(ready) = Tick THEN applied
                  ELSE [applied EXCEPT ![Head(ready).task] = @ + 1]
    /\ UNCHANGED <<pumpVars, pollerVars, results>>

\* A handler, or the result just applied, submits a task.
Submit(t) ==
    /\ main \in {"frame", "apply"}
    /\ t \notin Submitted
    /\ Push(t)
    /\ main' = "notify"
    /\ UNCHANGED <<pollerVars, results, ready, applied>>

Notify ==
    /\ main = "notify"
    /\ NotifyOne
    /\ main' = IF ready = <<>> THEN "frame" ELSE "apply"
    /\ UNCHANGED <<queue, running, task, posted, done, pollerVars, results, ready, applied>>

\* WM_QUIT.  Saving the vault on the way out is modelled in VaultSession.
Quit ==
    /\ main = "frame"
    /\ main' = "stopPoller"
    /\ UNCHANGED <<pumpVars, pollerVars, results, ready, applied>>

-------------------------------------------------------------------------------
(* The shutdown sequence, one thread operation a step. *)

ThenMain(from, to) == main = from /\ main' = to /\ UNCHANGED <<results, ready, applied>>

StopPoller ==
    \/ ThenMain("stopPoller", "lockPoller") /\ StopPolling /\ UNCHANGED pumpVars
    \/ ThenMain("lockPoller", "notifyPoller") /\ PollerLock /\ UNCHANGED pumpVars
    \/ ThenMain("notifyPoller", "joinPoller") /\ PollerNotify /\ UNCHANGED pumpVars
    \/ ThenMain("joinPoller", "stopPump") /\ poller = "ended" /\ UNCHANGED <<pumpVars, pollerVars>>

StopWorkers ==
    \/ ThenMain("stopPump", "notifyPump") /\ StopRunning /\ UNCHANGED pollerVars
    \/ /\ ThenMain("notifyPump", "joinPump")
       /\ NotifyAll
       /\ UNCHANGED <<queue, running, task, posted, done, pollerVars>>
    \/ ThenMain("joinPump", "gone") /\ AllEnded /\ UNCHANGED <<pumpVars, pollerVars>>

-------------------------------------------------------------------------------
\* The process has ended.
Gone == main = "gone" /\ UNCHANGED vars

MainStep == Drain \/ Apply \/ Notify \/ StopPoller \/ StopWorkers

WorkerNext(w) == (WorkerStep(w) \/ Spurious(w)) /\ UNCHANGED <<pollerVars, mainVars>>
PollerNext == (PollerStep \/ PollerSpurious) /\ UNCHANGED <<pumpVars, mainVars>>

Next ==
    \/ MainStep \/ Quit
    \/ \E t \in Tasks : Submit(t)
    \/ \E w \in Workers : WorkerNext(w)
    \/ PollerNext
    \/ Gone

Spec == Init /\ [][Next]_vars

\* Every thread runs and a task ends (requests have timeouts, and http::cancel_all
\* cuts them short).  Strong fairness of a worker: a thread that asks for the mutex
\* again and again gets it in the end.  Strong fairness of the end of its sleep: the
\* deadline is absolute, so spurious wake-ups do not put it off.  Nothing obliges the
\* user to submit or to quit.
Fairness ==
    /\ WF_vars(MainStep)
    /\ \A w \in Workers :
          /\ SF_vars(WorkerStep(w) /\ UNCHANGED <<pollerVars, mainVars>>)
          /\ SF_vars(SleepOver(w) /\ UNCHANGED <<pollerVars, mainVars>>)
    /\ WF_vars(PollerStep /\ UNCHANGED <<pumpVars, mainVars>>)

FairSpec == Spec /\ Fairness

-------------------------------------------------------------------------------
Posted == [task : Tasks \cup {Tick.task}, nr : Nat]

TypeOK ==
    /\ queue \in Seq(Tasks)
    /\ running \in BOOLEAN /\ polling \in BOOLEAN
    /\ pc \in [Workers -> PumpStates]
    /\ task \in [Workers -> Tasks \cup {NoTask}]
    /\ \A w \in Workers : task[w] # NoTask <=> pc[w] \in {"run", "testSleep", "blockSleep", "sleeping"}
    /\ posted \in [Workers -> Nat]
    /\ done \subseteq Tasks
    /\ results \in Seq(Posted) /\ ready \in Seq(Posted)
    /\ ready # <<>> => main \in {"apply", "notify"}
    /\ poller \in PollerStates
    /\ main \in MainStates
    /\ applied \in [Tasks -> Nat]

\* No wake-up of a worker is lost while tasks come in: with a task in the queue
\* and no notification under way, some worker is awake or will be, even if the
\* notification went to a sleeping task instead of an idle worker.
NobodyIdlesOverWork ==
    queue # <<>> => main = "notify" \/ \E w \in Workers : pc[w] \notin {"waiting", "ended"}

\* The results of a task reach the UI thread in the order they were posted and
\* each exactly once, however drains and posts interleave: those on their way
\* go on from the last one applied, without a gap.
OnTheirWay == ready \o results
ResultsInOrder ==
    \A i \in 1..Len(OnTheirWay) :
        LET r == OnTheirWay[i]
            before == {OnTheirWay[j] : j \in {k \in 1..(i - 1) : OnTheirWay[k].task = r.task}}
        IN  r.task \in Tasks =>
                /\ \A b \in before : b.nr < r.nr
                /\ r.nr = applied[r.task] + 1 \/ \E b \in before : r.nr = b.nr + 1

\* A submitted task is executed, before or after the window closes.
TaskRuns == \A t \in Tasks : t \in Submitted ~> t \in done

\* conf_poller::stop() does not wait for the rest of the poll interval: once it joins,
\* the thread is not waiting and not about to.
PollerStopsAtOnce == main = "joinPoller" => poller \notin {"block", "waiting"}

\* stop_workers() returns, if no worker was between its test and its wait when
\* the notification came.
WorkersStop ==
    (main = "joinPump" /\ \A w \in Workers : pc[w] \notin {"block", "waiting"}) ~> main = "gone"

Pool == INSTANCE TaskPool WITH
    order <- queue,
    started <- {task[w] : w \in Workers} \ {NoTask},
    ended <- done,
    open <- main # "gone"

\* The threads implement the abstract pool.
PoolSpec == Pool!Spec

\* Types, and no worker idles over work.
ThreadsInv == TypeOK /\ NobodyIdlesOverWork
===============================================================================
