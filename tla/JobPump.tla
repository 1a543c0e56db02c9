------------------------------- MODULE JobPump --------------------------------
(***************************************************************************)
(* app/job_pump: worker threads that share a queue, one mutex and one       *)
(* condition variable, on which workers wait for tasks and running tasks    *)
(* sleep.  A thread that has found its predicate false holds the mutex      *)
(* until it blocks; testing and blocking are separate steps, because        *)
(* stop_workers changes g_running without the mutex.                        *)
(***************************************************************************)
EXTENDS CompletedJobs

CONSTANTS Workers, \* the worker threads
          Tasks,   \* what can be submitted
          Steps,   \* Steps[t]: the accounts a staggered task goes through, 0 for a plain task
          NoTask   \* the task of a thread that has none

ASSUME StepsAssumption == Steps \in [Tasks -> Nat] /\ NoTask \notin Tasks

VARIABLES queue,   \* g_queue
          running, \* g_running
          pc,      \* where each worker is
          task,    \* the task each worker executes
          posted,  \* results a worker's current task has posted
          done     \* the tasks that have ended (history)

pumpVars == <<queue, running, pc, task, posted, done>>

PumpStates ==
    {"test", "block", "waiting",                 \* in worker_loop's wait
     "run",                                      \* in a task
     "testSleep", "blockSleep", "sleeping",      \* in interruptible_sleep
     "ended"}

PumpInit ==
    /\ queue = <<>>
    /\ running = TRUE
    /\ pc = [w \in Workers |-> "test"]
    /\ task = [w \in Workers |-> NoTask]
    /\ posted = [w \in Workers |-> 0]
    /\ done = {}

Members(s) == {s[i] : i \in 1..Len(s)}

\* The tasks given to submit() so far.
Submitted == Members(queue) \cup ({task[w] : w \in Workers} \ {NoTask}) \cup done

-------------------------------------------------------------------------------
(* The mutex and the condition variable. *)

\* A slip: the queue is tested before the mutex is taken.
FreeAlways_mutant == TRUE

\* No thread is between its test and its wait, so g_mtx can be taken.
Free == \A w \in Workers : pc[w] \notin {"block", "blockSleep"}

InWait(w) == pc[w] \in {"waiting", "sleeping"}

\* A woken thread takes the mutex again and repeats its test.
Woken(w) == IF pc[w] = "waiting" THEN "test" ELSE "testSleep"

NotifyOne ==
    IF \E w \in Workers : InWait(w)
    THEN \E w \in Workers : InWait(w) /\ pc' = [pc EXCEPT ![w] = Woken(w)]
    ELSE UNCHANGED pc

NotifyAll == pc' = [w \in Workers |-> IF InWait(w) THEN Woken(w) ELSE pc[w]]

\* A wake-up nobody asked for.
Spurious(w) ==
    /\ InWait(w)
    /\ pc' = [pc EXCEPT ![w] = Woken(w)]
    /\ UNCHANGED <<queue, running, task, posted, done, results>>

-------------------------------------------------------------------------------
(* worker_loop *)

TakeTask(w) ==
    /\ pc[w] = "test" /\ Free
    /\ queue # <<>>
    /\ task' = [task EXCEPT ![w] = Head(queue)]
    /\ posted' = [posted EXCEPT ![w] = 0]
    /\ queue' = Tail(queue)
    /\ pc' = [pc EXCEPT ![w] = "run"]
    /\ UNCHANGED <<running, done, results>>

\* A slip: a stopping worker leaves the queue as it is.
LeaveAtOnce_mutant(w) ==
    /\ pc[w] = "test" /\ Free
    /\ ~running
    /\ pc' = [pc EXCEPT ![w] = "ended"]
    /\ UNCHANGED <<queue, running, task, posted, done, results>>

Leave(w) ==
    /\ pc[w] = "test" /\ Free
    /\ queue = <<>> /\ ~running
    /\ pc' = [pc EXCEPT ![w] = "ended"]
    /\ UNCHANGED <<queue, running, task, posted, done, results>>

\* A slip: the wait's predicate is about the queue alone.
QueueOnly_mutant(w) ==
    /\ pc[w] = "test" /\ Free
    /\ queue = <<>>
    /\ pc' = [pc EXCEPT ![w] = "block"]
    /\ UNCHANGED <<queue, running, task, posted, done, results>>

FindNothing(w) ==
    /\ pc[w] = "test" /\ Free
    /\ queue = <<>> /\ running
    /\ pc' = [pc EXCEPT ![w] = "block"]
    /\ UNCHANGED <<queue, running, task, posted, done, results>>

\* Blocking releases the mutex.
Block(w) ==
    /\ pc[w] \in {"block", "blockSleep"}
    /\ pc' = [pc EXCEPT ![w] = IF @ = "block" THEN "waiting" ELSE "sleeping"]
    /\ UNCHANGED <<queue, running, task, posted, done, results>>

-------------------------------------------------------------------------------
(* Tasks. *)

\* The task returns or throws; worker_loop goes back to its wait.
EndTask(w) ==
    /\ pc' = [pc EXCEPT ![w] = "test"]
    /\ task' = [task EXCEPT ![w] = NoTask]
    /\ done' = done \cup {task[w]}

Result(w) == [task |-> task[w], nr |-> posted[w] + 1]

\* A plain task posts its result for the UI thread, or ends without one.
RunPlain(w) ==
    /\ pc[w] = "run" /\ Steps[task[w]] = 0
    /\ Post(Result(w)) \/ UNCHANGED results
    /\ EndTask(w)
    /\ UNCHANGED <<queue, running, posted>>

\* A staggered task posts the callback of its next account and goes to sleep.
RunStep(w) ==
    /\ pc[w] = "run" /\ posted[w] < Steps[task[w]]
    /\ Post(Result(w))
    /\ posted' = [posted EXCEPT ![w] = @ + 1]
    /\ pc' = [pc EXCEPT ![w] = "testSleep"]
    /\ UNCHANGED <<queue, running, task, done>>

\* What follows interruptible_sleep: the next account, or the end of the task
\* when there is none or the application stops.
AfterSleep(w) ==
    IF running /\ posted[w] < Steps[task[w]]
    THEN pc' = [pc EXCEPT ![w] = "run"] /\ UNCHANGED <<task, done>>
    ELSE EndTask(w)

\* interruptible_sleep finds the application running, and is about to block ...
GoToSleep(w) ==
    /\ pc[w] = "testSleep" /\ Free
    /\ running
    /\ pc' = [pc EXCEPT ![w] = "blockSleep"]
    /\ UNCHANGED <<queue, running, task, posted, done, results>>

\* ... or stopped, and returns false.
SleepRefused(w) ==
    /\ pc[w] = "testSleep" /\ Free
    /\ ~running
    /\ AfterSleep(w)
    /\ UNCHANGED <<queue, running, posted, results>>

\* The whole time has passed.
SleepOver(w) ==
    /\ pc[w] = "sleeping" /\ Free
    /\ AfterSleep(w)
    /\ UNCHANGED <<queue, running, posted, results>>

WorkerStep(w) ==
    \/ TakeTask(w) \/ Leave(w) \/ FindNothing(w) \/ Block(w)
    \/ RunPlain(w) \/ RunStep(w) \/ GoToSleep(w) \/ SleepRefused(w) \/ SleepOver(w)

-------------------------------------------------------------------------------
(* Operations of the UI thread. *)

\* submit(): the push, under the mutex; the caller notifies next.
Push(t) ==
    /\ Free
    /\ queue' = Append(queue, t)
    /\ UNCHANGED <<running, pc, task, posted, done>>

\* stop_workers(): g_running goes off without the mutex; the caller notifies next.
StopRunning ==
    /\ running' = FALSE
    /\ UNCHANGED <<queue, pc, task, posted, done>>

\* A slip: the join loop stops at the first thread.
OneEnded_mutant == \E w \in Workers : pc[w] = "ended"

AllEnded == \A w \in Workers : pc[w] = "ended"
===============================================================================
