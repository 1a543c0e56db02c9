--------------------------- MODULE AppThreadsProofs ---------------------------
(***************************************************************************)
(* The threads of the application for every number of workers and tasks:   *)
(* no wake-up is lost, conf_poller::stop() does not wait for an interval,  *)
(* the results of a task arrive in order, and the threads implement the    *)
(* pool their callers rely on (TaskPool).                                  *)
(***************************************************************************)
EXTENDS AppThreads, SequenceTheorems, TLAPS

Stopped == {"notifyPump", "joinPump", "gone"}

\* Where the UI thread is says whether the workers and the poller may run on.
Phases ==
    /\ running <=> main \notin Stopped
    /\ polling <=> main \in {"frame", "apply", "notify", "stopPoller"}
    /\ main = "apply" => ready # <<>>
    /\ main = "gone" => AllEnded
    /\ main \in {"notifyPoller", "joinPoller"} => poller # "block"

\* A worker about to wait holds the mutex, so nothing has been queued since it
\* looked; one that has ended looked after the last submission.
NothingMissed ==
    \A w \in Workers :
        /\ pc[w] = "block" => queue = <<>>
        /\ pc[w] = "ended" => queue = <<>> /\ ~running

Control == ThreadsInv /\ Phases /\ NothingMissed /\ PollerStopsAtOnce

USE StepsAssumption, ThreadsAssumption

-------------------------------------------------------------------------------
(* Control is inductive: one lemma per thread. *)

LEMMA ControlInit == Init => Control
<1> SUFFICES ASSUME Init PROVE Control
    OBVIOUS
<1> USE DEF Init, PumpInit, PollerInit
<1>1. TypeOK
    BY EmptySeq DEF TypeOK, PumpStates, PollerStates, MainStates
<1> QED
    BY <1>1 DEF Control, ThreadsInv, NobodyIdlesOverWork, Phases, Stopped, NothingMissed,
                PollerStopsAtOnce

\* Posting keeps the type of the results.
LEMMA PostTyped ==
    ASSUME results \in Seq(Posted), NEW r \in Posted, Post(r)
    PROVE  results' \in Seq(Posted)
    BY AppendProperties DEF Post

LEMMA ResultTyped ==
    ASSUME TypeOK, NEW w \in Workers, pc[w] = "run"
    PROVE  Result(w) \in Posted /\ task[w] \in Tasks
    BY DEF TypeOK, Result, Posted

\* A worker between two of its tasks, or about to wait.
LEMMA IdleWorkerControl ==
    ASSUME Control, NEW w \in Workers,
           TakeTask(w) \/ Leave(w) \/ FindNothing(w) \/ Block(w),
           UNCHANGED <<pollerVars, mainVars>>
    PROVE  Control'
<1> USE DEF Control, ThreadsInv, Phases, Stopped, NothingMissed, NobodyIdlesOverWork,
            PollerStopsAtOnce, AllEnded, Free, pollerVars, mainVars
<1>1. CASE TakeTask(w)
  <2>1. Head(queue) \in Tasks /\ queue' \in Seq(Tasks)
    BY <1>1, HeadTailProperties DEF TakeTask, TypeOK
  <2>2. TypeOK'
    BY <1>1, <2>1 DEF TakeTask, TypeOK, PumpStates
  <2> QED
    BY <1>1, <2>2 DEF TakeTask, TypeOK
<1>2. CASE Leave(w)
  <2>1. TypeOK'
    BY <1>2 DEF Leave, TypeOK, PumpStates
  <2> QED
    BY <1>2, <2>1 DEF Leave, TypeOK
<1>3. CASE FindNothing(w)
  <2>1. TypeOK'
    BY <1>3 DEF FindNothing, TypeOK, PumpStates
  <2> QED
    BY <1>3, <2>1 DEF FindNothing, TypeOK
<1>4. CASE Block(w)
  <2>1. TypeOK'
    BY <1>4 DEF Block, TypeOK, PumpStates
  <2> QED
    BY <1>4, <2>1 DEF Block, TypeOK
<1> QED
    BY <1>1, <1>2, <1>3, <1>4

\* A worker in a task, asleep in one, or woken up.
LEMMA BusyWorkerControl ==
    ASSUME Control, NEW w \in Workers,
           \/ RunPlain(w) \/ RunStep(w) \/ GoToSleep(w) \/ SleepRefused(w) \/ SleepOver(w)
           \/ Spurious(w),
           UNCHANGED <<pollerVars, mainVars>>
    PROVE  Control'
<1> USE DEF Control, ThreadsInv, Phases, Stopped, NothingMissed, NobodyIdlesOverWork,
            PollerStopsAtOnce, AllEnded, Free, pollerVars, mainVars
<1>1. CASE RunPlain(w)
  <2>1. results' \in Seq(Posted)
    BY <1>1, ResultTyped, PostTyped DEF RunPlain, TypeOK
  <2>2. TypeOK'
    BY <1>1, <2>1 DEF RunPlain, EndTask, TypeOK, PumpStates
  <2> QED
    BY <1>1, <2>2 DEF RunPlain, EndTask, TypeOK
<1>2. CASE RunStep(w)
  <2>1. results' \in Seq(Posted)
    BY <1>2, ResultTyped, PostTyped DEF RunStep, TypeOK
  <2>2. posted[w] + 1 \in Nat /\ posted' = [posted EXCEPT ![w] = posted[w] + 1]
    <3>1. posted[w] \in Nat
      BY DEF TypeOK
    <3>2. posted' = [posted EXCEPT ![w] = posted[w] + 1]
      BY <1>2 DEF RunStep
    <3> QED
      BY <3>1, <3>2
  <2>3. TypeOK'
    BY <1>2, <2>1, <2>2 DEF RunStep, TypeOK, PumpStates
  <2> QED
    BY <1>2, <2>3 DEF RunStep, TypeOK
<1>3. CASE GoToSleep(w)
  <2>1. TypeOK'
    BY <1>3 DEF GoToSleep, TypeOK, PumpStates
  <2> QED
    BY <1>3, <2>1 DEF GoToSleep, TypeOK
<1>4. CASE SleepRefused(w) \/ SleepOver(w)
  <2>1. pc[w] \in {"testSleep", "sleeping"} /\ AfterSleep(w)
    BY <1>4 DEF SleepRefused, SleepOver
  <2>2. UNCHANGED <<queue, running, posted, results>>
    BY <1>4 DEF SleepRefused, SleepOver
  <2>3. \/ EndTask(w)
        \/ pc' = [pc EXCEPT ![w] = "run"] /\ UNCHANGED <<task, done>>
    BY <2>1 DEF AfterSleep
  <2>4. CASE EndTask(w)
    <3>1. TypeOK'
      BY <2>1, <2>2, <2>4 DEF EndTask, TypeOK, PumpStates
    <3> QED
      BY <2>1, <2>2, <2>4, <3>1 DEF EndTask, TypeOK
  <2>5. CASE pc' = [pc EXCEPT ![w] = "run"] /\ UNCHANGED <<task, done>>
    <3>1. TypeOK'
      BY <2>1, <2>2, <2>5 DEF TypeOK, PumpStates
    <3> QED
      BY <2>1, <2>2, <2>5, <3>1 DEF TypeOK
  <2> QED
    BY <2>3, <2>4, <2>5
<1>5. CASE Spurious(w)
  <2>1. TypeOK'
    BY <1>5 DEF Spurious, Woken, InWait, TypeOK, PumpStates
  <2> QED
    BY <1>5, <2>1 DEF Spurious, Woken, InWait, TypeOK
<1> QED
    BY <1>1, <1>2, <1>3, <1>4, <1>5

LEMMA PollerControl ==
    ASSUME Control, PollerNext PROVE Control'
<1> USE DEF Control, ThreadsInv, Phases, Stopped, NothingMissed, NobodyIdlesOverWork,
            PollerStopsAtOnce, AllEnded, pumpVars, mainVars, TypeOK, PollerStates, MainStates
<1>1. CASE PollerTest
    BY <1>1 DEF PollerNext, PollerTest
<1>3. CASE PollerBlock
  <2>1. TypeOK'
    BY <1>3 DEF PollerNext, PollerBlock
  <2> QED
    BY <1>3, <2>1 DEF PollerNext, PollerBlock
<1>4. CASE PollerSpurious \/ PollerTimeout
    BY <1>4 DEF PollerNext, PollerSpurious, PollerTimeout
<1>2. CASE PollerTick
  <2>1. Tick \in Posted
    BY DEF Tick, Posted
  <2>2. results' \in Seq(Posted)
    BY <1>2, <2>1, PostTyped DEF PollerTick
  <2> QED
    BY <1>2, <2>2 DEF PollerNext, PollerTick
<1> QED
    BY <1>1, <1>2, <1>3, <1>4 DEF PollerNext, PollerStep

\* The UI thread in a frame, and on the way out.
LEMMA FrameControl ==
    ASSUME Control, Drain \/ Apply \/ Quit \/ \E t \in Tasks : Submit(t) PROVE Control'
<1> USE DEF Control, ThreadsInv, Phases, Stopped, NothingMissed, NobodyIdlesOverWork,
            PollerStopsAtOnce, AllEnded, pumpVars, pollerVars
<1>1. CASE Drain
  <2>1. TypeOK'
    BY <1>1, EmptySeq DEF Drain, TypeOK, MainStates
  <2> QED
    BY <1>1, <2>1 DEF Drain
<1>2. CASE Apply
  <2>1. ready # <<>> /\ ready \in Seq(Posted) /\ Head(ready) \in Posted /\ ready' \in Seq(Posted)
    BY <1>2, HeadTailProperties DEF Apply, TypeOK
  <2>2. applied' \in [Tasks -> Nat]
    <3>1. CASE Head(ready).task \in Tasks
      <4>1. applied \in [Tasks -> Nat]
        BY DEF TypeOK
      <4> HIDE DEF Control, ThreadsInv, Phases, NothingMissed
      <4>2. applied[Head(ready).task] + 1 \in Nat
        BY <3>1, <4>1
      <4>3. applied' = [applied EXCEPT ![Head(ready).task] = applied[Head(ready).task] + 1]
        BY <1>2, <3>1 DEF Apply
      <4> QED
        BY <4>1, <4>2, <4>3
    <3>2. CASE Head(ready).task \notin Tasks
      BY <1>2, <2>1, <3>2 DEF Apply, TypeOK, Posted
    <3> QED
      BY <3>1, <3>2
  <2>3. TypeOK'
    BY <1>2, <2>1, <2>2 DEF Apply, TypeOK, MainStates
  <2> QED
    BY <1>2, <2>3 DEF Apply
<1>3. CASE Quit
  <2>1. TypeOK'
    BY <1>3 DEF Quit, TypeOK, MainStates
  <2> QED
    BY <1>3, <2>1 DEF Quit
<1>4. ASSUME NEW t \in Tasks, Submit(t) PROVE Control'
  <2>1. queue' \in Seq(Tasks)
    BY <1>4, AppendProperties DEF Submit, Push, TypeOK
  <2>2. TypeOK'
    BY <1>4, <2>1 DEF Submit, Push, TypeOK, MainStates
  <2>3. \A w \in Workers : pc[w] # "ended" /\ pc[w] # "block"
    BY <1>4 DEF Submit, Push, Free
  <2> QED
    BY <1>4, <2>2, <2>3 DEF Submit, Push
<1> QED
    BY <1>1, <1>2, <1>3, <1>4

LEMMA NotifyControl ==
    ASSUME Control, Notify PROVE Control'
<1> USE DEF Control, ThreadsInv, Phases, Stopped, NothingMissed, NobodyIdlesOverWork,
            PollerStopsAtOnce, AllEnded, pumpVars, pollerVars
<1>1. CASE \E w \in Workers : InWait(w)
  <2>1. PICK w \in Workers : InWait(w) /\ pc' = [pc EXCEPT ![w] = Woken(w)]
    BY <1>1 DEF Notify, NotifyOne
  <2>2. TypeOK'
    BY <2>1 DEF Notify, InWait, Woken, TypeOK, PumpStates, MainStates
  <2> QED
    BY <2>1, <2>2 DEF Notify, InWait, Woken, TypeOK
<1>2. CASE ~ \E w \in Workers : InWait(w)
  <2>1. pc' = pc
    BY <1>2 DEF Notify, NotifyOne
  <2>2. TypeOK'
    BY <2>1 DEF Notify, TypeOK, MainStates
  <2>3. \A w \in Workers : pc[w] \notin {"waiting", "ended"}
    BY <1>2 DEF Notify, InWait
  <2> QED
    BY <2>1, <2>2, <2>3 DEF Notify
<1> QED
    BY <1>1, <1>2

LEMMA StopControl ==
    ASSUME Control, StopPoller \/ StopWorkers PROVE Control'
<1> USE DEF Control, ThreadsInv, Phases, Stopped, NothingMissed, NobodyIdlesOverWork,
            PollerStopsAtOnce, AllEnded, pumpVars, pollerVars, ThenMain
<1>1. CASE StopPoller
  <2>1. TypeOK'
    BY <1>1 DEF StopPoller, StopPolling, PollerLock, PollerNotify, TypeOK, PollerStates, MainStates
  <2> QED
    BY <1>1, <2>1 DEF StopPoller, StopPolling, PollerLock, PollerNotify
<1>2. CASE ThenMain("stopPump", "notifyPump") /\ StopRunning /\ UNCHANGED pollerVars
  <2>1. TypeOK'
    BY <1>2 DEF StopRunning, TypeOK, MainStates
  <2> QED
    BY <1>2, <2>1 DEF StopRunning
<1>3. CASE /\ ThenMain("notifyPump", "joinPump")
           /\ NotifyAll
           /\ UNCHANGED <<queue, running, task, posted, done, pollerVars>>
  <2>1. TypeOK'
    BY <1>3 DEF NotifyAll, InWait, Woken, TypeOK, PumpStates, MainStates
  <2> QED
    BY <1>3, <2>1 DEF NotifyAll, InWait, Woken, TypeOK
<1>4. CASE ThenMain("joinPump", "gone") /\ AllEnded /\ UNCHANGED <<pumpVars, pollerVars>>
  <2>1. TypeOK'
    BY <1>4 DEF TypeOK, MainStates
  <2> QED
    BY <1>4, <2>1
<1> QED
    BY <1>1, <1>2, <1>3, <1>4 DEF StopWorkers

LEMMA ControlStep ==
    ASSUME Control, [Next]_vars PROVE Control'
<1>1. CASE UNCHANGED vars
    BY <1>1 DEF vars, pumpVars, pollerVars, mainVars, Control, ThreadsInv, TypeOK,
                NobodyIdlesOverWork, Phases, Stopped, AllEnded, NothingMissed, PollerStopsAtOnce
<1>2. ASSUME NEW w \in Workers, WorkerNext(w) PROVE Control'
    BY <1>2, IdleWorkerControl, BusyWorkerControl DEF WorkerNext, WorkerStep
<1> QED
    BY <1>1, <1>2, PollerControl, FrameControl, NotifyControl, StopControl
       DEF Next, MainStep, Gone

(* At every moment of every run the control of the three kinds of threads  *)
(* fits together.                                                          *)
THEOREM ControlAlways == Spec => []Control
<1>1. Init => Control
    BY ControlInit
<1>2. Control /\ [Next]_vars => Control'
    BY ControlStep
<1> QED
    BY <1>1, <1>2, PTL DEF Spec

(* No wake-up of a worker is lost while tasks come in.                     *)
THEOREM NoLostWakeup == Spec => []ThreadsInv
<1>1. Control => ThreadsInv
    BY DEF Control
<1> QED
    BY <1>1, ControlAlways, PTL

(* Once conf_poller::stop() joins, the thread is not waiting and not about *)
(* to: it takes the mutex between the change of g_running and the          *)
(* notification.                                                           *)
THEOREM PollerNeverWaitsOut == Spec => []PollerStopsAtOnce
<1>1. Control => PollerStopsAtOnce
    BY DEF Control
<1> QED
    BY <1>1, ControlAlways, PTL

-------------------------------------------------------------------------------
(* A task is in one place: the queue, one worker, or among those done. *)

TasksOnce ==
    /\ \A i, j \in 1..Len(queue) : queue[i] = queue[j] => i = j
    /\ \A i \in 1..Len(queue) : queue[i] \notin done /\ \A w \in Workers : task[w] # queue[i]
    /\ \A w \in Workers : task[w] \notin done
    /\ \A v, w \in Workers : task[v] = task[w] /\ task[v] # NoTask => v = w

LEMMA OnceInit == Init => TasksOnce
    BY EmptySeq DEF Init, PumpInit, TasksOnce

LEMMA OnceTake ==
    ASSUME TypeOK, TasksOnce, NEW w \in Workers, TakeTask(w) PROVE TasksOnce'
<1>1. /\ queue \in Seq(Tasks) /\ queue # <<>>
      /\ queue' = Tail(queue) /\ task' = [task EXCEPT ![w] = queue[1]] /\ done' = done
    BY DEF TakeTask, TypeOK
<1>2. /\ Len(queue) \in Nat \ {0} /\ Len(queue') = Len(queue) - 1
      /\ \A i \in 1..Len(queue') : queue'[i] = queue[i + 1] /\ i + 1 \in 1..Len(queue)
    BY <1>1, HeadTailProperties, EmptySeq, LenProperties
<1>3. \A i \in 1..Len(queue') : queue'[i] # queue[1]
    BY <1>2 DEF TasksOnce
<1>4. queue[1] \in Tasks
    BY <1>1, <1>2, ElementOfSeq
<1>5. \A v \in Workers : task'[v] = IF v = w THEN queue[1] ELSE task[v]
    BY <1>1 DEF TypeOK
<1>6. queue[1] \notin done /\ \A v \in Workers : task[v] # queue[1]
    BY <1>2 DEF TasksOnce
<1>7. \A i, j \in 1..Len(queue') : queue'[i] = queue'[j] => i = j
    BY <1>2 DEF TasksOnce
<1>8. \A i \in 1..Len(queue') : queue'[i] \notin done' /\ \A v \in Workers : task'[v] # queue'[i]
    BY <1>1, <1>2, <1>3, <1>5 DEF TasksOnce
<1> QED
    BY <1>1, <1>5, <1>6, <1>7, <1>8 DEF TasksOnce

LEMMA OnceSubmit ==
    ASSUME TypeOK, TasksOnce, NEW t \in Tasks, Submit(t) PROVE TasksOnce'
<1>1. queue \in Seq(Tasks) /\ queue' = Append(queue, t) /\ UNCHANGED <<task, done>>
    BY DEF Submit, Push, TypeOK
<1>2. /\ Len(queue) \in Nat /\ Len(queue') = Len(queue) + 1
      /\ \A i \in 1..Len(queue) : queue'[i] = queue[i]
      /\ queue'[Len(queue) + 1] = t
    BY <1>1, AppendProperties, LenProperties
<1>3. \A i \in 1..Len(queue') : i \in 1..Len(queue) \/ i = Len(queue) + 1
    BY <1>2
<1>4. /\ \A i \in 1..Len(queue) : queue[i] # t
      /\ \A w \in Workers : task[w] # t
      /\ t \notin done
    BY StepsAssumption DEF Submit, Submitted, Members
<1>5. \A i, j \in 1..Len(queue') : queue'[i] = queue'[j] => i = j
    BY <1>2, <1>3, <1>4 DEF TasksOnce
<1>6. \A i \in 1..Len(queue') : queue'[i] \notin done /\ \A w \in Workers : task[w] # queue'[i]
    BY <1>2, <1>3, <1>4 DEF TasksOnce
<1> QED
    BY <1>1, <1>5, <1>6 DEF TasksOnce

LEMMA OnceEnd ==
    ASSUME TypeOK, TasksOnce, NEW w \in Workers, UNCHANGED queue, EndTask(w),
           pc[w] \in {"run", "testSleep", "sleeping"}
    PROVE  TasksOnce'
<1>1. task[w] # NoTask
    BY DEF TypeOK
<1>2. \A v \in Workers : task'[v] = IF v = w THEN NoTask ELSE task[v]
    BY DEF TypeOK, EndTask
<1>3. done' = done \cup {task[w]} /\ NoTask \notin done'
    BY <1>1 DEF TypeOK, EndTask
<1>4. \A i \in 1..Len(queue) : queue[i] \in Tasks
    BY ElementOfSeq DEF TypeOK
<1> QED
    BY <1>1, <1>2, <1>3, <1>4 DEF TasksOnce

\* What a step of a worker does to the tasks: it takes one, ends one, or neither.
LEMMA WorkerEffect ==
    ASSUME NEW w \in Workers, WorkerNext(w)
    PROVE  \/ TakeTask(w)
           \/ /\ EndTask(w) /\ UNCHANGED <<queue, posted>>
              /\ pc[w] \in {"run", "testSleep", "sleeping"}
              /\ \/ UNCHANGED results
                 \/ pc[w] = "run" /\ Post(Result(w))
           \/ RunStep(w)
           \/ UNCHANGED <<queue, task, posted, done, results>>
<1>1. CASE Leave(w) \/ FindNothing(w) \/ Block(w) \/ GoToSleep(w) \/ Spurious(w)
    BY <1>1 DEF Leave, FindNothing, Block, GoToSleep, Spurious
<1>2. CASE RunPlain(w)
    BY <1>2 DEF RunPlain
<1>3. CASE SleepRefused(w) \/ SleepOver(w)
    BY <1>3 DEF SleepRefused, SleepOver, AfterSleep
<1> QED
    BY <1>1, <1>2, <1>3 DEF WorkerNext, WorkerStep

LEMMA OnceStep ==
    ASSUME TypeOK, TasksOnce, [Next]_vars PROVE TasksOnce'
<1>1. CASE UNCHANGED <<queue, task, done>>
    BY <1>1 DEF TasksOnce
<1>2. ASSUME NEW w \in Workers, WorkerNext(w) PROVE TasksOnce'
    BY <1>1, <1>2, WorkerEffect, OnceTake, OnceEnd DEF RunStep
<1>3. ASSUME NEW t \in Tasks, Submit(t) PROVE TasksOnce'
    BY <1>3, OnceSubmit
<1>4. CASE MainStep \/ Quit \/ PollerNext \/ Gone \/ UNCHANGED vars
    BY <1>1, <1>4 DEF MainStep, Drain, Apply, Notify, StopPoller, StopWorkers, ThenMain,
       StopRunning, Quit, PollerNext, Gone, vars, pumpVars
<1> QED
    BY <1>2, <1>3, <1>4 DEF Next

-------------------------------------------------------------------------------
(* The threads implement TaskPool: a submitted task is started once, in    *)
(* the order of submission, and has ended before the state it works on is  *)
(* destroyed.                                                              *)

LEMMA PoolInit == Init => Pool!Init
    BY StepsAssumption DEF Init, PumpInit, Pool!Init

LEMMA PoolTake ==
    ASSUME Control, TasksOnce, NEW w \in Workers, TakeTask(w), UNCHANGED mainVars
    PROVE  Pool!Start
<1>1. main # "gone"
    BY DEF Control, Phases, AllEnded, TakeTask
<1>2. queue # <<>> /\ queue' = Tail(queue) /\ done' = done /\ main' = main
    BY DEF TakeTask, mainVars
<1>3. Head(queue) \in Tasks
    BY <1>2, HeadTailProperties DEF Control, ThreadsInv, TypeOK
<1>4. task[w] = NoTask
    BY DEF TakeTask, Control, ThreadsInv, TypeOK
<1>5. \A v \in Workers : task'[v] = IF v = w THEN Head(queue) ELSE task[v]
    BY DEF TakeTask, Control, ThreadsInv, TypeOK
<1>6. {task'[v] : v \in Workers} \ {NoTask} =
          ({task[v] : v \in Workers} \ {NoTask}) \cup {Head(queue)}
    BY <1>3, <1>4, <1>5, StepsAssumption
<1> QED
    BY <1>1, <1>2, <1>6 DEF Pool!Start

LEMMA PoolEnd ==
    ASSUME Control, TasksOnce, NEW w \in Workers, EndTask(w), UNCHANGED <<queue, mainVars>>,
           pc[w] \in {"run", "testSleep", "sleeping"}
    PROVE  \E t \in Tasks : Pool!End(t)
<1>1. task[w] \in Tasks /\ task[w] # NoTask
    BY DEF Control, ThreadsInv, TypeOK
<1>2. \A v \in Workers : task'[v] = IF v = w THEN NoTask ELSE task[v]
    BY DEF EndTask, Control, ThreadsInv, TypeOK
<1>3. {task'[v] : v \in Workers} \ {NoTask} =
          ({task[v] : v \in Workers} \ {NoTask}) \ {task[w]}
    BY <1>1, <1>2 DEF TasksOnce
<1> DEFINE t == task[w]
<1>4. t \in Tasks /\ t \in {task[v] : v \in Workers} \ {NoTask}
    BY <1>1
<1>5. /\ {task'[v] : v \in Workers} \ {NoTask} = ({task[v] : v \in Workers} \ {NoTask}) \ {t}
      /\ done' = done \cup {t} /\ UNCHANGED <<queue, main>>
    BY <1>3 DEF EndTask, mainVars
<1> HIDE DEF t
<1> QED
    BY <1>4, <1>5 DEF Pool!End

LEMMA PoolClose ==
    ASSUME Control, main = "joinPump", main' = "gone", AllEnded, UNCHANGED pumpVars
    PROVE  Pool!Close
<1>1. queue = <<>>
    BY DEF Control, NothingMissed, AllEnded
<1>2. \A w \in Workers : task[w] = NoTask
    BY DEF Control, ThreadsInv, TypeOK, AllEnded
<1> QED
    BY <1>1, <1>2 DEF Pool!Close, pumpVars

LEMMA PoolStep ==
    ASSUME Control, TasksOnce, [Next]_vars PROVE [Pool!Next]_(Pool!vars)
<1>1. CASE UNCHANGED <<queue, task, done>> /\ (main = "gone" <=> main' = "gone")
    BY <1>1 DEF Pool!vars
<1>2. ASSUME NEW w \in Workers, WorkerNext(w) PROVE [Pool!Next]_(Pool!vars)
  <2>1. CASE TakeTask(w)
    BY <1>2, <2>1, PoolTake DEF WorkerNext, Pool!Next
  <2>2. CASE EndTask(w) /\ UNCHANGED queue /\ pc[w] \in {"run", "testSleep", "sleeping"}
    BY <1>2, <2>2, PoolEnd DEF WorkerNext, Pool!Next
  <2>3. CASE UNCHANGED <<queue, task, done>>
    BY <1>1, <1>2, <2>3 DEF WorkerNext, mainVars
  <2> QED
    BY <1>2, <2>1, <2>2, <2>3, WorkerEffect DEF RunStep
<1>3. ASSUME NEW t \in Tasks, Submit(t) PROVE [Pool!Next]_(Pool!vars)
  <2>1. /\ main # "gone" /\ main' # "gone"
        /\ queue' = Append(queue, t) /\ UNCHANGED <<task, done>>
    BY <1>3 DEF Submit, Push
  <2>2. t \notin Pool!Submitted
    BY <1>3 DEF Submit, Submitted, Members, Pool!Submitted
  <2> QED
    BY <2>1, <2>2 DEF Pool!Submit, Pool!Next
<1>4. CASE StopWorkers
  <2>1. CASE main = "joinPump" /\ main' = "gone" /\ AllEnded /\ UNCHANGED pumpVars
    BY <2>1, PoolClose DEF Pool!Next
  <2>2. CASE UNCHANGED <<queue, task, done>> /\ main # "gone" /\ main' # "gone"
    BY <1>1, <2>2
  <2> QED
    BY <1>4, <2>1, <2>2 DEF StopWorkers, ThenMain, StopRunning
<1>5. CASE Drain \/ Apply \/ Notify \/ StopPoller \/ Quit \/ PollerNext \/ Gone \/ UNCHANGED vars
    BY <1>1, <1>5 DEF Drain, Apply, Notify, StopPoller, ThenMain, Quit, PollerNext, Gone,
       vars, pumpVars, mainVars
<1> QED
    BY <1>2, <1>3, <1>4, <1>5 DEF Next, MainStep

\* The pool of job_pump.cpp, with its workers, its queue and its locks, does what
\* TaskPool says of it: a task runs once, in order, and none is dropped at the stop.
THEOREM PoolRefined == Spec => PoolSpec
<1>1. Init => Pool!Init /\ TasksOnce
    BY PoolInit, OnceInit
<1>2. Control => TypeOK
    BY DEF Control, ThreadsInv
<1>3. Control /\ TasksOnce /\ [Next]_vars => TasksOnce' /\ [Pool!Next]_(Pool!vars)
    BY <1>2, OnceStep, PoolStep
<1> QED
    BY <1>1, <1>3, ControlAlways, PTL DEF Spec, PoolSpec, Pool!Spec

-------------------------------------------------------------------------------
(* The order of the results: of each task those on their way go on from    *)
(* the last one applied, and end with the last one its worker posted.      *)

OfTask(s, t) == {i \in 1..Len(s) : s[i].task = t}

InOrder(s, app) ==
    \A i \in 1..Len(s) : s[i].task \in Tasks =>
        /\ \A j \in OfTask(s, s[i].task) : j < i => s[j].nr < s[i].nr
        /\ \/ s[i].nr = app[s[i].task] + 1
           \/ \E j \in OfTask(s, s[i].task) : j < i /\ s[i].nr = s[j].nr + 1

\* n is the number of the last result of t.
EndsAt(s, app, t, n) ==
    /\ \A i \in OfTask(s, t) : s[i].nr <= n
    /\ app[t] = n \/ \E i \in OfTask(s, t) : s[i].nr = n

Numbered(s, app) ==
    /\ InOrder(s, app)
    /\ \A w \in Workers : task[w] # NoTask => EndsAt(s, app, task[w], posted[w])
    /\ \A t \in Tasks \ done :
          (\A w \in Workers : task[w] # t) => app[t] = 0 /\ OfTask(s, t) = {}

LEMMA WayTyped == TypeOK => OnTheirWay \in Seq(Posted)
    BY ConcatProperties DEF TypeOK, OnTheirWay

LEMMA OrderInit == Init => Numbered(OnTheirWay, applied)
<1> SUFFICES ASSUME Init PROVE Numbered(OnTheirWay, applied)
    OBVIOUS
<1>1. OnTheirWay = <<>>
    BY EmptySeq, ConcatEmptySeq DEF Init, OnTheirWay
<1>2. Len(OnTheirWay) = 0
    BY <1>1, EmptySeq
<1> QED
    BY <1>2 DEF Init, PumpInit, Numbered, InOrder, OfTask

LEMMA PostAppends ==
    ASSUME TypeOK, NEW r \in Posted, Post(r), ready' = ready
    PROVE  OnTheirWay' = Append(OnTheirWay, r)
<1>1. ready \in Seq(Posted) /\ results \in Seq(Posted) /\ <<r>> \in Seq(Posted)
    BY DEF TypeOK
<1>2. results' = results \o <<r>>
    BY <1>1, AppendIsConcat DEF Post
<1>3. ready \o results \in Seq(Posted)
    BY <1>1, ConcatProperties
<1>4. ready \o (results \o <<r>>) = (ready \o results) \o <<r>>
    BY <1>1, ConcatAssociative
<1>5. Append(ready \o results, r) = (ready \o results) \o <<r>>
    BY <1>3, AppendIsConcat
<1> QED
    BY <1>2, <1>4, <1>5 DEF OnTheirWay

LEMMA AppendOfTask ==
    ASSUME NEW s \in Seq(Posted), NEW r \in Posted, NEW t
    PROVE  /\ OfTask(Append(s, r), t) =
                  OfTask(s, t) \cup (IF r.task = t THEN {Len(s) + 1} ELSE {})
           /\ \A i \in 1..Len(s) : Append(s, r)[i] = s[i]
           /\ Append(s, r)[Len(s) + 1] = r
           /\ Len(Append(s, r)) = Len(s) + 1
           /\ Len(s) \in Nat
    BY AppendProperties, LenProperties DEF OfTask

LEMMA AppendInOrder ==
    ASSUME NEW s \in Seq(Posted), NEW r \in Posted, NEW app \in [Tasks -> Nat], InOrder(s, app),
           r.task \in Tasks =>
               /\ \A j \in OfTask(s, r.task) : s[j].nr < r.nr
               /\ r.nr = app[r.task] + 1 \/ \E j \in OfTask(s, r.task) : r.nr = s[j].nr + 1
    PROVE  InOrder(Append(s, r), app)
<1> DEFINE a == Append(s, r)
           n == Len(s)
<1>1. /\ n \in Nat /\ Len(a) = n + 1 /\ a[n + 1] = r
      /\ \A i \in 1..n : a[i] = s[i]
      /\ \A t : OfTask(a, t) = OfTask(s, t) \cup (IF r.task = t THEN {n + 1} ELSE {})
    BY AppendOfTask
<1>2. \A t : \A j \in OfTask(s, t) : j \in 1..n
    BY DEF OfTask
<1> HIDE DEF a, n
<1> SUFFICES ASSUME NEW i \in 1..(n + 1), a[i].task \in Tasks
             PROVE  /\ \A j \in OfTask(a, a[i].task) : j < i => a[j].nr < a[i].nr
                    /\ \/ a[i].nr = app[a[i].task] + 1
                       \/ \E j \in OfTask(a, a[i].task) : j < i /\ a[i].nr = a[j].nr + 1
    BY <1>1 DEF InOrder, a
<1>3. CASE i = n + 1
  <2>1. a[i] = r /\ r.task \in Tasks
    BY <1>1, <1>3
  <2>2. \A j \in OfTask(a, r.task) : j < i => j \in OfTask(s, r.task)
    BY <1>1, <1>3
  <2>3. \A j \in OfTask(s, r.task) : j \in OfTask(a, r.task) /\ j < i /\ a[j] = s[j]
    BY <1>1, <1>2, <1>3
  <2> QED
    BY <2>1, <2>2, <2>3
<1>4. CASE i \in 1..n
  <2>1. a[i] = s[i] /\ \A j \in OfTask(a, s[i].task) : j < i => j \in OfTask(s, s[i].task)
    BY <1>1, <1>4
  <2>2. /\ \A j \in OfTask(s, s[i].task) : j < i => s[j].nr < s[i].nr
        /\ \/ s[i].nr = app[s[i].task] + 1
           \/ \E j \in OfTask(s, s[i].task) : j < i /\ s[i].nr = s[j].nr + 1
    BY <1>4, <2>1 DEF InOrder, n
  <2> QED
    BY <1>1, <1>2, <2>1, <2>2
<1> QED
    BY <1>1, <1>3, <1>4

\* A worker posts the next result of its task.
LEMMA OrderPost ==
    ASSUME TypeOK, TasksOnce, Numbered(OnTheirWay, applied), NEW w \in Workers, pc[w] = "run",
           Post(Result(w)), UNCHANGED mainVars,
           \/ posted' = [posted EXCEPT ![w] = @ + 1] /\ UNCHANGED <<task, done>>
           \/ EndTask(w) /\ UNCHANGED posted
    PROVE  Numbered(OnTheirWay, applied)'
<1> DEFINE s == OnTheirWay
           r == Result(w)
           t == task[w]
           a == Append(s, r)
<1>1. s \in Seq(Posted) /\ r \in Posted /\ t \in Tasks /\ applied \in [Tasks -> Nat]
    BY WayTyped, ResultTyped DEF TypeOK
<1>2. OnTheirWay' = a /\ applied' = applied
    BY <1>1, PostAppends DEF mainVars
<1>3. r.task = t /\ r.nr = posted[w] + 1 /\ posted[w] \in Nat
    BY DEF Result, TypeOK
<1>4. EndsAt(s, applied, t, posted[w]) /\ t # NoTask
    BY <1>1 DEF Numbered
<1>5. /\ Len(s) \in Nat /\ a[Len(s) + 1] = r
      /\ \A i \in 1..Len(s) : a[i] = s[i]
      /\ \A u : OfTask(a, u) = OfTask(s, u) \cup (IF t = u THEN {Len(s) + 1} ELSE {})
    BY <1>1, <1>3, AppendOfTask
<1>6. \A u : \A j \in OfTask(s, u) : j \in 1..Len(s) /\ s[j].nr \in Nat
  <2>1. \A j \in 1..Len(s) : s[j] \in Posted
    BY <1>1, ElementOfSeq
  <2> HIDE DEF s
  <2> QED
    BY <2>1 DEF OfTask, Posted
<1> HIDE DEF s, r, t, a
<1>7. InOrder(a, applied)
  <2>1. \A j \in OfTask(s, t) : s[j].nr < r.nr
    BY <1>3, <1>4, <1>6 DEF EndsAt
  <2>2. r.nr = applied[t] + 1 \/ \E j \in OfTask(s, t) : r.nr = s[j].nr + 1
    BY <1>3, <1>4 DEF EndsAt
  <2>3. InOrder(s, applied)
    BY DEF Numbered, s
  <2> QED
    BY <1>1, <1>3, <2>1, <2>2, <2>3, AppendInOrder DEF a
<1>8. \A u : u # t => OfTask(a, u) = OfTask(s, u)
    BY <1>5
<1>9. \A u, n : u # t /\ EndsAt(s, applied, u, n) => EndsAt(a, applied, u, n)
    BY <1>5, <1>6, <1>8 DEF EndsAt
<1>10. EndsAt(a, applied, t, posted[w] + 1)
  <2>1. OfTask(a, t) = OfTask(s, t) \cup {Len(s) + 1}
    BY <1>5
  <2>2. \A i \in OfTask(s, t) : a[i].nr <= posted[w] + 1
    BY <1>3, <1>4, <1>5, <1>6 DEF EndsAt
  <2> QED
    BY <1>3, <1>5, <2>1, <2>2 DEF EndsAt
<1>11. \A v \in Workers : v # w /\ task[v] # NoTask => task[v] # t
    BY <1>4 DEF TasksOnce, t
<1>12. CASE posted' = [posted EXCEPT ![w] = @ + 1] /\ UNCHANGED <<task, done>>
  <2>1. \A v \in Workers : posted'[v] = IF v = w THEN posted[w] + 1 ELSE posted[v]
    BY <1>12 DEF TypeOK
  <2>2. \A v \in Workers : task[v] # NoTask => EndsAt(a, applied, task[v], posted'[v])
    BY <1>9, <1>10, <1>11, <2>1 DEF Numbered, s, t
  <2> QED
    BY <1>2, <1>7, <1>8, <1>12, <2>2 DEF Numbered, s, t
<1>13. CASE EndTask(w) /\ UNCHANGED posted
  <2>1. \A v \in Workers : task'[v] = IF v = w THEN NoTask ELSE task[v]
    BY <1>13 DEF EndTask, TypeOK
  <2>2. \A v \in Workers : task'[v] # NoTask => EndsAt(a, applied, task'[v], posted[v])
    BY <1>9, <1>11, <2>1 DEF Numbered, s
  <2>3. done' = done \cup {t}
    BY <1>13 DEF EndTask, t
  <2>4. \A u \in Tasks \ done' : (\A v \in Workers : task'[v] # u) =>
             applied[u] = 0 /\ OfTask(a, u) = {}
    BY <1>8, <2>1, <2>3 DEF Numbered, s, t
  <2> QED
    BY <1>2, <1>7, <1>13, <2>2, <2>4 DEF Numbered
<1> QED
    BY <1>12, <1>13

\* The oldest result that was drained is applied.
LEMMA FirstOff ==
    ASSUME NEW s \in Seq(Posted), s # <<>>
    PROVE  /\ Tail(s) \in Seq(Posted) /\ Len(Tail(s)) = Len(s) - 1 /\ Len(s) \in Nat
           /\ \A i \in 1..Len(Tail(s)) : Tail(s)[i] = s[i + 1] /\ i + 1 \in 1..Len(s)
           /\ \A i \in 1..Len(s) : i # 1 => i - 1 \in 1..Len(Tail(s)) /\ Tail(s)[i - 1] = s[i]
           /\ 1 \in 1..Len(s) /\ Head(s) = s[1]
<1>1. /\ Tail(s) \in Seq(Posted) /\ Len(Tail(s)) = Len(s) - 1 /\ Len(s) \in Nat \ {0}
      /\ \A i \in 1..Len(Tail(s)) : Tail(s)[i] = s[i + 1]
    BY HeadTailProperties, EmptySeq, LenProperties
<1>2. \A i \in 1..Len(Tail(s)) : i + 1 \in 1..Len(s)
    BY <1>1
<1>3. \A i \in 1..Len(s) : i # 1 => i - 1 \in 1..Len(Tail(s)) /\ Tail(s)[i - 1] = s[i]
    BY <1>1
<1> QED
    BY <1>1, <1>2, <1>3

\* Of each task, the results that are left are the ones that were not the oldest.
LEMMA OfTaskOff ==
    ASSUME NEW s \in Seq(Posted), s # <<>>, NEW t
    PROVE  /\ \A i \in OfTask(Tail(s), t) : i + 1 \in OfTask(s, t) /\ Tail(s)[i] = s[i + 1]
           /\ \A i \in OfTask(s, t) : i # 1 =>
                  i - 1 \in OfTask(Tail(s), t) /\ Tail(s)[i - 1] = s[i]
<1>1. \A i \in 1..Len(Tail(s)) : Tail(s)[i] = s[i + 1] /\ i + 1 \in 1..Len(s)
    BY FirstOff
<1>2. \A i \in 1..Len(s) : i # 1 => i - 1 \in 1..Len(Tail(s)) /\ Tail(s)[i - 1] = s[i]
    BY FirstOff
<1> QED
    BY <1>1, <1>2 DEF OfTask

LEMMA TailInOrder ==
    ASSUME NEW s \in Seq(Posted), s # <<>>, NEW app \in [Tasks -> Nat], InOrder(s, app),
           NEW next \in [Tasks -> Nat],
           \A t \in Tasks : next[t] = IF t = s[1].task THEN app[t] + 1 ELSE app[t]
    PROVE  /\ InOrder(Tail(s), next)
           /\ s[1].task \in Tasks => s[1].nr = app[s[1].task] + 1
<1> DEFINE u == Tail(s)
<1>1. /\ Len(s) \in Nat /\ Len(u) = Len(s) - 1 /\ 1 \in 1..Len(s)
      /\ \A i \in 1..Len(u) : u[i] = s[i + 1] /\ i + 1 \in 1..Len(s)
    BY FirstOff
<1>2. \A t : \A i \in OfTask(u, t) : i + 1 \in OfTask(s, t) /\ u[i] = s[i + 1]
    BY OfTaskOff
<1>3. \A t : \A i \in OfTask(s, t) : i # 1 => i - 1 \in OfTask(u, t) /\ u[i - 1] = s[i]
    BY OfTaskOff
<1>4. \A i \in 1..Len(s) : s[i].nr \in Nat
  <2>1. \A i \in 1..Len(s) : s[i] \in Posted
    BY ElementOfSeq
  <2> QED
    BY <2>1 DEF Posted
<1>5. \A t : \A i \in OfTask(s, t) : i \in 1..Len(s) /\ i \in Nat /\ s[i].task = t
    BY DEF OfTask
<1>6. \A t : \A i \in OfTask(u, t) : i \in Nat
    BY DEF OfTask
<1> HIDE DEF u
<1>7. ASSUME s[1].task \in Tasks PROVE s[1].nr = app[s[1].task] + 1
  <2>1. \/ s[1].nr = app[s[1].task] + 1
        \/ \E j \in OfTask(s, s[1].task) : j < 1 /\ s[1].nr = s[j].nr + 1
    BY <1>1, <1>7 DEF InOrder
  <2>2. \A j \in OfTask(s, s[1].task) : ~ (j < 1)
    BY <1>1 DEF OfTask
  <2> QED
    BY <2>1, <2>2
<1>8. ASSUME NEW i \in 1..Len(u), NEW t \in Tasks, u[i].task = t
      PROVE  /\ \A j \in OfTask(u, t) : j < i => u[j].nr < u[i].nr
             /\ \/ u[i].nr = next[t] + 1
                \/ \E j \in OfTask(u, t) : j < i /\ u[i].nr = u[j].nr + 1
  <2>1. u[i] = s[i + 1] /\ i + 1 \in 1..Len(s) /\ s[i + 1].task = t /\ i \in Nat /\ 1 < i + 1
    BY <1>1, <1>8
  <2>2. \A j \in OfTask(s, t) : j < i + 1 => s[j].nr < s[i + 1].nr
    BY <2>1 DEF InOrder
  <2>3. \/ s[i + 1].nr = app[t] + 1
        \/ \E j \in OfTask(s, t) : j < i + 1 /\ s[i + 1].nr = s[j].nr + 1
    BY <2>1 DEF InOrder
  <2>4. ASSUME NEW j \in OfTask(u, t), j < i PROVE u[j].nr < u[i].nr
    <3>1. j + 1 \in OfTask(s, t) /\ u[j] = s[j + 1] /\ j + 1 < i + 1
      BY <1>2, <1>6, <2>1, <2>4
    <3> QED
      BY <2>1, <2>2, <3>1
  <2>5. ASSUME NEW j \in OfTask(s, t), j # 1, j < i + 1, s[i + 1].nr = s[j].nr + 1
        PROVE  \E k \in OfTask(u, t) : k < i /\ u[i].nr = u[k].nr + 1
    <3>1. j - 1 \in OfTask(u, t) /\ u[j - 1] = s[j] /\ j - 1 < i
      BY <1>3, <1>5, <2>1, <2>5
    <3> QED
      BY <2>1, <2>5, <3>1
  <2>6. CASE s[1].task = t
    <3>1. s[1].nr = app[t] + 1 /\ next[t] = app[t] + 1 /\ 1 \in OfTask(s, t) /\ app[t] \in Nat
      BY <1>1, <1>7, <2>6 DEF OfTask
    <3>2. s[1].nr < s[i + 1].nr
      BY <2>1, <2>2, <3>1
    <3>3. PICK j \in OfTask(s, t) : j < i + 1 /\ s[i + 1].nr = s[j].nr + 1
      <4>1. s[i + 1].nr # app[t] + 1
        BY <2>1, <3>1, <3>2, <1>4
      <4> QED
        BY <2>3, <4>1
    <3>4. CASE j = 1
      BY <2>1, <2>4, <3>1, <3>3, <3>4
    <3> QED
      BY <2>4, <2>5, <3>3, <3>4
  <2>7. CASE s[1].task # t
    <3>1. next[t] = app[t] /\ \A j \in OfTask(s, t) : j # 1
      BY <1>5, <2>7
    <3> QED
      BY <2>1, <2>3, <2>4, <2>5, <3>1
  <2> QED
    BY <2>6, <2>7
<1>9. InOrder(u, next)
    BY <1>8 DEF InOrder
<1> QED
    BY <1>7, <1>9 DEF u

\* Of the oldest result's task, what is left ends as before.
LEMMA TailEndsAt ==
    ASSUME NEW s \in Seq(Posted), s # <<>>, NEW app \in [Tasks -> Nat],
           NEW next \in [Tasks -> Nat],
           \A t \in Tasks : next[t] = IF t = s[1].task THEN app[t] + 1 ELSE app[t],
           s[1].task \in Tasks => s[1].nr = app[s[1].task] + 1,
           NEW t \in Tasks, NEW n \in Nat, EndsAt(s, app, t, n)
    PROVE  EndsAt(Tail(s), next, t, n)
<1> DEFINE u == Tail(s)
<1>0. /\ \A i \in OfTask(u, t) : i + 1 \in OfTask(s, t) /\ u[i] = s[i + 1]
      /\ \A i \in OfTask(s, t) : i # 1 => i - 1 \in OfTask(u, t) /\ u[i - 1] = s[i]
    BY OfTaskOff, Zenon
<1>1. \A i \in OfTask(u, t) : i + 1 \in OfTask(s, t) /\ u[i] = s[i + 1]
    BY <1>0
<1>2. \A i \in OfTask(s, t) : i # 1 => i - 1 \in OfTask(u, t) /\ u[i - 1] = s[i]
    BY <1>0
<1>3. 1 \in 1..Len(s)
    BY FirstOff
<1> HIDE DEF u
<1>4. \A i \in OfTask(u, t) : u[i].nr <= n
    BY <1>1 DEF EndsAt
<1>5. CASE \E i \in OfTask(s, t) : i # 1 /\ s[i].nr = n
  <2>1. PICK i \in OfTask(s, t) : i # 1 /\ s[i].nr = n
    BY <1>5
  <2>2. i - 1 \in OfTask(u, t) /\ u[i - 1].nr = n
    BY <1>2, <2>1
  <2>3. EndsAt(u, next, t, n)
    BY <1>4, <2>2 DEF EndsAt
  <2> QED
    BY <2>3 DEF u
<1>6. CASE 1 \in OfTask(s, t) /\ s[1].nr = n
  <2>1. next[t] = n
    BY <1>6 DEF OfTask
  <2> QED
    BY <1>4, <2>1 DEF EndsAt, u
<1>7. CASE app[t] = n
  <2>1. s[1].task # t
    <3>1. SUFFICES ASSUME s[1].task = t PROVE FALSE
        OBVIOUS
    <3>2. 1 \in OfTask(s, t) /\ s[1].nr = n + 1
        BY <1>3, <1>7, <3>1 DEF OfTask
    <3> QED
        BY <3>2 DEF EndsAt
  <2>2. next[t] = n
    BY <1>7, <2>1
  <2> QED
    BY <1>4, <2>2 DEF EndsAt, u
<1> QED
    BY <1>5, <1>6, <1>7 DEF EndsAt

LEMMA WayShifts ==
    ASSUME TypeOK, ready # <<>>, ready' = Tail(ready), results' = results
    PROVE  /\ OnTheirWay # <<>> /\ OnTheirWay' = Tail(OnTheirWay)
           /\ OnTheirWay[1] = Head(ready) /\ Head(ready) \in Posted
<1>1. ready \in Seq(Posted) /\ results \in Seq(Posted)
    BY DEF TypeOK
<1>2. /\ Len(ready) \in Nat \ {0} /\ Len(results) \in Nat
      /\ Tail(ready) \in Seq(Posted) /\ Len(Tail(ready)) = Len(ready) - 1
      /\ \A i \in 1..(Len(ready) - 1) : Tail(ready)[i] = ready[i + 1]
      /\ Head(ready) = ready[1] /\ Head(ready) \in Posted
    BY <1>1, HeadTailProperties, EmptySeq, LenProperties
<1> DEFINE s == OnTheirWay
           v == Tail(ready) \o results
<1>3. /\ s \in Seq(Posted) /\ Len(s) = Len(ready) + Len(results)
      /\ \A i \in 1..Len(s) :
             s[i] = IF i <= Len(ready) THEN ready[i] ELSE results[i - Len(ready)]
    BY <1>1, ConcatProperties DEF OnTheirWay
<1>4. /\ v \in Seq(Posted) /\ Len(v) = Len(ready) - 1 + Len(results)
      /\ \A i \in 1..Len(v) :
             v[i] = IF i <= Len(ready) - 1 THEN Tail(ready)[i] ELSE results[i - (Len(ready) - 1)]
    BY <1>1, <1>2, ConcatProperties
<1>5. OnTheirWay' = v
    BY DEF OnTheirWay
<1> HIDE DEF s, v
<1>6. s # <<>> /\ s[1] = ready[1]
    BY <1>2, <1>3, EmptySeq
<1>7. /\ Tail(s) \in Seq(Posted) /\ Len(Tail(s)) = Len(s) - 1
      /\ \A i \in 1..Len(Tail(s)) : Tail(s)[i] = s[i + 1]
    BY <1>3, <1>6, HeadTailProperties
<1>8. Len(v) = Len(Tail(s)) /\ Len(v) \in Nat
    BY <1>2, <1>3, <1>4, <1>7
<1>9. ASSUME NEW i \in 1..Len(v) PROVE v[i] = Tail(s)[i]
  <2>1. Tail(s)[i] = s[i + 1] /\ i + 1 \in 1..Len(s) /\ i \in Nat /\ i >= 1
    BY <1>2, <1>3, <1>4, <1>7, <1>8
  <2>2. CASE i <= Len(ready) - 1
    BY <1>2, <1>3, <1>4, <2>1, <2>2
  <2>3. CASE ~(i <= Len(ready) - 1)
    <3>1. i - (Len(ready) - 1) = (i + 1) - Len(ready) /\ ~(i + 1 <= Len(ready))
      BY <1>2, <2>1, <2>3
    <3> QED
      BY <1>3, <1>4, <2>1, <2>3, <3>1
  <2> QED
    BY <2>2, <2>3
<1>10. v = Tail(s)
    BY <1>4, <1>7, <1>8, <1>9, SeqEqual
<1> QED
    BY <1>2, <1>5, <1>6, <1>10 DEF s

LEMMA OrderApply ==
    ASSUME TypeOK, Numbered(OnTheirWay, applied), main = "apply", ready # <<>>, Apply
    PROVE  Numbered(OnTheirWay, applied)'
<1> DEFINE s == OnTheirWay
           next == applied'
<1>1. /\ s \in Seq(Posted) /\ s # <<>> /\ OnTheirWay' = Tail(s)
      /\ s[1] = Head(ready) /\ s[1] \in Posted
    BY WayTyped, WayShifts DEF Apply
<1>2. UNCHANGED <<task, posted, done>> /\ TypeOK
    BY DEF Apply, pumpVars
<1>3. applied \in [Tasks -> Nat] /\ posted \in [Workers -> Nat]
    BY DEF TypeOK
<1>4. /\ next \in [Tasks -> Nat]
      /\ \A t \in Tasks : next[t] = IF t = s[1].task THEN applied[t] + 1 ELSE applied[t]
  <2>1. CASE s[1] = Tick
    BY <1>1, <1>3, <2>1 DEF Apply
  <2>2. CASE s[1] # Tick
    <3> DEFINE b == s[1].task
    <3>1. applied' = [applied EXCEPT ![b] = applied[b] + 1]
      BY <1>1, <2>2 DEF Apply
    <3>2. \A t \in Tasks : applied[t] + 1 \in Nat
      BY <1>3
    <3> HIDE DEF b
    <3>3. applied' \in [Tasks -> Nat]
      BY <1>3, <3>1, <3>2
    <3>4. \A t \in Tasks : applied'[t] = IF t = b THEN applied[t] + 1 ELSE applied[t]
      BY <1>3, <3>1
    <3> QED
      BY <3>3, <3>4 DEF b
  <2> QED
    BY <2>1, <2>2
<1>5. Numbered(s, applied)
    OBVIOUS
<1>6. \A t : \A i \in OfTask(Tail(s), t) : i + 1 \in OfTask(s, t)
    BY <1>1, OfTaskOff
<1>7. 1 \in 1..Len(s)
    BY <1>1, FirstOff
<1> HIDE DEF s, next
<1>8. InOrder(Tail(s), next) /\ (s[1].task \in Tasks => s[1].nr = applied[s[1].task] + 1)
    BY <1>1, <1>3, <1>4, <1>5, TailInOrder DEF Numbered
<1>9. \A w \in Workers : task[w] # NoTask => EndsAt(Tail(s), next, task[w], posted[w])
  <2>1. ASSUME NEW w \in Workers, task[w] # NoTask
        PROVE  EndsAt(Tail(s), next, task[w], posted[w])
    <3>1. task[w] \in Tasks /\ posted[w] \in Nat /\ EndsAt(s, applied, task[w], posted[w])
      BY <1>3, <1>5, <2>1 DEF TypeOK, Numbered
    <3> QED
      BY <1>1, <1>3, <1>4, <1>8, <3>1, TailEndsAt
  <2> QED
    BY <2>1
<1>10. ASSUME NEW t \in Tasks \ done, \A w \in Workers : task[w] # t
       PROVE  next[t] = 0 /\ OfTask(Tail(s), t) = {}
  <2>1. applied[t] = 0 /\ OfTask(s, t) = {}
    BY <1>5, <1>10 DEF Numbered
  <2>2. t # s[1].task
    BY <1>7, <2>1 DEF OfTask
  <2> QED
    BY <1>4, <1>6, <2>1, <2>2
<1> QED
    BY <1>1, <1>2, <1>8, <1>9, <1>10 DEF Numbered, next

\* A worker starts a task none of whose results has been posted.
LEMMA OrderTake ==
    ASSUME TypeOK, TasksOnce, Numbered(OnTheirWay, applied), NEW w \in Workers, TakeTask(w),
           UNCHANGED mainVars
    PROVE  Numbered(OnTheirWay, applied)'
<1> DEFINE s == OnTheirWay
           t == Head(queue)
<1>1. OnTheirWay' = s /\ UNCHANGED <<applied, done>>
    BY DEF TakeTask, OnTheirWay, mainVars
<1>2. queue # <<>> /\ queue \in Seq(Tasks)
    BY DEF TakeTask, TypeOK
<1>3. t \in Tasks /\ t = queue[1] /\ 1 \in 1..Len(queue)
    BY <1>2, HeadTailProperties, EmptySeq, LenProperties
<1>4. t \notin done /\ \A v \in Workers : task[v] # t
    BY <1>3 DEF TasksOnce
<1>5. /\ \A v \in Workers : task'[v] = IF v = w THEN t ELSE task[v]
      /\ \A v \in Workers : posted'[v] = IF v = w THEN 0 ELSE posted[v]
    BY DEF TakeTask, TypeOK
<1>6. applied[t] = 0 /\ OfTask(s, t) = {} /\ task[w] = NoTask
    BY <1>3, <1>4 DEF Numbered, TakeTask, TypeOK
<1> HIDE DEF s, t
<1>7. EndsAt(s, applied, t, 0)
    BY <1>6 DEF EndsAt
<1>8. \A v \in Workers : task'[v] # NoTask => EndsAt(s, applied, task'[v], posted'[v])
    BY <1>5, <1>7 DEF Numbered, s
<1>9. \A u \in Tasks \ done : (\A v \in Workers : task'[v] # u) =>
          applied[u] = 0 /\ OfTask(s, u) = {}
  <2>1. \A u \in Tasks : (\A v \in Workers : task'[v] # u) => \A v \in Workers : task[v] # u
    BY <1>5, <1>6, StepsAssumption
  <2> QED
    BY <2>1 DEF Numbered, s
<1> QED
    BY <1>1, <1>8, <1>9 DEF Numbered, s

\* A task ends, having posted nothing with its last step.
LEMMA OrderEnd ==
    ASSUME TypeOK, Numbered(OnTheirWay, applied), NEW w \in Workers, task[w] \in Tasks,
           EndTask(w), UNCHANGED <<posted, results, mainVars>>
    PROVE  Numbered(OnTheirWay, applied)'
<1> DEFINE s == OnTheirWay
<1>1. OnTheirWay' = s /\ UNCHANGED <<applied, posted>>
    BY DEF OnTheirWay, mainVars
<1>2. \A v \in Workers : task'[v] = IF v = w THEN NoTask ELSE task[v]
    BY DEF EndTask, TypeOK
<1>3. done' = done \cup {task[w]}
    BY DEF EndTask
<1> HIDE DEF s
<1>4. \A v \in Workers : task'[v] # NoTask => EndsAt(s, applied, task'[v], posted[v])
    BY <1>2 DEF Numbered, s
<1>5. \A u \in Tasks \ done' : (\A v \in Workers : task'[v] # u) =>
          applied[u] = 0 /\ OfTask(s, u) = {}
    BY <1>2, <1>3 DEF Numbered, s
<1> QED
    BY <1>1, <1>4, <1>5 DEF Numbered, s

\* A tick is no task's result.
LEMMA OrderTick ==
    ASSUME TypeOK, Numbered(OnTheirWay, applied), Post(Tick), UNCHANGED <<pumpVars, mainVars>>
    PROVE  Numbered(OnTheirWay, applied)'
<1> DEFINE s == OnTheirWay
           a == Append(s, Tick)
<1>1. s \in Seq(Posted) /\ Tick \in Posted /\ applied \in [Tasks -> Nat]
    BY WayTyped DEF TypeOK, Tick, Posted
<1>2. OnTheirWay' = a /\ UNCHANGED <<applied, task, posted, done>>
    BY <1>1, PostAppends DEF mainVars, pumpVars
<1>3. InOrder(a, applied)
    BY <1>1, AppendInOrder DEF Numbered
<1>4. /\ \A t \in Tasks : OfTask(a, t) = OfTask(s, t)
      /\ \A i \in 1..Len(s) : a[i] = s[i]
  <2>1. ASSUME NEW t \in Tasks PROVE OfTask(a, t) = OfTask(s, t)
    <3>1. OfTask(a, t) = OfTask(s, t) \cup (IF Tick.task = t THEN {Len(s) + 1} ELSE {})
      BY <1>1, AppendOfTask
    <3>2. Tick.task # t
      OBVIOUS
    <3> QED
      BY <3>1, <3>2
  <2>2. \A i \in 1..Len(s) : a[i] = s[i]
    BY <1>1, AppendOfTask
  <2> QED
    BY <2>1, <2>2
<1>5. \A t \in Tasks : \A i \in OfTask(s, t) : a[i] = s[i]
    BY <1>4 DEF OfTask
<1> HIDE DEF s, a
<1>6. \A t \in Tasks : \A n : EndsAt(s, applied, t, n) => EndsAt(a, applied, t, n)
    BY <1>4, <1>5 DEF EndsAt
<1>7. \A w \in Workers : task[w] # NoTask => EndsAt(a, applied, task[w], posted[w])
    BY <1>6 DEF Numbered, s, TypeOK
<1> QED
    BY <1>2, <1>3, <1>4, <1>7 DEF Numbered, s

LEMMA OrderStep ==
    ASSUME Control, TasksOnce, Numbered(OnTheirWay, applied), [Next]_vars
    PROVE  Numbered(OnTheirWay, applied)'
<1>1. TypeOK /\ (main = "apply" => ready # <<>>) /\ (main = "frame" => ready = <<>>)
    BY DEF Control, ThreadsInv, Phases, TypeOK
<1>2. CASE UNCHANGED <<task, posted, done, results, ready, applied>>
    BY <1>2 DEF Numbered, EndsAt, OnTheirWay
<1>3. CASE Drain
  <2>1. ready = <<>> /\ ready' = results /\ results' = <<>> /\ results \in Seq(Posted)
    BY <1>1, <1>3 DEF Drain, TypeOK
  <2>2. OnTheirWay = results /\ OnTheirWay' = results
    BY <2>1, ConcatEmptySeq DEF OnTheirWay
  <2>3. UNCHANGED <<task, posted, done, applied>>
    BY <1>3 DEF Drain, pumpVars
  <2> QED
    BY <2>2, <2>3 DEF Numbered, EndsAt
<1>4. CASE Apply
    BY <1>1, <1>4, OrderApply DEF Apply
<1>5. ASSUME NEW w \in Workers, WorkerNext(w) PROVE Numbered(OnTheirWay, applied)'
  <2>1. UNCHANGED mainVars
    BY <1>5 DEF WorkerNext
  <2>2. CASE TakeTask(w)
    BY <1>1, <2>1, <2>2, OrderTake
  <2>3. CASE RunStep(w)
    BY <1>1, <2>1, <2>3, OrderPost DEF RunStep
  <2>4. CASE /\ EndTask(w) /\ UNCHANGED <<queue, posted>>
             /\ pc[w] \in {"run", "testSleep", "sleeping"}
             /\ \/ UNCHANGED results
                \/ pc[w] = "run" /\ Post(Result(w))
    <3>1. task[w] \in Tasks
      BY <1>1, <2>4 DEF TypeOK
    <3> QED
      BY <1>1, <2>1, <2>4, <3>1, OrderEnd, OrderPost
  <2>5. CASE UNCHANGED <<queue, task, posted, done, results>>
    BY <1>2, <2>1, <2>5 DEF mainVars
  <2> QED
    BY <1>5, <2>2, <2>3, <2>4, <2>5, WorkerEffect
<1>6. CASE PollerNext
  <2>1. CASE Post(Tick)
    BY <1>1, <1>6, <2>1, OrderTick DEF PollerNext
  <2>2. CASE UNCHANGED results
    BY <1>2, <1>6, <2>2 DEF PollerNext, pumpVars, mainVars
  <2> QED
    BY <1>6, <2>1, <2>2 DEF PollerNext, PollerStep, PollerTest, PollerBlock, PollerTimeout,
       PollerTick, PollerSpurious
<1>7. ASSUME NEW t \in Tasks, Submit(t) PROVE Numbered(OnTheirWay, applied)'
    BY <1>2, <1>7 DEF Submit, Push
<1>8. CASE Notify \/ StopPoller \/ StopWorkers \/ Quit \/ Gone \/ UNCHANGED vars
    BY <1>2, <1>8 DEF Notify, StopPoller, StopWorkers, StopRunning, ThenMain, Quit, Gone, vars,
       pumpVars, mainVars
<1> QED
    BY <1>3, <1>4, <1>5, <1>6, <1>7, <1>8 DEF Next, MainStep

LEMMA OrderedInOrder ==
    ASSUME TypeOK, InOrder(OnTheirWay, applied) PROVE ResultsInOrder
<1> DEFINE s == OnTheirWay
<1>1. InOrder(s, applied)
    OBVIOUS
<1> HIDE DEF s
<1> SUFFICES ASSUME NEW i \in 1..Len(s), s[i].task \in Tasks,
                    NEW before, before = {s[j] : j \in {k \in 1..(i - 1) : s[k].task = s[i].task}}
             PROVE  /\ \A b \in before : b.nr < s[i].nr
                    /\ s[i].nr = applied[s[i].task] + 1 \/ \E b \in before : s[i].nr = b.nr + 1
    BY DEF ResultsInOrder, s
<1>2. Len(s) \in Nat
    BY WayTyped, LenProperties DEF s
<1>3. \A j : j \in OfTask(s, s[i].task) /\ j < i <=> j \in 1..(i - 1) /\ s[j].task = s[i].task
    BY <1>2 DEF OfTask
<1>4. \A j \in OfTask(s, s[i].task) : j < i => s[j] \in before
    BY <1>3
<1>5. \A b \in before : \E j \in OfTask(s, s[i].task) : j < i /\ b = s[j]
    BY <1>3
<1> QED
    BY <1>1, <1>4, <1>5 DEF InOrder

\* However drains and posts interleave, the results of a task are applied in the
\* order they were posted, none lost and none twice (completed_jobs, drain()).
THEOREM ResultsArriveInOrder == Spec => []ResultsInOrder
<1>1. Init => TasksOnce /\ Numbered(OnTheirWay, applied)
    BY OnceInit, OrderInit
<1>2. Control => TypeOK
    BY DEF Control, ThreadsInv
<1>3. Control /\ TasksOnce /\ Numbered(OnTheirWay, applied) /\ [Next]_vars
         => TasksOnce' /\ Numbered(OnTheirWay, applied)'
    BY <1>2, OnceStep, OrderStep
<1>4. Control /\ Numbered(OnTheirWay, applied) => ResultsInOrder
    BY <1>2, OrderedInOrder DEF Numbered
<1> QED
    BY <1>1, <1>3, <1>4, ControlAlways, PTL DEF Spec
===============================================================================
