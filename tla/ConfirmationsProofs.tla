--------------------------- MODULE ConfirmationsProofs --------------------------
(***************************************************************************)
(* The mobile confirmations for every set of accounts, confirmations and   *)
(* jobs: Steam is told only what the audit log says was asked, nothing     *)
(* leaves a list unanswered, the refreshing flag locks a list, and the     *)
(* logins of an account are spaced.                                        *)
(***************************************************************************)
EXTENDS Confirmations, FiniteSetTheorems, SequenceTheorems, TLAPS

Audited == {e.conf : e \in audit}
Linked(a) == [kind |-> "linked", acc |-> a]
Holds(s, a) == job[s].kind \in {"fetch", "link"} /\ job[s].acc = a

\* Behind a list are a job, a callback that will start one, or nothing; and the
\* flag of the list is set if and only if there is something.
Held(a) == {s \in Slots : Holds(s, a)}
LinkedAt(p, a) == {i \in 1..Len(p) : p[i] = Linked(a)}
Alone(p, a) == \E i \in Nat : LinkedAt(p, a) = {i}
Locked(a) ==
    \/ Held(a) = {} /\ LinkedAt(posted, a) = {} /\ ~refreshing[a]
    \/ (\E s \in Slots : Held(a) = {s}) /\ LinkedAt(posted, a) = {} /\ refreshing[a]
    \/ Held(a) = {} /\ Alone(posted, a) /\ refreshing[a]

Locks ==
    /\ \A a \in Accounts \ Hopeless : Locked(a)
    /\ \A s \in Slots : job[s].kind = "fetch" => job[s].acc \notin Hopeless

\* What an answer is about to send was asked for; what Steam was told was.
Backed(S, yes) ==
    \A c \in S : \E e \in audit : e.conf = c /\ e.allow = yes /\ (e.by = "auto" => c \in AutoConfs)
Asked ==
    /\ AnswersAreAudited
    /\ \A s \in Slots : job[s].kind = "answer" =>
          Backed(job[s].all, job[s].allow) /\ job[s].todo \subseteq job[s].all

\* A list, and what a fetch brings, are confirmations of the account; one that
\* Steam no longer holds was answered.
Arrived ==
    /\ \A a \in Accounts : \A c \in list[a] : Owner[c] = a /\ c \in arrived
    /\ \A s \in Slots : job[s].kind = "fetch" /\ job[s].phase = "install" =>
          \A c \in job[s].got : Owner[c] = job[s].acc /\ c \in arrived
    /\ \A c \in arrived \ waiting : verdict[c] # "none"

\* Neither the list a fetch is about to install nor the copy that is shown with
\* its buttons enabled lacks a confirmation of the list that is not answered.
NothingMissing ==
    /\ \A s \in Slots : job[s].kind = "fetch" /\ job[s].phase = "install" /\ job[s].ok =>
          list[job[s].acc] \ job[s].got \subseteq Audited
    /\ shown # NoView /\ ~shown.busy =>
          /\ list[shown.acc] \subseteq shown.items
          /\ \A s \in Slots : job[s].kind = "fetch" => job[s].acc # shown.acc
    /\ shown # NoView => shown.cards \subseteq shown.items

Spaced == \A a \in Accounts : logins[a] <= IF a \in limited THEN 1 ELSE 0

ConfInd == TypeOK /\ Locks /\ Asked /\ Arrived /\ NothingMissing /\ Spaced

USE ConfirmationsAssumption

-------------------------------------------------------------------------------
(* Jobs, by kind. *)

LinkJobs    == [kind : {"link"}, acc : Accounts]
RestJobs    == [kind : {"batch", "scan"}, rest : SUBSET Accounts]
FetchJobs   == [kind : {"fetch"}, acc : Accounts, phase : {"run", "login", "rerun"}]
InstallJobs == [kind : {"fetch"}, acc : Accounts, phase : {"install"}, ok : BOOLEAN,
                sess : BOOLEAN, got : SUBSET Confs]
AnswerJobs  == [kind : {"answer"}, acc : Accounts, all : SUBSET Confs, todo : SUBSET Confs,
                allow : BOOLEAN, single : BOOLEAN, phase : {"send", "nonce", "login", "rerun"}]

LEMMA JobKinds ==
    ASSUME NEW j \in Jobs
    PROVE  /\ j.kind \in {"none", "link", "batch", "scan", "fetch", "answer"}
           /\ j.kind = "none" => j = NoJob
           /\ j.kind = "link" => j \in LinkJobs
           /\ j.kind \in {"batch", "scan"} => j \in RestJobs
           /\ j.kind = "fetch" => j \in FetchJobs \cup InstallJobs
           /\ j.kind = "answer" => j \in AnswerJobs
<1>1. j \in {NoJob} \cup LinkJobs \cup RestJobs \cup FetchJobs \cup InstallJobs \cup AnswerJobs
    BY DEF Jobs, LinkJobs, RestJobs, FetchJobs, InstallJobs, AnswerJobs
<1>2. CASE j = NoJob
    BY <1>2 DEF NoJob
<1>3. CASE j \in LinkJobs
    BY <1>3 DEF LinkJobs
<1>4. CASE j \in RestJobs
    BY <1>4 DEF RestJobs
<1>5. CASE j \in FetchJobs
    BY <1>5 DEF FetchJobs
<1>6. CASE j \in InstallJobs
    BY <1>6 DEF InstallJobs
<1>7. CASE j \in AnswerJobs
    BY <1>7 DEF AnswerJobs
<1> QED
    BY <1>1, <1>2, <1>3, <1>4, <1>5, <1>6, <1>7

LEMMA JobsOf ==
    /\ NoJob \in Jobs /\ LinkJobs \subseteq Jobs /\ RestJobs \subseteq Jobs
    /\ FetchJobs \subseteq Jobs /\ InstallJobs \subseteq Jobs /\ AnswerJobs \subseteq Jobs
    BY DEF Jobs, LinkJobs, RestJobs, FetchJobs, InstallJobs, AnswerJobs

\* A slot gets a job.
LEMMA JobSet ==
    ASSUME job \in [Slots -> Jobs], NEW s \in Slots, NEW j \in Jobs,
           job' = [job EXCEPT ![s] = j]
    PROVE  /\ job' \in [Slots -> Jobs] /\ job'[s] = j
           /\ \A u \in Slots \ {s} : job'[u] = job[u]
    OBVIOUS

-------------------------------------------------------------------------------
(* What a worker's step does to the job in its slot. *)

\* `from` becomes `to`: it ends, it goes on, or a fetch comes to its last block.
Goes(from, to) ==
    /\ to \in Jobs
    /\ \/ from.kind \in {"batch", "scan", "answer"} /\ to = NoJob
       \/ from.kind \in {"batch", "scan"} /\ to.kind = from.kind
       \/ from.kind = "fetch" /\ to.kind = "fetch" /\ to.acc = from.acc
       \/ /\ from.kind = "answer" /\ to.kind = "answer"
          /\ to.all = from.all /\ to.allow = from.allow
          /\ to.todo \subseteq from.todo \cup from.all

LEMMA RestGoes ==
    ASSUME TypeOK, NEW s \in Slots, job[s].kind \in {"batch", "scan"}, NEW a
    PROVE  /\ Goes(job[s], RestAfter(job[s], a)) /\ RestAfter(job[s], a).kind # "fetch"
           /\ job[s].rest \subseteq Accounts
<1>1. job[s] \in RestJobs
    BY JobKinds DEF TypeOK
<1>2. [job[s] EXCEPT !.rest = @ \ {a}] \in RestJobs /\ job[s].rest \subseteq Accounts
    BY <1>1 DEF RestJobs
<1>3. [job[s] EXCEPT !.rest = @ \ {a}].kind = job[s].kind
    BY <1>1 DEF RestJobs
<1> QED
    BY <1>2, <1>3, JobsOf DEF Goes, NoJob, RestAfter

-------------------------------------------------------------------------------
(* The queue of callbacks, and the linked maFiles in it. *)

\* Nothing is posted, something else is, or something else is taken off.
PostKeeps ==
    \/ posted' = posted
    \/ \E m \in Callbacks : m.kind # "linked" /\ posted' = Append(posted, m)
    \/ posted # <<>> /\ posted' = Tail(posted) /\ Head(posted).kind # "linked"

LEMMA AppendLinks ==
    ASSUME posted \in Seq(Callbacks), NEW m \in Callbacks, posted' = Append(posted, m)
    PROVE  /\ posted' \in Seq(Callbacks)
           /\ \A a : LinkedAt(posted', a) =
                  LinkedAt(posted, a) \cup (IF m = Linked(a) THEN {Len(posted) + 1} ELSE {})
           /\ Len(posted) + 1 \in Nat
<1>1. /\ posted' \in Seq(Callbacks) /\ Len(posted') = Len(posted) + 1 /\ Len(posted) \in Nat
      /\ posted'[Len(posted) + 1] = m
      /\ \A i \in 1..Len(posted) : posted'[i] = posted[i]
    BY AppendProperties, LenProperties
<1> SUFFICES ASSUME NEW a
             PROVE  LinkedAt(posted', a) =
                  LinkedAt(posted, a) \cup (IF m = Linked(a) THEN {Len(posted) + 1} ELSE {})
    BY <1>1
<1> QED
    BY <1>1 DEF LinkedAt

LEMMA TailLinks ==
    ASSUME posted \in Seq(Callbacks), posted # <<>>, posted' = Tail(posted)
    PROVE  /\ posted' \in Seq(Callbacks) /\ Head(posted) \in Callbacks
           /\ \A a : 1 \in LinkedAt(posted, a) <=> Head(posted) = Linked(a)
           /\ \A a, i : i \in LinkedAt(posted', a) => i + 1 \in LinkedAt(posted, a) /\ i + 1 # 1
           /\ \A a : \A i \in LinkedAt(posted, a) : i # 1 => i - 1 \in LinkedAt(posted', a)
           /\ \A a : LinkedAt(posted', a) \subseteq Nat
<1>1. /\ posted' \in Seq(Callbacks) /\ Len(posted') = Len(posted) - 1
      /\ \A i \in 1..Len(posted') : posted'[i] = posted[i + 1]
      /\ Len(posted) \in Nat \ {0} /\ Head(posted) = posted[1] /\ Head(posted) \in Callbacks
    BY HeadTailProperties, EmptySeq, LenProperties
<1>2. \A a, i : i \in LinkedAt(posted', a) => i + 1 \in LinkedAt(posted, a) /\ i + 1 # 1
    BY <1>1 DEF LinkedAt
<1>3. \A a : \A i \in LinkedAt(posted, a) : i # 1 => i - 1 \in LinkedAt(posted', a)
    BY <1>1 DEF LinkedAt
<1>4. \A a : 1 \in LinkedAt(posted, a) <=> Head(posted) = Linked(a)
    BY <1>1 DEF LinkedAt
<1>5. \A a : LinkedAt(posted', a) \subseteq Nat
    BY <1>1 DEF LinkedAt
<1> QED
    BY <1>1, <1>2, <1>3, <1>4, <1>5

\* A callback that is not a's maFile goes to or comes off the queue.
LEMMA TailOthers ==
    ASSUME posted \in Seq(Callbacks), posted # <<>>, posted' = Tail(posted),
           NEW a, Head(posted) # Linked(a)
    PROVE  /\ LinkedAt(posted, a) = {} => LinkedAt(posted', a) = {}
           /\ Alone(posted, a) => Alone(posted', a)
<1>1. 1 \notin LinkedAt(posted, a)
    BY TailLinks
<1>2. \A i \in LinkedAt(posted', a) : i + 1 \in LinkedAt(posted, a) /\ i \in Nat
    BY TailLinks
<1>3. ASSUME NEW i \in Nat, LinkedAt(posted, a) = {i} PROVE LinkedAt(posted', a) = {i - 1} /\ i - 1 \in Nat
  <2>1. i - 1 \in LinkedAt(posted', a) /\ i - 1 \in Nat
    BY <1>1, <1>3, TailLinks
  <2> QED
    BY <1>2, <1>3, <2>1
<1> QED
    BY <1>2, <1>3 DEF Alone

LEMMA KeptLinks ==
    ASSUME posted \in Seq(Callbacks), PostKeeps, NEW a
    PROVE  /\ posted' \in Seq(Callbacks)
           /\ LinkedAt(posted, a) = {} => LinkedAt(posted', a) = {}
           /\ Alone(posted, a) => Alone(posted', a)
<1>1. CASE posted' = posted
    BY <1>1 DEF Alone
<1>2. ASSUME NEW m \in Callbacks, m.kind # "linked", posted' = Append(posted, m)
      PROVE posted' \in Seq(Callbacks) /\ LinkedAt(posted', a) = LinkedAt(posted, a)
  <2>1. m # Linked(a)
    BY <1>2 DEF Linked
  <2> QED
    BY <1>2, <2>1, AppendLinks
<1>3. CASE posted # <<>> /\ posted' = Tail(posted) /\ Head(posted).kind # "linked"
  <2>1. Head(posted) # Linked(a)
    BY <1>3 DEF Linked
  <2> QED
    BY <1>3, <2>1, TailOthers, TailLinks
<1> QED
    BY <1>1, <1>2, <1>3 DEF PostKeeps, Alone

-------------------------------------------------------------------------------
(* The lock of a list: kept, taken, passed on, released. *)

LinksKeep(a) ==
    /\ LinkedAt(posted, a) = {} => LinkedAt(posted', a) = {}
    /\ Alone(posted, a) => Alone(posted', a)

LEMMA HeldSet ==
    ASSUME job \in [Slots -> Jobs], NEW s \in Slots, NEW j \in Jobs,
           job' = [job EXCEPT ![s] = j], NEW a
    PROVE  Held(a)' = (Held(a) \ {s}) \cup
                          (IF j.kind \in {"fetch", "link"} /\ j.acc = a THEN {s} ELSE {})
    BY JobSet DEF Held, Holds

\* No list changes hands.
LEMMA LocksQuiet ==
    ASSUME Locks, UNCHANGED refreshing,
           \A a \in Accounts \ Hopeless : LinksKeep(a),
           \A u \in Slots : \A a \in Accounts \ Hopeless : Holds(u, a)' <=> Holds(u, a),
           \A u \in Slots : job'[u].kind = "fetch" => job'[u].acc \notin Hopeless
    PROVE  Locks'
<1>1. ASSUME NEW a \in Accounts \ Hopeless PROVE Locked(a)'
  <2>1. Held(a)' = Held(a)
    BY DEF Held
  <2> QED
    BY <2>1 DEF Locks, Locked, LinksKeep
<1> QED
    BY <1>1 DEF Locks

\* Only b's does.
LEMMA LocksSet ==
    ASSUME TypeOK, Locks, NEW b \in Accounts,
           \A a \in Accounts \ {b} : refreshing'[a] = refreshing[a] /\ LinksKeep(a),
           \A a \in Accounts \ {b} : Held(a)' = Held(a),
           b \notin Hopeless => Locked(b)',
           \A u \in Slots : job'[u].kind = "fetch" => job'[u].acc \notin Hopeless
    PROVE  Locks'
    BY DEF Locks, Locked, LinksKeep

LEMMA LockReleased ==
    ASSUME TypeOK, Locks, NEW s \in Slots, NEW b \in Accounts, Holds(s, b), Drop(s),
           refreshing' = [refreshing EXCEPT ![b] = FALSE], PostKeeps
    PROVE  Locks'
<1>1. job' = [job EXCEPT ![s] = NoJob] /\ NoJob \in Jobs /\ NoJob.kind = "none"
    BY JobsOf DEF Drop, NoJob
<1>2. job \in [Slots -> Jobs] /\ posted \in Seq(Callbacks) /\ refreshing \in [Accounts -> BOOLEAN]
    BY DEF TypeOK
<1>3. /\ \A a : Held(a)' = Held(a) \ {s}
      /\ \A a : a # b => s \notin Held(a)
      /\ s \in Held(b)
  <2>1. \A a : Held(a)' = (Held(a) \ {s}) \cup
                 (IF NoJob.kind \in {"fetch", "link"} /\ NoJob.acc = a THEN {s} ELSE {})
    BY <1>1, <1>2, HeldSet
  <2>2. (\A a : a # b => s \notin Held(a)) /\ s \in Held(b)
    BY DEF Held, Holds
  <2> QED
    BY <1>1, <2>1, <2>2
<1>4. \A a : LinksKeep(a)
    BY <1>2, KeptLinks DEF LinksKeep
<1>5. b \notin Hopeless => Locked(b)'
    BY <1>2, <1>3, <1>4 DEF Locks, Locked, LinksKeep
<1>6. \A u \in Slots : job'[u].kind = "fetch" => job'[u].acc \notin Hopeless
    BY <1>1, <1>2, JobSet DEF Locks
<1>7. \A a \in Accounts \ {b} : refreshing'[a] = refreshing[a]
    BY <1>2
<1>8. \A a \in Accounts \ {b} : Held(a)' = Held(a)
    BY <1>3
<1> QED
    BY <1>4, <1>5, <1>6, <1>7, <1>8, LocksSet

\* The maFile was read: its callback takes the job's place.
LEMMA LockPassedOn ==
    ASSUME TypeOK, Locks, NEW s \in Slots, NEW b \in Accounts, job[s].kind = "link", Holds(s, b),
           Drop(s), UNCHANGED refreshing, posted' = Append(posted, Linked(b))
    PROVE  Locks'
<1>1. job' = [job EXCEPT ![s] = NoJob] /\ NoJob \in Jobs /\ NoJob.kind = "none"
    BY JobsOf DEF Drop, NoJob
<1>2. job \in [Slots -> Jobs] /\ posted \in Seq(Callbacks)
    BY DEF TypeOK
<1>3. /\ \A a : Held(a)' = Held(a) \ {s}
      /\ \A a : a # b => s \notin Held(a)
      /\ s \in Held(b)
  <2>1. \A a : Held(a)' = (Held(a) \ {s}) \cup
                 (IF NoJob.kind \in {"fetch", "link"} /\ NoJob.acc = a THEN {s} ELSE {})
    BY <1>1, <1>2, HeldSet
  <2>2. (\A a : a # b => s \notin Held(a)) /\ s \in Held(b)
    BY DEF Held, Holds
  <2> QED
    BY <1>1, <2>1, <2>2
<1>4. Linked(b) \in Callbacks /\ \A a : Linked(b) = Linked(a) => a = b
    BY DEF Linked, Callbacks
<1>5. \A a : LinkedAt(posted', a) =
            LinkedAt(posted, a) \cup (IF a = b THEN {Len(posted) + 1} ELSE {})
    BY <1>2, <1>4, AppendLinks
<1>6. Len(posted) + 1 \in Nat
    BY <1>2, LenProperties
<1>7. \A a \in Accounts \ {b} : LinksKeep(a)
    BY <1>5 DEF LinksKeep, Alone
<1>8. b \notin Hopeless => Locked(b)'
    BY <1>3, <1>5, <1>6 DEF Locks, Locked, Alone
<1>9. \A u \in Slots : job'[u].kind = "fetch" => job'[u].acc \notin Hopeless
    BY <1>1, <1>2, JobSet DEF Locks
<1>10. \A a \in Accounts \ {b} : refreshing'[a] = refreshing[a] /\ Held(a)' = Held(a)
    BY <1>3
<1> QED
    BY <1>7, <1>8, <1>9, <1>10, LocksSet

\* A job for b starts, with nothing behind the list or in place of its callback.
LEMMA LockTaken ==
    ASSUME TypeOK, Locks, NEW s \in Slots, NEW b \in Accounts, NEW j \in Jobs, Submit(s, j),
           j.kind \in {"fetch", "link"}, j.acc = b, j.kind = "fetch" => b \notin Hopeless,
           refreshing' = [refreshing EXCEPT ![b] = TRUE],
           \A a \in Accounts \ {b} : LinksKeep(a),
           b \notin Hopeless => Held(b) = {} /\ LinkedAt(posted', b) = {}
    PROVE  Locks'
<1>1. job' = [job EXCEPT ![s] = j] /\ job[s] = NoJob /\ NoJob.kind = "none"
    BY DEF Submit, NoJob
<1>2. job \in [Slots -> Jobs] /\ refreshing \in [Accounts -> BOOLEAN]
    BY DEF TypeOK
<1>3. /\ \A a : Held(a)' = Held(a) \cup (IF a = b THEN {s} ELSE {})
    BY <1>1, <1>2, HeldSet DEF Held, Holds
<1>4. b \notin Hopeless => Locked(b)'
    BY <1>2, <1>3 DEF Locked
<1>5. \A u \in Slots : job'[u].kind = "fetch" => job'[u].acc \notin Hopeless
    BY <1>1, <1>2, JobSet DEF Locks
<1>6. \A a \in Accounts \ {b} : refreshing'[a] = refreshing[a] /\ Held(a)' = Held(a)
    BY <1>2, <1>3
<1> QED
    BY <1>4, <1>5, <1>6, LocksSet

\* The flag is read or cleared while nothing is behind the list.
LEMMA LockLeft ==
    ASSUME TypeOK, Locks, NEW b \in Accounts, NEW v \in BOOLEAN, UNCHANGED job,
           refreshing' = [refreshing EXCEPT ![b] = v],
           \A a \in Accounts \ {b} : LinksKeep(a),
           b \notin Hopeless => Locked(b)'
    PROVE  Locks'
<1>1. \A a : Held(a)' = Held(a)
    BY DEF Held, Holds
<1>2. refreshing \in [Accounts -> BOOLEAN]
    BY DEF TypeOK
<1> QED
    BY <1>1, <1>2, LocksSet DEF Locks

-------------------------------------------------------------------------------
(* The answers, the lists and the copy that is shown, when Steam is not    *)
(* involved and no list grows.                                             *)

\* A job that answers was one, or answers what the log has by now.
AnswerKept(u) ==
    \/ /\ job[u].kind = "answer" /\ job'[u].all = job[u].all /\ job'[u].allow = job[u].allow
       /\ job'[u].todo \subseteq job[u].todo \cup job[u].all
    \/ Backed(job[u].all, job[u].allow)' /\ job'[u].todo \subseteq job'[u].all

\* What Steam holds of an account.
Waiting(a) == {c \in waiting : Owner[c] = a}

\* A job that fetches was fetching for the same account and brings nothing new but
\* Steam's answer, or it starts while nothing is shown.
FetchKept(u) ==
    /\ job'[u].phase = "install" =>
          \/ job'[u] = job[u]
          \/ job'[u].ok = FALSE /\ job'[u].got = {}
          \/ /\ job[u].kind = "fetch" /\ job'[u].acc = job[u].acc
             /\ job'[u].got = Waiting(job[u].acc)
    /\ \/ job[u].kind = "fetch" /\ job'[u].acc = job[u].acc
       \/ shown' = NoView

LEMMA BackedGrows ==
    ASSUME audit \subseteq audit', NEW S, NEW yes, Backed(S, yes) PROVE Backed(S, yes)'
    BY DEF Backed

LEMMA RestKept ==
    ASSUME TypeOK, Asked, Arrived, NothingMissing, UNCHANGED steam, audit \subseteq audit',
           \A a \in Accounts : list'[a] \subseteq list[a],
           shown' = shown \/ shown' = NoView,
           \A u \in Slots : job'[u].kind = "fetch" => FetchKept(u),
           \A u \in Slots : job'[u].kind = "answer" => AnswerKept(u)
    PROVE  Asked' /\ Arrived' /\ NothingMissing'
<1>1. Audited \subseteq Audited'
    BY DEF Audited
<1>2. Asked'
  <2>1. AnswersAreAudited'
    BY DEF Asked, AnswersAreAudited, steam
  <2>2. ASSUME NEW u \in Slots, job'[u].kind = "answer"
        PROVE  Backed(job[u].all, job[u].allow)' /\ job'[u].todo \subseteq job'[u].all
    <3>1. CASE /\ job[u].kind = "answer" /\ job'[u].all = job[u].all /\ job'[u].allow = job[u].allow
               /\ job'[u].todo \subseteq job[u].todo \cup job[u].all
      BY <3>1 DEF Asked, Backed
    <3> QED
      BY <2>2, <3>1 DEF AnswerKept
  <2> QED
    BY <2>1, <2>2 DEF Asked
<1>3. Arrived'
  <2>1. \A a \in Accounts : \A c \in list'[a] : Owner[c] = a /\ c \in arrived
    BY DEF Arrived
  <2>2. ASSUME NEW u \in Slots, job'[u].kind = "fetch", job'[u].phase = "install",
               NEW c \in job'[u].got
        PROVE  Owner[c] = job'[u].acc /\ c \in arrived
    <3>1. CASE job'[u] = job[u]
      BY <2>2, <3>1 DEF Arrived
    <3>2. CASE job'[u].acc = job[u].acc /\ job'[u].got = Waiting(job[u].acc)
      <4>1. waiting \subseteq arrived
        BY DEF TypeOK
      <4> QED
        BY <2>2, <3>2, <4>1 DEF Waiting
    <3> QED
      BY <2>2, <3>1, <3>2 DEF FetchKept
  <2> QED
    BY <2>1, <2>2 DEF Arrived, steam
<1>4. NothingMissing'
  <2>1. ASSUME NEW u \in Slots, job'[u].kind = "fetch", job'[u].phase = "install", job'[u].ok
        PROVE  list'[job'[u].acc] \ job'[u].got \subseteq Audited'
    <3>1. job[u].kind = "fetch" => job[u].acc \in Accounts
      BY JobKinds DEF TypeOK, FetchJobs, InstallJobs
    <3>2. CASE job'[u] = job[u]
      BY <1>1, <2>1, <3>1, <3>2 DEF NothingMissing
    <3>3. CASE /\ job[u].kind = "fetch" /\ job'[u].acc = job[u].acc
               /\ job'[u].got = Waiting(job[u].acc)
      <4>1. \A c \in list'[job[u].acc] : Owner[c] = job[u].acc /\ c \in arrived
        BY <3>1, <3>3 DEF Arrived
      <4>2. \A c \in arrived \ waiting : c \in Audited
        <5> SUFFICES ASSUME NEW c \in arrived \ waiting PROVE c \in Audited
          OBVIOUS
        <5>1. c \in Confs /\ verdict[c] # "none"
          BY DEF Arrived, TypeOK
        <5>2. PICK e \in audit : e.conf = c
          BY <5>1 DEF Asked, AnswersAreAudited
        <5> QED
          BY <5>2 DEF Audited
      <4>3. ASSUME NEW c \in list'[job[u].acc], c \notin job'[u].got PROVE c \in Audited
        BY <3>3, <4>1, <4>2, <4>3 DEF Waiting
      <4> QED
        BY <1>1, <3>3, <4>3
    <3> QED
      BY <2>1, <3>2, <3>3 DEF FetchKept
  <2>2. ASSUME shown' # NoView, ~shown'.busy
        PROVE  /\ list'[shown'.acc] \subseteq shown'.items
               /\ \A u \in Slots : job'[u].kind = "fetch" => job'[u].acc # shown'.acc
    <3>1. shown' = shown /\ shown.acc \in Accounts
      BY <2>2 DEF TypeOK
    <3> QED
      BY <2>2, <3>1 DEF NothingMissing, FetchKept
  <2>3. shown' # NoView => shown'.cards \subseteq shown'.items
    BY DEF NothingMissing
  <2> QED
    BY <2>1, <2>2, <2>3 DEF NothingMissing
<1> QED
    BY <1>2, <1>3, <1>4

-------------------------------------------------------------------------------
(* The workers. *)

\* A job goes on or ends, posting at most a callback that takes no list.
LEMMA QuietInd ==
    ASSUME ConfInd, NEW s \in Slots, NEW j, Goes(job[s], j), job' = [job EXCEPT ![s] = j],
           j.kind = "fetch" /\ j.phase = "install" =>
               (j.ok = FALSE /\ j.got = {}) \/ j.got = Waiting(job[s].acc),
           PostKeeps, UNCHANGED <<list, refreshing, incomplete, screen, batch, health, steam>>,
           limited' \subseteq Accounts, logins' \in [Accounts -> 0 .. 2], Spaced'
    PROVE  ConfInd'
<1>1. /\ job' \in [Slots -> Jobs] /\ job'[s] = j /\ j \in Jobs
      /\ \A u \in Slots \ {s} : job'[u] = job[u]
      /\ TypeOK
    BY JobSet DEF Goes, ConfInd, TypeOK
<1>2. posted' \in Seq(Callbacks) /\ \A a : LinksKeep(a)
    BY <1>1, KeptLinks DEF TypeOK, LinksKeep
<1>3. TypeOK'
    BY <1>1, <1>2 DEF TypeOK, screen, batch, health, steam
<1>4. Locks'
  <2>1. \A u \in Slots : \A a \in Accounts \ Hopeless : Holds(u, a)' <=> Holds(u, a)
    BY <1>1 DEF Holds, Goes, NoJob
  <2>2. \A u \in Slots : job'[u].kind = "fetch" => job'[u].acc \notin Hopeless
    BY <1>1 DEF Goes, NoJob, ConfInd, Locks
  <2> QED
    BY <1>2, <2>1, <2>2, LocksQuiet DEF ConfInd
<1>5. \A u \in Slots : job'[u].kind = "fetch" => FetchKept(u)
    BY <1>1 DEF FetchKept, Goes, NoJob
<1>6. \A u \in Slots : job'[u].kind = "answer" => AnswerKept(u)
    BY <1>1 DEF AnswerKept, Goes, NoJob
<1>7. Asked' /\ Arrived' /\ NothingMissing'
    BY <1>1, <1>5, <1>6, RestKept DEF ConfInd, screen
<1> QED
    BY <1>3, <1>4, <1>7 DEF ConfInd

LEMMA SpacedKept == Spaced /\ UNCHANGED login => Spaced'
    BY DEF Spaced, login

LEMMA BatchInd == ASSUME ConfInd, NEW s \in Slots, BatchStep(s) PROVE ConfInd'
<1>1. PICK a \in job[s].rest :
          /\ Post([kind |-> "refresh", acc |-> a])
          /\ job' = [job EXCEPT ![s] = RestAfter(job[s], a)]
    BY DEF BatchStep
<1>2. /\ job[s].kind = "batch" /\ TypeOK
      /\ UNCHANGED <<list, refreshing, incomplete, screen, batch, health, login, steam>>
    BY DEF BatchStep, ConfInd
<1> DEFINE j == RestAfter(job[s], a)
<1>3. Goes(job[s], j) /\ j.kind # "fetch" /\ job[s].rest \subseteq Accounts
    BY <1>2, RestGoes
<1>4. PostKeeps
  <2>1. [kind |-> "refresh", acc |-> a] \in Callbacks
    BY <1>3 DEF Callbacks
  <2> QED
    BY <1>1, <2>1 DEF PostKeeps, Post
<1>5. job' = [job EXCEPT ![s] = j]
    BY <1>1
<1>6. limited' \subseteq Accounts /\ logins' \in [Accounts -> 0 .. 2] /\ Spaced'
    BY <1>2, SpacedKept DEF ConfInd, TypeOK, login
<1> HIDE DEF j
<1> QED
    BY <1>2, <1>3, <1>4, <1>5, <1>6, QuietInd

LEMMA ScanInd == ASSUME ConfInd, NEW s \in Slots, ScanStep(s) PROVE ConfInd'
<1>1. /\ job[s].kind = "scan" /\ TypeOK
      /\ UNCHANGED <<list, refreshing, incomplete, screen, batch, health, login, steam>>
    BY DEF ScanStep, ConfInd
<1>2. limited' \subseteq Accounts /\ logins' \in [Accounts -> 0 .. 2] /\ Spaced'
    BY <1>1, SpacedKept DEF ConfInd, TypeOK, login
<1>3. ASSUME NEW a \in job[s].rest, Post([kind |-> "merged", acc |-> a]),
             job' = [job EXCEPT ![s] = RestAfter(job[s], a)]
      PROVE  ConfInd'
  <2> DEFINE j == RestAfter(job[s], a)
  <2>1. Goes(job[s], j) /\ j.kind # "fetch" /\ job[s].rest \subseteq Accounts
    BY <1>1, RestGoes
  <2>2. PostKeeps
    <3>1. [kind |-> "merged", acc |-> a] \in Callbacks
      BY <2>1 DEF Callbacks
    <3> QED
      BY <1>3, <3>1 DEF PostKeeps, Post
  <2>3. job' = [job EXCEPT ![s] = j]
    BY <1>3
  <2> HIDE DEF j
  <2> QED
    BY <1>1, <1>2, <2>1, <2>2, <2>3, QuietInd
<1>4. CASE Drop(s) /\ UNCHANGED posted
  <2>1. Goes(job[s], NoJob) /\ NoJob.kind = "none"
    BY <1>1, JobsOf DEF Goes, NoJob
  <2> QED
    BY <1>1, <1>2, <1>4, <2>1, QuietInd DEF PostKeeps, Drop
<1> QED
    BY <1>3, <1>4 DEF ScanStep

LEMMA LinkLoadedInd == ASSUME ConfInd, NEW s \in Slots, LinkLoaded(s) PROVE ConfInd'
<1>1. /\ job[s].kind = "link" /\ Drop(s) /\ TypeOK
      /\ UNCHANGED <<list, incomplete, screen, batch, health, login, steam>>
    BY DEF LinkLoaded, ConfInd
<1> DEFINE b == job[s].acc
<1>2. b \in Accounts /\ Holds(s, b)
  <2>1. job[s] \in LinkJobs
    BY <1>1, JobKinds DEF TypeOK
  <2> QED
    BY <2>1 DEF LinkJobs, Holds
<1> HIDE DEF b
<1>3. /\ \/ posted' = Append(posted, Linked(b)) /\ UNCHANGED refreshing
         \/ refreshing' = [refreshing EXCEPT ![b] = FALSE] /\ UNCHANGED posted
    BY DEF LinkLoaded, Post, Linked, b
<1>4. Locks'
    BY <1>1, <1>2, <1>3, LockReleased, LockPassedOn DEF ConfInd, PostKeeps
<1>5. /\ job' \in [Slots -> Jobs] /\ job'[s].kind = "none"
      /\ \A u \in Slots \ {s} : job'[u] = job[u]
    BY <1>1, JobsOf, JobSet DEF Drop, NoJob, TypeOK
<1>6. posted' \in Seq(Callbacks)
  <2>1. Linked(b) \in Callbacks
    BY <1>2 DEF Linked, Callbacks
  <2> QED
    BY <1>1, <1>3, <2>1, AppendLinks DEF TypeOK
<1>7. TypeOK'
  <2>1. refreshing' \in [Accounts -> BOOLEAN]
    BY <1>1, <1>3 DEF TypeOK
  <2> QED
    BY <1>1, <1>5, <1>6, <2>1 DEF TypeOK, screen, batch, health, login, steam
<1>8. Asked' /\ Arrived' /\ NothingMissing'
    BY <1>1, <1>5, RestKept DEF ConfInd, screen, FetchKept, AnswerKept, Asked
<1>9. Spaced'
    BY <1>1, SpacedKept DEF ConfInd
<1> QED
    BY <1>4, <1>7, <1>8, <1>9 DEF ConfInd

\* An attempt of a login: the limiter is set before Steam is asked.
LEMMA LoginSpaced ==
    ASSUME TypeOK, Spaced, NEW a \in Accounts,
           \/ UNCHANGED login
           \/ /\ a \notin limited /\ limited' = limited \cup {a}
              /\ logins' = [logins EXCEPT ![a] = @ + 1]
    PROVE  limited' \subseteq Accounts /\ logins' \in [Accounts -> 0 .. 2] /\ Spaced'
<1>1. limited \subseteq Accounts /\ logins \in [Accounts -> 0 .. 2]
    BY DEF TypeOK
<1>2. CASE UNCHANGED login
    BY <1>1, <1>2, SpacedKept DEF login
<1>3. CASE /\ a \notin limited /\ limited' = limited \cup {a}
           /\ logins' = [logins EXCEPT ![a] = @ + 1]
  <2>1. logins[a] = 0
    BY <1>1, <1>3 DEF Spaced
  <2>2. logins' = [logins EXCEPT ![a] = 1]
    BY <1>3, <2>1
  <2> QED
    BY <1>1, <1>3, <2>2 DEF Spaced
<1> QED
    BY <1>2, <1>3

\* A fetch goes on to a login or a second answer, or comes to its last block.
LEMMA FetchMoves ==
    ASSUME TypeOK, NEW s \in Slots, job[s].kind = "fetch", job[s].phase # "install"
    PROVE  /\ job[s] \in FetchJobs /\ job[s].acc \in Accounts
           /\ \A p \in {"login", "rerun"} :
                 Goes(job[s], [job[s] EXCEPT !.phase = p]) /\ [job[s] EXCEPT !.phase = p].phase = p
           /\ \A ok, sess \in BOOLEAN, got \in SUBSET Confs :
                 Goes(job[s], [kind |-> "fetch", acc |-> job[s].acc, phase |-> "install",
                               ok |-> ok, sess |-> sess, got |-> got])
<1>1. job[s] \in FetchJobs
    BY JobKinds DEF TypeOK, InstallJobs
<1>2. \A p \in {"login", "rerun"} :
          /\ [job[s] EXCEPT !.phase = p] \in FetchJobs /\ [job[s] EXCEPT !.phase = p].phase = p
          /\ [job[s] EXCEPT !.phase = p].acc = job[s].acc
    BY <1>1 DEF FetchJobs
<1>3. \A ok, sess \in BOOLEAN, got \in SUBSET Confs :
          [kind |-> "fetch", acc |-> job[s].acc, phase |-> "install",
           ok |-> ok, sess |-> sess, got |-> got] \in InstallJobs
    BY <1>1 DEF FetchJobs, InstallJobs
<1>4. \A p \in {"login", "rerun"} : [job[s] EXCEPT !.phase = p].kind = "fetch"
    BY <1>1 DEF FetchJobs
<1>5. job[s].acc \in Accounts
    BY <1>1 DEF FetchJobs
<1> QED
    BY <1>1, <1>2, <1>3, <1>4, <1>5, JobsOf DEF Goes

\* An answer is sent again, or for a smaller part.
LEMMA AnswerMoves ==
    ASSUME TypeOK, NEW s \in Slots, job[s].kind = "answer"
    PROVE  /\ job[s] \in AnswerJobs /\ job[s].acc \in Accounts /\ Goes(job[s], NoJob)
           /\ \A p \in {"nonce", "login"} : Goes(job[s], [job[s] EXCEPT !.phase = p])
           /\ Goes(job[s], [job[s] EXCEPT !.phase = "rerun", !.todo = job[s].all])
           /\ \A C : Goes(job[s], TodoAfter(job[s], C))
<1>1. job[s] \in AnswerJobs
    BY JobKinds DEF TypeOK
<1>2. ASSUME NEW p \in {"nonce", "login"} PROVE Goes(job[s], [job[s] EXCEPT !.phase = p])
  <2> DEFINE j == [job[s] EXCEPT !.phase = p]
  <2>1. /\ j \in AnswerJobs /\ j.kind = "answer" /\ j.all = job[s].all
        /\ j.allow = job[s].allow /\ j.todo = job[s].todo
    BY <1>1 DEF AnswerJobs
  <2> HIDE DEF j
  <2>2. Goes(job[s], j)
    BY <2>1, JobsOf DEF Goes
  <2> QED
    BY <2>2 DEF j
<1>3. Goes(job[s], [job[s] EXCEPT !.phase = "rerun", !.todo = job[s].all])
  <2> DEFINE j == [job[s] EXCEPT !.phase = "rerun", !.todo = job[s].all]
  <2>1. /\ j \in AnswerJobs /\ j.kind = "answer" /\ j.all = job[s].all
        /\ j.allow = job[s].allow /\ j.todo = job[s].all
    BY <1>1 DEF AnswerJobs
  <2> HIDE DEF j
  <2>2. Goes(job[s], j)
    BY <2>1, JobsOf DEF Goes
  <2> QED
    BY <2>2 DEF j
<1>4. ASSUME NEW C PROVE Goes(job[s], [job[s] EXCEPT !.todo = @ \ C])
  <2> DEFINE j == [job[s] EXCEPT !.todo = @ \ C]
  <2>1. /\ j \in AnswerJobs /\ j.kind = "answer" /\ j.all = job[s].all
        /\ j.allow = job[s].allow /\ j.todo = job[s].todo \ C
    BY <1>1 DEF AnswerJobs
  <2> HIDE DEF j
  <2>2. Goes(job[s], j)
    BY <2>1, JobsOf DEF Goes
  <2> QED
    BY <2>2 DEF j
<1>5. Goes(job[s], NoJob)
    BY JobsOf DEF Goes
<1>6. job[s].acc \in Accounts
    BY <1>1 DEF AnswerJobs
<1> QED
    BY <1>1, <1>2, <1>3, <1>4, <1>5, <1>6 DEF TodoAfter

LEMMA FetchAnsweredInd == ASSUME ConfInd, NEW s \in Slots, FetchAnswered(s) PROVE ConfInd'
<1>1. /\ job[s].kind = "fetch" /\ job[s].phase # "install" /\ TypeOK
      /\ UNCHANGED <<list, refreshing, incomplete, posted, screen, batch, health, login, steam>>
    BY DEF FetchAnswered, At, ConfInd
<1>2. limited' \subseteq Accounts /\ logins' \in [Accounts -> 0 .. 2] /\ Spaced'
    BY <1>1, SpacedKept DEF ConfInd, TypeOK, login
<1>3. PostKeeps
    BY <1>1 DEF PostKeeps
<1>4. ASSUME NEW j, Goes(job[s], j), job' = [job EXCEPT ![s] = j],
             j.kind = "fetch" /\ j.phase = "install" =>
                 (j.ok = FALSE /\ j.got = {}) \/ j.got = Waiting(job[s].acc)
      PROVE  ConfInd'
    BY <1>1, <1>2, <1>3, <1>4, QuietInd
<1> DEFINE ended(ok, sess, got) == [kind |-> "fetch", acc |-> job[s].acc, phase |-> "install",
                                    ok |-> ok, sess |-> sess, got |-> got]
           login1 == [job[s] EXCEPT !.phase = "login"]
<1>5. \/ job' = [job EXCEPT ![s] = ended(TRUE, FALSE, Waiting(job[s].acc))]
      \/ job' = [job EXCEPT ![s] = ended(FALSE, FALSE, {})]
      \/ job' = [job EXCEPT ![s] = ended(FALSE, TRUE, {})]
      \/ job' = [job EXCEPT ![s] = login1]
    BY DEF FetchAnswered, Fetched, Waiting, GoTo
<1>6. Waiting(job[s].acc) \in SUBSET Confs
    BY <1>1 DEF Waiting, TypeOK
<1>7. /\ Goes(job[s], ended(TRUE, FALSE, Waiting(job[s].acc)))
      /\ ended(TRUE, FALSE, Waiting(job[s].acc)).got = Waiting(job[s].acc)
    BY <1>1, <1>6, FetchMoves
<1>8. /\ Goes(job[s], ended(FALSE, FALSE, {}))
      /\ ended(FALSE, FALSE, {}).ok = FALSE /\ ended(FALSE, FALSE, {}).got = {}
    BY <1>1, FetchMoves
<1>9. /\ Goes(job[s], ended(FALSE, TRUE, {}))
      /\ ended(FALSE, TRUE, {}).ok = FALSE /\ ended(FALSE, TRUE, {}).got = {}
    BY <1>1, FetchMoves
<1>10. Goes(job[s], login1) /\ login1.phase # "install"
    BY <1>1, FetchMoves
<1> HIDE DEF ended, login1
<1> QED
    BY <1>4, <1>5, <1>7, <1>8, <1>9, <1>10

LEMMA ReloginInd == ASSUME ConfInd, NEW s \in Slots, Relogin(s) PROVE ConfInd'
<1>1. /\ \/ job[s].kind = "fetch" /\ job[s].phase # "install"
         \/ job[s].kind = "answer"
      /\ TypeOK
      /\ UNCHANGED <<list, refreshing, incomplete, posted, screen, batch, health, steam>>
    BY DEF Relogin, At, ConfInd
<1>2. PostKeeps
    BY <1>1 DEF PostKeeps
<1>3. job[s].acc \in Accounts
    BY <1>1, FetchMoves, AnswerMoves
<1>4. limited' \subseteq Accounts /\ logins' \in [Accounts -> 0 .. 2] /\ Spaced'
  <2>1. \/ UNCHANGED login
        \/ /\ job[s].acc \notin limited /\ limited' = limited \cup {job[s].acc}
           /\ logins' = [logins EXCEPT ![job[s].acc] = @ + 1]
    BY DEF Relogin, RateLimited
  <2> QED
    BY <1>1, <1>3, <2>1, LoginSpaced DEF ConfInd
<1>5. ASSUME NEW j, Goes(job[s], j), job' = [job EXCEPT ![s] = j],
             j.kind = "fetch" /\ j.phase = "install" => j.ok = FALSE /\ j.got = {}
      PROVE  ConfInd'
    BY <1>1, <1>2, <1>4, <1>5, QuietInd
<1>6. CASE job[s].kind = "fetch"
  <2> DEFINE f == [kind |-> "fetch", acc |-> job[s].acc, phase |-> "install",
                   ok |-> FALSE, sess |-> FALSE, got |-> {}]
             r == [job[s] EXCEPT !.phase = "rerun"]
  <2>1. /\ Goes(job[s], f) /\ f.ok = FALSE /\ f.got = {}
        /\ Goes(job[s], r) /\ r.phase # "install"
    BY <1>1, <1>6, FetchMoves
  <2>2. job' = [job EXCEPT ![s] = f] \/ job' = [job EXCEPT ![s] = r]
    BY <1>6 DEF Relogin, Fetched
  <2> HIDE DEF f, r
  <2> QED
    BY <1>5, <2>1, <2>2
<1>7. CASE job[s].kind = "answer"
  <2> DEFINE r == [job[s] EXCEPT !.phase = "rerun", !.todo = job[s].all]
  <2>1. Goes(job[s], NoJob) /\ Goes(job[s], r) /\ job[s] \in AnswerJobs
    BY <1>1, <1>7, AnswerMoves
  <2>2. NoJob.kind # "fetch" /\ r.kind # "fetch"
    BY <2>1 DEF NoJob, AnswerJobs
  <2>3. job' = [job EXCEPT ![s] = NoJob] \/ job' = [job EXCEPT ![s] = r]
    BY <1>7 DEF Relogin, Drop
  <2> HIDE DEF r
  <2> QED
    BY <1>5, <2>1, <2>2, <2>3
<1> QED
    BY <1>1, <1>6, <1>7

\* A fetch is the only one of its list, and no copy with its buttons enabled is shown.
LEMMA FetchAlone ==
    ASSUME ConfInd, NEW s \in Slots, job[s].kind = "fetch"
    PROVE  /\ job[s].acc \in Accounts \ Hopeless /\ Holds(s, job[s].acc)
           /\ \A u \in Slots \ {s} : job[u].kind = "fetch" => job[u].acc # job[s].acc
           /\ shown # NoView /\ ~shown.busy => shown.acc # job[s].acc
<1> DEFINE b == job[s].acc
<1>1. job[s] \in FetchJobs \cup InstallJobs
    BY JobKinds DEF ConfInd, TypeOK
<1>2. b \in Accounts \ Hopeless /\ Holds(s, b)
    BY <1>1 DEF FetchJobs, InstallJobs, ConfInd, Locks, Holds
<1>3. s \in Held(b)
    BY <1>2 DEF Held
<1>4. Held(b) = {s}
    BY <1>2, <1>3 DEF ConfInd, Locks, Locked
<1>5. \A u \in Slots \ {s} : ~Holds(u, b)
    BY <1>4 DEF Held
<1>6. \A u \in Slots \ {s} : job[u].kind = "fetch" => job[u].acc # b
    BY <1>5 DEF Holds
<1>7. shown # NoView /\ ~shown.busy => shown.acc # b
    BY DEF ConfInd, NothingMissing
<1> QED
    BY <1>2, <1>6, <1>7

LEMMA InstallInd == ASSUME ConfInd, NEW s \in Slots, Install(s) PROVE ConfInd'
<1>1. /\ job[s].kind = "fetch" /\ job[s].phase = "install" /\ Drop(s) /\ TypeOK
      /\ UNCHANGED <<incomplete, screen, batch, health, login, steam>>
    BY DEF Install, At, ConfInd
<1> DEFINE b == job[s].acc
           m == [kind |-> "fetched", acc |-> b, ok |-> job[s].ok, sess |-> job[s].sess]
<1>2. /\ b \in Accounts \ Hopeless /\ Holds(s, b)
      /\ \A u \in Slots \ {s} : job[u].kind = "fetch" => job[u].acc # b
      /\ shown # NoView /\ ~shown.busy => shown.acc # b
    BY <1>1, FetchAlone
<1>3. job[s] \in InstallJobs
    BY <1>1, JobKinds DEF TypeOK, FetchJobs
<1>4. /\ refreshing' = [refreshing EXCEPT ![b] = FALSE] /\ posted' = Append(posted, m)
      /\ list' = IF job[s].ok THEN [list EXCEPT ![b] = job[s].got] ELSE list
    BY DEF Install, Post
<1>5. m \in Callbacks /\ m.kind = "fetched"
    BY <1>3 DEF InstallJobs, Callbacks
<1>6. job[s].got \subseteq Confs
    BY <1>3 DEF InstallJobs
<1>7. \A c \in job[s].got : Owner[c] = b /\ c \in arrived
    BY <1>1 DEF ConfInd, Arrived
<1> HIDE DEF b, m
<1>8. Locks'
    BY <1>1, <1>2, <1>4, <1>5, LockReleased DEF ConfInd, PostKeeps
<1>9. /\ job' \in [Slots -> Jobs] /\ job'[s] = NoJob
      /\ \A u \in Slots \ {s} : job'[u] = job[u]
    BY <1>1, JobsOf, JobSet DEF Drop, TypeOK
<1>10. NoJob.kind = "none"
    BY DEF NoJob
<1>11. \A a \in Accounts \ {b} : list'[a] = list[a]
    BY <1>1, <1>4 DEF TypeOK
<1>12. list' \in [Accounts -> SUBSET Confs] /\ list'[b] \in {list[b], job[s].got}
    BY <1>1, <1>2, <1>4, <1>6 DEF TypeOK
<1>13. TypeOK'
  <2>1. posted' \in Seq(Callbacks)
    BY <1>1, <1>4, <1>5, AppendProperties DEF TypeOK
  <2>2. refreshing' \in [Accounts -> BOOLEAN]
    BY <1>1, <1>4 DEF TypeOK
  <2> QED
    BY <1>1, <1>9, <1>12, <2>1, <2>2 DEF TypeOK, screen, batch, health, login, steam
<1>14. Asked'
    BY <1>1, <1>9, <1>10 DEF ConfInd, Asked, AnswersAreAudited, Backed, screen, steam
<1>15. Arrived'
    BY <1>1, <1>7, <1>9, <1>10, <1>11, <1>12 DEF ConfInd, Arrived, steam
<1>16. NothingMissing'
  <2>1. Audited' = Audited /\ shown' = shown
    BY <1>1 DEF Audited, screen
  <2>2. ASSUME NEW u \in Slots, job'[u].kind = "fetch", job'[u].phase = "install", job'[u].ok
        PROVE  list'[job'[u].acc] \ job'[u].got \subseteq Audited'
    <3>1. u # s /\ job'[u] = job[u]
      BY <1>9, <1>10, <2>2
    <3>2. job[u].acc \in Accounts \ {b}
      BY <1>1, <1>2, <2>2, <3>1, JobKinds DEF TypeOK, FetchJobs, InstallJobs
    <3> QED
      BY <1>11, <2>1, <2>2, <3>1, <3>2 DEF ConfInd, NothingMissing
  <2>3. ASSUME shown # NoView, ~shown.busy
        PROVE  /\ list'[shown.acc] \subseteq shown.items
               /\ \A u \in Slots : job'[u].kind = "fetch" => job'[u].acc # shown.acc
    <3>1. shown.acc \in Accounts \ {b}
      BY <1>1, <1>2, <2>3 DEF TypeOK
    <3> QED
      BY <1>9, <1>10, <1>11, <2>3, <3>1 DEF ConfInd, NothingMissing
  <2>4. shown' # NoView => shown'.cards \subseteq shown'.items
    BY <2>1 DEF ConfInd, NothingMissing
  <2> QED
    BY <2>1, <2>2, <2>3, <2>4 DEF NothingMissing
<1>17. Spaced'
    BY <1>1, SpacedKept DEF ConfInd
<1> QED
    BY <1>8, <1>13, <1>14, <1>15, <1>16, <1>17 DEF ConfInd

\* Steam takes some of what an answer sends.
LEMMA TookInd ==
    ASSUME ConfInd, NEW s \in Slots, job[s].kind = "answer",
           NEW T, T \subseteq job[s].todo, Took(T, job[s].allow),
           NEW j, Goes(job[s], j), j.kind # "fetch", job' = [job EXCEPT ![s] = j],
           UNCHANGED <<list, refreshing, incomplete, posted, screen, batch, health, login>>
    PROVE  ConfInd'
<1>1. TypeOK /\ Locks /\ Asked /\ Arrived /\ NothingMissing
    BY DEF ConfInd
<1>2. /\ job' \in [Slots -> Jobs] /\ job'[s] = j /\ j \in Jobs
      /\ \A u \in Slots \ {s} : job'[u] = job[u]
    BY <1>1, JobSet DEF Goes, TypeOK
<1>3. T \subseteq Confs /\ T \subseteq job[s].all /\ Backed(job[s].all, job[s].allow)
  <2>1. job[s] \in AnswerJobs
    BY <1>1, AnswerMoves
  <2> QED
    BY <1>1, <2>1 DEF AnswerJobs, Asked
<1>4. /\ waiting' = waiting \ T /\ arrived' = arrived
      /\ \A c \in T : verdict'[c] = IF job[s].allow THEN "allow" ELSE "deny"
      /\ \A c \in Confs \ T : verdict'[c] = verdict[c]
      /\ verdict' \in [Confs -> {"none", "allow", "deny"}]
    BY <1>1, <1>3 DEF Took, TypeOK
<1>5. TypeOK'
    BY <1>1, <1>2, <1>4 DEF TypeOK, screen, batch, health, login
<1>6. Locks'
  <2>1. \A u \in Slots : \A a \in Accounts \ Hopeless : Holds(u, a)' <=> Holds(u, a)
    BY <1>2 DEF Holds, Goes, NoJob
  <2>2. \A u \in Slots : job'[u].kind = "fetch" => job'[u].acc \notin Hopeless
    BY <1>1, <1>2 DEF Goes, NoJob, Locks
  <2>3. \A a : LinksKeep(a)
    BY DEF LinksKeep, Alone
  <2> QED
    BY <1>1, <2>1, <2>2, <2>3, LocksQuiet
<1>7. AnswersAreAudited'
  <2> SUFFICES ASSUME NEW c \in Confs, verdict'[c] # "none"
               PROVE  \E e \in audit : /\ e.conf = c
                                       /\ verdict'[c] = IF e.allow THEN "allow" ELSE "deny"
                                       /\ e.by = "auto" => c \in AutoConfs
    BY DEF AnswersAreAudited, screen
  <2>1. CASE c \in T
    <3>1. PICK e \in audit : e.conf = c /\ e.allow = job[s].allow /\ (e.by = "auto" => c \in AutoConfs)
      BY <1>3, <2>1 DEF Backed
    <3> QED
      BY <1>4, <2>1, <3>1
  <2>2. CASE c \notin T
    BY <1>1, <1>4, <2>2 DEF Asked, AnswersAreAudited
  <2> QED
    BY <2>1, <2>2
<1>8. Asked'
  <2>1. audit' = audit
    BY DEF screen
  <2>2. ASSUME NEW u \in Slots, job'[u].kind = "answer"
        PROVE  /\ job[u].kind = "answer" /\ job'[u].all = job[u].all
               /\ job'[u].allow = job[u].allow /\ job'[u].todo \subseteq job[u].todo \cup job[u].all
    BY <1>2, <2>2 DEF Goes, NoJob
  <2> QED
    BY <1>1, <1>7, <2>1, <2>2 DEF Asked, Backed
<1>9. Arrived'
  <2>1. ASSUME NEW c \in arrived' \ waiting' PROVE verdict'[c] # "none"
    <3>1. c \in Confs
      BY <1>1, <1>4 DEF TypeOK
    <3> QED
      BY <1>1, <1>4, <2>1, <3>1 DEF Arrived
  <2>2. \A u \in Slots : job'[u].kind = "fetch" => job'[u] = job[u]
    BY <1>2
  <2> QED
    BY <1>1, <1>4, <2>1, <2>2 DEF Arrived
<1>10. NothingMissing'
  <2>1. \A u \in Slots : job'[u].kind = "fetch" => job'[u] = job[u]
    BY <1>2
  <2>2. Audited' = Audited /\ shown' = shown
    BY DEF Audited, screen
  <2> QED
    BY <1>1, <2>1, <2>2 DEF NothingMissing
<1>11. Spaced'
    BY SpacedKept DEF ConfInd
<1> QED
    BY <1>5, <1>6, <1>8, <1>9, <1>10, <1>11 DEF ConfInd

LEMMA AnswerSentInd == ASSUME ConfInd, NEW s \in Slots, AnswerSent(s) PROVE ConfInd'
<1>1. /\ job[s].kind = "answer" /\ TypeOK
      /\ UNCHANGED <<list, refreshing, incomplete, posted, screen, batch, health, login>>
    BY DEF AnswerSent, At, ConfInd
<1>2. PICK C \in Chunks(job[s].todo) :
         \/ /\ C \subseteq waiting /\ Took(C, job[s].allow)
            /\ job' = [job EXCEPT ![s] = TodoAfter(job[s], C)]
         \/ \E T \in SUBSET (C \cap waiting) : Took(T, job[s].allow) /\ Drop(s)
         \/ job[s].phase # "rerun" /\ LoginOrGiveUp(s) /\ UNCHANGED steam
         \/ /\ job[s].single /\ job[s].phase = "send"
            /\ IF C \subseteq waiting THEN GoTo(s, "nonce") ELSE Drop(s)
            /\ UNCHANGED steam
    BY DEF AnswerSent
<1>3. C \subseteq job[s].todo
    BY DEF Chunks
<1> DEFINE next == TodoAfter(job[s], C)
           at(p) == [job[s] EXCEPT !.phase = p]
<1>4. /\ Goes(job[s], next) /\ Goes(job[s], NoJob)
      /\ Goes(job[s], at("nonce")) /\ Goes(job[s], at("login"))
    BY <1>1, AnswerMoves
<1>5. \A j : Goes(job[s], j) => j.kind # "fetch"
    BY <1>1 DEF Goes, NoJob
<1>6. ASSUME NEW j, Goes(job[s], j), job' = [job EXCEPT ![s] = j], UNCHANGED steam
      PROVE  ConfInd'
  <2>1. PostKeeps
    BY <1>1 DEF PostKeeps
  <2>2. limited' \subseteq Accounts /\ logins' \in [Accounts -> 0 .. 2] /\ Spaced'
    BY <1>1, SpacedKept DEF ConfInd, TypeOK, login
  <2> QED
    BY <1>1, <1>5, <1>6, <2>1, <2>2, QuietInd
<1>7. CASE Took(C, job[s].allow) /\ job' = [job EXCEPT ![s] = next]
  <2> HIDE DEF next
  <2> QED
    BY <1>1, <1>3, <1>4, <1>5, <1>7, TookInd
<1>8. ASSUME NEW T \in SUBSET (C \cap waiting), Took(T, job[s].allow), Drop(s) PROVE ConfInd'
    BY <1>1, <1>3, <1>4, <1>5, <1>8, TookInd DEF Drop
<1>9. CASE UNCHANGED steam /\ Drop(s)
    BY <1>4, <1>6, <1>9 DEF Drop
<1>10. CASE UNCHANGED steam /\ (GoTo(s, "nonce") \/ GoTo(s, "login"))
  <2>1. job' = [job EXCEPT ![s] = at("nonce")] \/ job' = [job EXCEPT ![s] = at("login")]
    BY <1>10 DEF GoTo
  <2> HIDE DEF at
  <2> QED
    BY <1>4, <1>6, <1>10, <2>1
<1> QED
    BY <1>2, <1>7, <1>8, <1>9, <1>10 DEF LoginOrGiveUp

LEMMA WorkerInd == ASSUME ConfInd, NEW s \in Slots, Worker(s) PROVE ConfInd'
    BY BatchInd, FetchAnsweredInd, ReloginInd, InstallInd, AnswerSentInd, LinkLoadedInd, ScanInd
       DEF Worker

-------------------------------------------------------------------------------
(* The frame thread starts jobs. *)

\* submit_account_refresh, with the flag as it is or after the maFile was linked.
LEMMA RefreshStarts ==
    ASSUME TypeOK, Locks, NEW b \in Accounts, NEW busy \in BOOLEAN, StartRefresh(b, busy),
           \A a \in Accounts \ {b} : LinksKeep(a),
           b \notin Hopeless =>
               \/ busy = refreshing[b] /\ LinksKeep(b)
               \/ busy = FALSE /\ Held(b) = {} /\ LinkedAt(posted', b) = {}
    PROVE  /\ Locks' /\ job' \in [Slots -> Jobs] /\ refreshing' \in [Accounts -> BOOLEAN]
           /\ \A u \in Slots : job'[u] = job[u] \/ job'[u] = Fetch(b)
<1>1. job \in [Slots -> Jobs] /\ refreshing \in [Accounts -> BOOLEAN]
    BY DEF TypeOK
<1>2. /\ Fetch(b) \in Jobs /\ Fetch(b).kind = "fetch" /\ Fetch(b).acc = b
    BY JobsOf DEF Fetch, FetchJobs
<1>3. CASE b \in Hopeless \cup cooling \/ busy
  <2> DEFINE v == b \notin Hopeless /\ busy
  <2>1. UNCHANGED job /\ refreshing' = [refreshing EXCEPT ![b] = v] /\ v \in BOOLEAN
    BY <1>3 DEF StartRefresh
  <2>2. Held(b)' = Held(b)
    BY <2>1 DEF Held, Holds
  <2>3. b \notin Hopeless => Locked(b)'
    BY <1>1, <2>1, <2>2 DEF Locks, Locked, LinksKeep
  <2> HIDE DEF v
  <2>4. Locks'
    BY <2>1, <2>3, LockLeft
  <2> QED
    BY <1>1, <2>1, <2>4
<1>4. CASE ~(b \in Hopeless \cup cooling \/ busy)
  <2>1. PICK s \in Slots : Submit(s, Fetch(b))
    BY <1>4 DEF StartRefresh
  <2>2. refreshing' = [refreshing EXCEPT ![b] = TRUE] /\ b \notin Hopeless
    BY <1>4 DEF StartRefresh
  <2>3. Held(b) = {} /\ LinkedAt(posted', b) = {}
    BY <1>4, <2>2 DEF Locks, Locked, LinksKeep
  <2>4. Locks'
    BY <1>2, <2>1, <2>2, <2>3, LockTaken
  <2>5. /\ job' \in [Slots -> Jobs] /\ job'[s] = Fetch(b)
        /\ \A u \in Slots \ {s} : job'[u] = job[u]
    BY <1>1, <1>2, <2>1, JobSet DEF Submit
  <2> QED
    BY <1>1, <2>2, <2>4, <2>5
<1> QED
    BY <1>3, <1>4

\* refresh_all: the new job has no list; the total counts the accounts it is for.
LEMMA BatchStarts ==
    ASSUME TypeOK, Locks, StartBatch, UNCHANGED refreshing,
           \A a \in Accounts : LinksKeep(a)
    PROVE  /\ Locks' /\ job' \in [Slots -> Jobs]
           /\ total' \in 0 .. Cardinality(Accounts) /\ done' \in 0 .. Cardinality(Accounts)
           /\ \A u \in Slots : job'[u] = job[u] \/ job'[u].kind = "batch"
<1> DEFINE wanted == Accounts \ (permanent \cup cooling)
           j == [kind |-> "batch", rest |-> wanted]
<1>1. job \in [Slots -> Jobs]
    BY DEF TypeOK
<1>2. j \in Jobs /\ j.kind = "batch"
    BY JobsOf DEF RestJobs
<1>3. \/ UNCHANGED <<batch, job>>
      \/ /\ total' = Cardinality(wanted) /\ done' = 0
         /\ \E s \in Slots : Submit(s, j)
    BY DEF StartBatch
<1>4. Cardinality(wanted) \in 0 .. Cardinality(Accounts)
  <2>1. IsFiniteSet(wanted) /\ Cardinality(wanted) <= Cardinality(Accounts)
    BY FS_Subset
  <2>2. Cardinality(wanted) \in Nat /\ Cardinality(Accounts) \in Nat
    BY <2>1, FS_CardinalityType
  <2> HIDE DEF wanted
  <2> QED
    BY <2>1, <2>2
<1> HIDE DEF wanted, j
<1>5. total' \in 0 .. Cardinality(Accounts) /\ done' \in 0 .. Cardinality(Accounts)
  <2>1. Cardinality(Accounts) \in Nat
    BY FS_CardinalityType
  <2> QED
    BY <1>3, <1>4, <2>1 DEF TypeOK, batch
<1>6. CASE UNCHANGED <<batch, job>>
  <2>1. Locks'
    BY <1>6, LocksQuiet DEF Holds, Locks
  <2> QED
    BY <1>1, <1>5, <1>6, <2>1
<1>7. ASSUME NEW s \in Slots, Submit(s, j)
      PROVE  /\ Locks' /\ job' \in [Slots -> Jobs]
             /\ \A u \in Slots : job'[u] = job[u] \/ job'[u].kind = "batch"
  <2>1. job[s] = NoJob /\ NoJob.kind = "none"
    BY <1>7 DEF Submit, NoJob
  <2>2. /\ job' \in [Slots -> Jobs] /\ job'[s] = j
        /\ \A u \in Slots \ {s} : job'[u] = job[u]
    BY <1>1, <1>2, <1>7, JobSet DEF Submit
  <2>3. \A u \in Slots : \A a \in Accounts \ Hopeless : Holds(u, a)' <=> Holds(u, a)
    BY <1>2, <2>1, <2>2 DEF Holds
  <2>4. \A u \in Slots : job'[u].kind = "fetch" => job'[u].acc \notin Hopeless
    BY <1>2, <2>2 DEF Locks
  <2>5. Locks'
    BY <2>3, <2>4, LocksQuiet
  <2> QED
    BY <1>2, <2>2, <2>5
<1> QED
    BY <1>3, <1>5, <1>6, <1>7

\* While nothing is shown and Steam is not involved, the lists and the answers follow
\* from the jobs alone.
LEMMA FrameKept ==
    ASSUME ConfInd, shown = NoView, shown' = NoView, UNCHANGED steam, audit \subseteq audit',
           \A a \in Accounts : list'[a] \subseteq list[a],
           \A u \in Slots : \/ job'[u] = job[u]
                            \/ job'[u].kind \in {"none", "link", "batch", "scan"}
                            \/ job'[u].kind = "fetch" /\ job'[u].phase = "run"
                            \/ /\ job'[u].kind = "answer" /\ job'[u].todo = job'[u].all
                               /\ Backed(job[u].all, job[u].allow)'
    PROVE  Asked' /\ Arrived' /\ NothingMissing'
<1>1. \A u \in Slots : job'[u].kind = "fetch" => FetchKept(u)
    BY DEF FetchKept
<1>2. \A u \in Slots : job'[u].kind = "answer" =>
         \/ job'[u] = job[u]
         \/ job'[u].todo = job'[u].all /\ Backed(job[u].all, job[u].allow)'
    OBVIOUS
<1> QED
    BY <1>1, <1>2, RestKept DEF ConfInd, AnswerKept

-------------------------------------------------------------------------------
(* The callbacks. *)

\* What every callback leaves alone, and what taking it off the queue does.
LEMMA CallbackTaken ==
    ASSUME ConfInd, RunCallback
    PROVE  /\ TypeOK /\ shown = NoView /\ shown' = NoView /\ UNCHANGED <<login, steam>>
           /\ posted # <<>> /\ posted' = Tail(posted)
           /\ posted' \in Seq(Callbacks) /\ Head(posted) \in Callbacks /\ Spaced'
           /\ \A a : Head(posted) # Linked(a) => LinksKeep(a)
           /\ Head(posted).kind # "linked" => \A a : LinksKeep(a)
<1>1. /\ TypeOK /\ shown = NoView /\ shown' = NoView /\ UNCHANGED <<login, steam>>
      /\ posted # <<>> /\ posted' = Tail(posted)
    BY DEF RunCallback, ConfInd
<1>2. posted \in Seq(Callbacks)
    BY <1>1 DEF TypeOK
<1>3. posted' \in Seq(Callbacks) /\ Head(posted) \in Callbacks
    BY <1>1, <1>2, TailLinks
<1>4. \A a : Head(posted) # Linked(a) => LinksKeep(a)
    BY <1>1, <1>2, TailOthers DEF LinksKeep
<1>5. Spaced'
    BY <1>1, SpacedKept DEF ConfInd
<1>6. \A a : Linked(a).kind = "linked"
    BY DEF Linked
<1> QED
    BY <1>1, <1>3, <1>4, <1>5, <1>6

LEMMA RefreshCallbackInd ==
    ASSUME ConfInd, RunCallback, Head(posted).kind = "refresh",
           StartRefresh(Head(posted).acc, refreshing[Head(posted).acc]),
           UNCHANGED <<list, incomplete, audit, batch, health>>
    PROVE  ConfInd'
<1> DEFINE b == Head(posted).acc
<1>1. /\ TypeOK /\ shown = NoView /\ shown' = NoView /\ UNCHANGED <<login, steam>>
      /\ posted' \in Seq(Callbacks) /\ Head(posted) \in Callbacks /\ Spaced'
      /\ \A a : LinksKeep(a)
    BY CallbackTaken
<1>2. b \in Accounts
    BY <1>1 DEF Callbacks
<1>4. refreshing[b] \in BOOLEAN /\ StartRefresh(b, refreshing[b])
    BY <1>1, <1>2 DEF TypeOK
<1> HIDE DEF b
<1>5. /\ Locks' /\ job' \in [Slots -> Jobs] /\ refreshing' \in [Accounts -> BOOLEAN]
      /\ \A u \in Slots : job'[u] = job[u] \/ job'[u] = Fetch(b)
    BY <1>1, <1>2, <1>4, RefreshStarts DEF ConfInd
<1>6. TypeOK'
    BY <1>1, <1>5 DEF TypeOK, batch, health, login, steam
<1>7. Asked' /\ Arrived' /\ NothingMissing'
    BY <1>1, <1>5, FrameKept DEF Fetch
<1> QED
    BY <1>1, <1>5, <1>6, <1>7 DEF ConfInd

LEMMA LinkedCallbackInd ==
    ASSUME ConfInd, RunCallback, Head(posted).kind = "linked",
           StartRefresh(Head(posted).acc, FALSE),
           incomplete' = incomplete \ {Head(posted).acc},
           UNCHANGED <<list, audit, batch, health>>
    PROVE  ConfInd'
<1> DEFINE b == Head(posted).acc
<1>1. /\ TypeOK /\ shown = NoView /\ shown' = NoView /\ UNCHANGED <<login, steam>>
      /\ posted # <<>> /\ posted' = Tail(posted) /\ posted \in Seq(Callbacks)
      /\ posted' \in Seq(Callbacks) /\ Head(posted) \in Callbacks /\ Spaced'
      /\ \A a : Head(posted) # Linked(a) => LinksKeep(a)
    BY CallbackTaken DEF TypeOK
<1>2. b \in Accounts /\ Head(posted) = Linked(b)
    BY <1>1 DEF Callbacks, Linked
<1>3. \A a \in Accounts \ {b} : LinksKeep(a)
  <2>1. \A a : a # b => Head(posted) # Linked(a)
    BY <1>2 DEF Linked
  <2> QED
    BY <1>1, <2>1
<1>4. b \notin Hopeless => Held(b) = {} /\ LinkedAt(posted', b) = {}
  <2> SUFFICES ASSUME b \notin Hopeless PROVE Held(b) = {} /\ LinkedAt(posted', b) = {}
    OBVIOUS
  <2>1. 1 \in LinkedAt(posted, b)
    BY <1>1, <1>2, TailLinks
  <2>2. Held(b) = {} /\ Alone(posted, b)
    BY <1>2, <2>1 DEF ConfInd, Locks, Locked
  <2>3. LinkedAt(posted, b) = {1}
    BY <2>1, <2>2 DEF Alone
  <2>4. \A i : i \in LinkedAt(posted', b) => i + 1 \in {1} /\ i + 1 # 1
    BY <1>1, <2>3, TailLinks
  <2> QED
    BY <2>2, <2>4
<1>5. StartRefresh(b, FALSE)
    OBVIOUS
<1> HIDE DEF b
<1>6. /\ Locks' /\ job' \in [Slots -> Jobs] /\ refreshing' \in [Accounts -> BOOLEAN]
      /\ \A u \in Slots : job'[u] = job[u] \/ job'[u] = Fetch(b)
  <2> DEFINE busy == FALSE
  <2>1. busy \in BOOLEAN /\ StartRefresh(b, busy) /\ busy = FALSE
    BY <1>5
  <2> HIDE DEF busy
  <2> QED
    BY <1>1, <1>2, <1>3, <1>4, <2>1, RefreshStarts DEF ConfInd
<1>7. TypeOK'
    BY <1>1, <1>6 DEF TypeOK, batch, health, login, steam
<1>8. Asked' /\ Arrived' /\ NothingMissing'
    BY <1>1, <1>6, FrameKept DEF Fetch
<1> QED
    BY <1>1, <1>6, <1>7, <1>8 DEF ConfInd

LEMMA PollCallbackInd ==
    ASSUME ConfInd, RunCallback, Head(posted).kind = "poll", StartBatch,
           UNCHANGED <<list, refreshing, incomplete, audit, health>>
    PROVE  ConfInd'
<1>1. /\ TypeOK /\ shown = NoView /\ shown' = NoView /\ UNCHANGED <<login, steam>>
      /\ posted' \in Seq(Callbacks) /\ Head(posted) \in Callbacks /\ Spaced'
      /\ \A a : LinksKeep(a)
    BY CallbackTaken
<1>2. /\ Locks' /\ job' \in [Slots -> Jobs]
      /\ total' \in 0 .. Cardinality(Accounts) /\ done' \in 0 .. Cardinality(Accounts)
      /\ \A u \in Slots : job'[u] = job[u] \/ job'[u].kind = "batch"
    BY <1>1, BatchStarts DEF ConfInd
<1>3. TypeOK'
    BY <1>1, <1>2 DEF TypeOK, health, login, steam
<1>4. Asked' /\ Arrived' /\ NothingMissing'
    BY <1>1, <1>2, FrameKept
<1> QED
    BY <1>1, <1>2, <1>3, <1>4 DEF ConfInd

LEMMA MergedCallbackInd ==
    ASSUME ConfInd, RunCallback, Head(posted).kind = "merged",
           incomplete' = incomplete \ {Head(posted).acc},
           UNCHANGED <<list, refreshing, job, audit, batch, health>>
    PROVE  ConfInd'
<1>1. /\ TypeOK /\ shown = NoView /\ shown' = NoView /\ UNCHANGED <<login, steam>>
      /\ posted' \in Seq(Callbacks) /\ Spaced' /\ \A a : LinksKeep(a)
    BY CallbackTaken
<1>2. Locks'
    BY <1>1, LocksQuiet DEF ConfInd, Holds, Locks
<1>3. TypeOK'
    BY <1>1 DEF TypeOK, batch, health, login, steam
<1>4. Asked' /\ Arrived' /\ NothingMissing'
    BY <1>1, FrameKept
<1> QED
    BY <1>1, <1>2, <1>3, <1>4 DEF ConfInd

\* The counters of the failures and of the batch stay within their bounds.
LEMMA HealthTyped ==
    ASSUME TypeOK, NEW m \in Callbacks, m.kind = "fetched", AfterFetch(m)
    PROVE  /\ m.acc \in Accounts /\ m.ok \in BOOLEAN
           /\ cooling' \subseteq Accounts /\ permanent' \subseteq Accounts
           /\ failures' \in [Accounts -> 0 .. Threshold]
           /\ total' \in 0 .. Cardinality(Accounts) /\ done' \in 0 .. Cardinality(Accounts)
<1> DEFINE a     == m.acc
           worse == IF failures[a] < Threshold THEN failures[a] + 1 ELSE failures[a]
           n     == IF done < Cardinality(Accounts) THEN done + 1 ELSE done
<1>1. a \in Accounts /\ m.ok \in BOOLEAN /\ m.sess \in BOOLEAN
    BY DEF Callbacks
<1>2. failures \in [Accounts -> 0 .. Threshold] /\ Threshold \in Nat
    BY DEF TypeOK
<1>3. Cardinality(Accounts) \in Nat
    BY FS_CardinalityType
<1>4. worse \in 0 .. Threshold
    BY <1>1, <1>2
<1>5. n \in 0 .. Cardinality(Accounts)
    BY <1>3 DEF TypeOK
<1>6. /\ cooling' = cooling \cup {a}
      /\ failures' = [failures EXCEPT ![a] = IF m.ok THEN 0
                                             ELSE IF m.sess THEN worse ELSE failures[a]]
      /\ permanent' = IF m.ok THEN permanent \ {a}
                      ELSE IF m.sess /\ worse >= Threshold THEN permanent \cup {a}
                      ELSE permanent
      /\ done' = n /\ total' = IF n >= total THEN 0 ELSE total
    BY DEF AfterFetch
<1> HIDE DEF a, worse, n
<1>7. cooling' \subseteq Accounts /\ permanent' \subseteq Accounts
    BY <1>1, <1>6 DEF TypeOK
<1>8. failures' \in [Accounts -> 0 .. Threshold]
  <2> DEFINE v == IF m.ok THEN 0 ELSE IF m.sess THEN worse ELSE failures[a]
  <2>1. v \in 0 .. Threshold
    BY <1>1, <1>2, <1>4
  <2>2. failures' = [failures EXCEPT ![a] = v]
    BY <1>6
  <2> HIDE DEF v
  <2> QED
    BY <1>1, <1>2, <2>1, <2>2
<1>9. total' \in 0 .. Cardinality(Accounts) /\ done' \in 0 .. Cardinality(Accounts)
    BY <1>3, <1>5, <1>6 DEF TypeOK
<1> QED
    BY <1>1, <1>7, <1>8, <1>9 DEF a

\* What the program approves by itself: one job and one audit entry each.
LEMMA PicksAnswered ==
    ASSUME TypeOK, NEW m \in Callbacks, m.kind = "fetched", AfterFetch(m)
    PROVE  \E picks \in SUBSET (list[m.acc] \cap AutoConfs) :
             /\ job' \in [Slots -> Jobs]
             /\ \A u \in Slots :
                  \/ job'[u] = job[u]
                  \/ /\ job[u] = NoJob
                     /\ \E c \in picks : job'[u] = Answer(m.acc, {c}, TRUE, TRUE)
             /\ audit' = audit \cup {Entry(c, TRUE, "auto") : c \in picks}
             /\ list' = [list EXCEPT ![m.acc] = list[m.acc] \ picks]
<1> DEFINE a     == m.acc
           picks == IF m.ok THEN AutoPicks(a) ELSE {}
<1>1. a \in Accounts
    BY DEF Callbacks
<1>2. picks \subseteq list[a] \cap AutoConfs /\ picks \subseteq Confs
    BY <1>1 DEF AutoPicks, TypeOK
<1>3. PICK f \in [picks -> {s \in Slots : job[s] = NoJob}] :
          job' = [s \in Slots |-> IF \E c \in picks : f[c] = s
                                  THEN Answer(a, {CHOOSE c \in picks : f[c] = s}, TRUE, TRUE)
                                  ELSE job[s]]
    BY DEF AfterFetch
<1>4. /\ audit' = audit \cup {Entry(c, TRUE, "auto") : c \in picks}
      /\ list' = [list EXCEPT ![a] = list[a] \ picks]
    BY DEF AfterFetch
<1>5. ASSUME NEW c \in Confs
      PROVE  Answer(a, {c}, TRUE, TRUE) \in Jobs
  <2>1. {c} \in SUBSET Confs
    OBVIOUS
  <2> HIDE DEF a
  <2>2. Answer(a, {c}, TRUE, TRUE) \in AnswerJobs
    BY <1>1, <2>1 DEF Answer, AnswerJobs
  <2> QED
    BY <2>2, JobsOf
<1> HIDE DEF a, picks
<1>6. ASSUME NEW u \in Slots
      PROVE  /\ job'[u] \in Jobs
             /\ \/ job'[u] = job[u]
                \/ /\ job[u] = NoJob
                   /\ \E c \in picks : job'[u] = Answer(a, {c}, TRUE, TRUE)
  <2>1. CASE \E c \in picks : f[c] = u
    <3> DEFINE d == CHOOSE c \in picks : f[c] = u
    <3>1. d \in picks /\ f[d] = u
      BY <2>1
    <3>2. job'[u] = Answer(a, {d}, TRUE, TRUE)
      BY <1>3, <2>1
    <3> HIDE DEF d
    <3>3. job[u] = NoJob
      BY <1>3, <3>1
    <3>4. Answer(a, {d}, TRUE, TRUE) \in Jobs
      BY <1>2, <1>5, <3>1
    <3> QED
      BY <3>1, <3>2, <3>3, <3>4
  <2>2. CASE ~\E c \in picks : f[c] = u
    BY <1>3, <2>2 DEF TypeOK
  <2> QED
    BY <2>1, <2>2
<1>7. job' \in [Slots -> Jobs]
  <2>1. job' = [u \in Slots |-> job'[u]]
    BY <1>3
  <2> QED
    BY <1>6, <2>1
<1> QED
    BY <1>2, <1>4, <1>6, <1>7 DEF a

LEMMA FetchedCallbackInd ==
    ASSUME ConfInd, RunCallback, Head(posted).kind = "fetched", AfterFetch(Head(posted)),
           UNCHANGED <<refreshing, incomplete>>
    PROVE  ConfInd'
<1> DEFINE m == Head(posted)
           a == m.acc
<1>1. /\ TypeOK /\ shown = NoView /\ shown' = NoView /\ UNCHANGED <<login, steam>>
      /\ posted' \in Seq(Callbacks) /\ m \in Callbacks /\ Spaced'
      /\ \A b : LinksKeep(b)
    BY CallbackTaken
<1>2. PICK picks \in SUBSET (list[a] \cap AutoConfs) :
         /\ job' \in [Slots -> Jobs]
         /\ \A u \in Slots :
              \/ job'[u] = job[u]
              \/ /\ job[u] = NoJob
                 /\ \E c \in picks : job'[u] = Answer(a, {c}, TRUE, TRUE)
         /\ audit' = audit \cup {Entry(c, TRUE, "auto") : c \in picks}
         /\ list' = [list EXCEPT ![a] = list[a] \ picks]
    BY <1>1, PicksAnswered
<1>3. /\ a \in Accounts
      /\ cooling' \subseteq Accounts /\ permanent' \subseteq Accounts
      /\ failures' \in [Accounts -> 0 .. Threshold]
      /\ total' \in 0 .. Cardinality(Accounts) /\ done' \in 0 .. Cardinality(Accounts)
    BY <1>1, HealthTyped
<1> HIDE DEF m, a
<1>4. \A c : /\ Answer(a, {c}, TRUE, TRUE).kind = "answer"
             /\ Answer(a, {c}, TRUE, TRUE).all = {c} /\ Answer(a, {c}, TRUE, TRUE).todo = {c}
             /\ Answer(a, {c}, TRUE, TRUE).allow = TRUE
    BY DEF Answer
<1>5. /\ list' \in [Accounts -> SUBSET Confs] /\ \A b \in Accounts : list'[b] \subseteq list[b]
      /\ picks \subseteq Confs
    BY <1>1, <1>2, <1>3 DEF TypeOK
<1>6. audit' \subseteq Entries
  <2>1. \A c \in picks : Entry(c, TRUE, "auto") \in Entries
    BY <1>5 DEF Entry, Entries
  <2>2. ASSUME NEW e \in audit', e \notin audit PROVE e \in Entries
    <3>1. PICK c \in picks : e = Entry(c, TRUE, "auto")
      BY <1>2, <2>2
    <3> QED
      BY <2>1, <3>1
  <2>3. audit \subseteq Entries
    BY <1>1 DEF TypeOK
  <2> QED
    BY <2>2, <2>3
<1>7. TypeOK'
    BY <1>1, <1>2, <1>3, <1>5, <1>6 DEF TypeOK, login, steam
<1>8. Locks'
  <2>1. NoJob.kind = "none"
    BY DEF NoJob
  <2>2. \A u \in Slots : \A b \in Accounts \ Hopeless : Holds(u, b)' <=> Holds(u, b)
    BY <1>2, <1>4, <2>1 DEF Holds
  <2>3. \A u \in Slots : job'[u].kind = "fetch" => job'[u].acc \notin Hopeless
    BY <1>2, <1>4 DEF ConfInd, Locks
  <2> QED
    BY <1>1, <2>2, <2>3, LocksQuiet DEF ConfInd
<1>9. Asked' /\ Arrived' /\ NothingMissing'
  <2>1. \A c \in picks : \E e \in audit' : e.conf = c /\ e.allow = TRUE /\ e.by = "auto"
    <3>1. \A c \in picks : Entry(c, TRUE, "auto") \in audit'
      BY <1>2
    <3>2. \A c : Entry(c, TRUE, "auto").conf = c /\ Entry(c, TRUE, "auto").allow = TRUE
                /\ Entry(c, TRUE, "auto").by = "auto"
      BY DEF Entry
    <3> QED
      BY <3>1, <3>2
  <2>2. ASSUME NEW u \in Slots, NEW c \in picks, job'[u] = Answer(a, {c}, TRUE, TRUE)
        PROVE  /\ job'[u].kind = "answer" /\ job'[u].todo = job'[u].all
               /\ Backed(job[u].all, job[u].allow)'
    <3>1. /\ job'[u].kind = "answer" /\ job'[u].todo = {c} /\ job'[u].all = {c}
          /\ job'[u].allow = TRUE
      BY <1>4, <2>2
    <3>2. c \in AutoConfs
      BY <1>2
    <3> QED
      BY <2>1, <3>1, <3>2 DEF Backed
  <2>3. audit \subseteq audit'
    BY <1>2
  <2> QED
    BY <1>1, <1>2, <1>5, <2>2, <2>3, FrameKept
<1> QED
    BY <1>1, <1>7, <1>8, <1>9 DEF ConfInd

LEMMA RunCallbackInd == ASSUME ConfInd, RunCallback PROVE ConfInd'
    BY RefreshCallbackInd, LinkedCallbackInd, PollCallbackInd, MergedCallbackInd,
       FetchedCallbackInd DEF RunCallback

-------------------------------------------------------------------------------
(* The user, the poller, time and Steam. *)

\* Of the jobs, the flags and the queue, nothing that a lock is made of moves.
LEMMA LocksSame ==
    ASSUME Locks, UNCHANGED <<refreshing, posted>>,
           \A u \in Slots : \/ job'[u] = job[u]
                            \/ job[u] = NoJob /\ job'[u].kind \notin {"fetch", "link"}
    PROVE  Locks'
<1>1. \A a : LinksKeep(a)
    BY DEF LinksKeep, Alone
<1>2. NoJob.kind = "none"
    BY DEF NoJob
<1>3. \A u \in Slots : \A a \in Accounts \ Hopeless : Holds(u, a)' <=> Holds(u, a)
    BY <1>2 DEF Holds
<1>4. \A u \in Slots : job'[u].kind = "fetch" => job'[u].acc \notin Hopeless
    BY DEF Locks
<1> QED
    BY <1>1, <1>3, <1>4, LocksQuiet

LEMMA LinkMafileInd == ASSUME ConfInd, NEW b \in Accounts, LinkMafile(b) PROVE ConfInd'
<1>1. /\ TypeOK /\ shown = NoView /\ ~refreshing[b]
      /\ refreshing' = [refreshing EXCEPT ![b] = TRUE]
      /\ UNCHANGED <<list, incomplete, posted, screen, batch, health, login, steam>>
    BY DEF LinkMafile, InFrame, ConfInd
<1> DEFINE j == [kind |-> "link", acc |-> b]
<1>2. PICK s \in Slots : Submit(s, j)
    BY DEF LinkMafile
<1>3. j \in Jobs /\ j.kind = "link" /\ j.acc = b
    BY JobsOf DEF LinkJobs
<1> HIDE DEF j
<1>4. /\ job' \in [Slots -> Jobs] /\ job'[s] = j
      /\ \A u \in Slots \ {s} : job'[u] = job[u]
    BY <1>1, <1>2, <1>3, JobSet DEF Submit, TypeOK
<1>5. Locks'
  <2>1. \A a : LinksKeep(a)
    BY <1>1 DEF LinksKeep, Alone
  <2>2. b \notin Hopeless => Held(b) = {} /\ LinkedAt(posted', b) = {}
    BY <1>1 DEF ConfInd, Locks, Locked
  <2> QED
    BY <1>1, <1>2, <1>3, <2>1, <2>2, LockTaken DEF ConfInd
<1>6. TypeOK'
    BY <1>1, <1>4 DEF TypeOK, screen, batch, health, login, steam
<1>7. Asked' /\ Arrived' /\ NothingMissing' /\ Spaced'
    BY <1>1, <1>3, <1>4, FrameKept, SpacedKept DEF ConfInd, screen
<1> QED
    BY <1>5, <1>6, <1>7 DEF ConfInd

LEMMA ScanFolderInd == ASSUME ConfInd, ScanFolder PROVE ConfInd'
<1>1. /\ TypeOK /\ shown = NoView /\ incomplete \subseteq Accounts
      /\ UNCHANGED <<list, refreshing, incomplete, posted, screen, batch, health, login, steam>>
    BY DEF ScanFolder, InFrame, ConfInd, TypeOK
<1> DEFINE j == [kind |-> "scan", rest |-> incomplete]
<1>2. PICK s \in Slots : Submit(s, j)
    BY DEF ScanFolder
<1>3. j \in Jobs /\ j.kind = "scan"
    BY <1>1, JobsOf DEF RestJobs
<1> HIDE DEF j
<1>4. /\ job' \in [Slots -> Jobs] /\ job'[s] = j /\ job[s] = NoJob
      /\ \A u \in Slots \ {s} : job'[u] = job[u]
    BY <1>1, <1>2, <1>3, JobSet DEF Submit, TypeOK
<1>5. Locks'
    BY <1>1, <1>3, <1>4, LocksSame DEF ConfInd
<1>6. TypeOK'
    BY <1>1, <1>4 DEF TypeOK, screen, batch, health, login, steam
<1>7. Asked' /\ Arrived' /\ NothingMissing' /\ Spaced'
    BY <1>1, <1>3, <1>4, FrameKept, SpacedKept DEF ConfInd, screen
<1> QED
    BY <1>5, <1>6, <1>7 DEF ConfInd

LEMMA RefreshOneInd == ASSUME ConfInd, NEW b \in Accounts, RefreshOne(b) PROVE ConfInd'
<1>1. /\ TypeOK /\ shown = NoView /\ ~refreshing[b] /\ refreshing[b] \in BOOLEAN
      /\ UNCHANGED <<list, incomplete, posted, screen, batch, health, login, steam>>
    BY DEF RefreshOne, InFrame, ConfInd, TypeOK
<1>2. \A a : LinksKeep(a)
    BY <1>1 DEF LinksKeep, Alone
<1>3. /\ Locks' /\ job' \in [Slots -> Jobs] /\ refreshing' \in [Accounts -> BOOLEAN]
      /\ \A u \in Slots : job'[u] = job[u] \/ job'[u] = Fetch(b)
  <2> DEFINE busy == FALSE
  <2>1. busy \in BOOLEAN /\ StartRefresh(b, busy) /\ busy = refreshing[b]
    BY <1>1 DEF RefreshOne
  <2> HIDE DEF busy
  <2> QED
    BY <1>1, <1>2, <2>1, RefreshStarts DEF ConfInd
<1>4. TypeOK'
    BY <1>1, <1>3 DEF TypeOK, screen, batch, health, login, steam
<1>5. Asked' /\ Arrived' /\ NothingMissing' /\ Spaced'
    BY <1>1, <1>3, FrameKept, SpacedKept DEF ConfInd, screen, Fetch
<1> QED
    BY <1>3, <1>4, <1>5 DEF ConfInd

LEMMA RefreshAllInd == ASSUME ConfInd, RefreshAll PROVE ConfInd'
<1>1. /\ TypeOK /\ shown = NoView /\ StartBatch
      /\ UNCHANGED <<list, refreshing, incomplete, posted, screen, health, login, steam>>
    BY DEF RefreshAll, InFrame, ConfInd
<1>2. \A a : LinksKeep(a)
    BY <1>1 DEF LinksKeep, Alone
<1>3. /\ Locks' /\ job' \in [Slots -> Jobs]
      /\ total' \in 0 .. Cardinality(Accounts) /\ done' \in 0 .. Cardinality(Accounts)
      /\ \A u \in Slots : job'[u] = job[u] \/ job'[u].kind = "batch"
    BY <1>1, <1>2, BatchStarts DEF ConfInd
<1>4. TypeOK'
    BY <1>1, <1>3 DEF TypeOK, screen, health, login, steam
<1>5. Asked' /\ Arrived' /\ NothingMissing' /\ Spaced'
    BY <1>1, <1>3, FrameKept, SpacedKept DEF ConfInd, screen
<1> QED
    BY <1>3, <1>4, <1>5 DEF ConfInd

LEMMA DrawInd == ASSUME ConfInd, NEW b \in Accounts, Draw(b) PROVE ConfInd'
<1>0. PICK f \in Filters :
         shown' = [acc |-> b, items |-> list[b], cards |-> list[b] \cap f, busy |-> refreshing[b]]
    BY DEF Draw
<1>1. /\ TypeOK /\ Locks
      /\ UNCHANGED <<list, refreshing, incomplete, job, posted, audit, batch, health, login, steam>>
    BY DEF Draw, ConfInd
<1>2. TypeOK'
  <2>1. list[b] \in SUBSET Confs /\ list[b] \cap f \in SUBSET Confs /\ refreshing[b] \in BOOLEAN
    BY <1>1 DEF TypeOK
  <2>2. shown' \in [acc : Accounts, items : SUBSET Confs, cards : SUBSET Confs, busy : BOOLEAN]
    BY <1>0, <2>1
  <2> QED
    BY <1>1, <2>2 DEF TypeOK, batch, health, login, steam
<1>3. Locks'
    BY <1>1, LocksSame
<1>4. Asked' /\ Arrived' /\ Spaced'
    BY <1>1, SpacedKept DEF ConfInd, Asked, AnswersAreAudited, Backed, Arrived, steam
<1>5. NothingMissing'
  <2>1. ASSUME ~refreshing[b], NEW u \in Slots, job[u].kind = "fetch" PROVE job[u].acc # b
    <3>1. job[u].acc = b => b \in Accounts \ Hopeless /\ u \in Held(b)
      BY <2>1, FetchAlone DEF Held
    <3> QED
      BY <1>1, <2>1, <3>1 DEF Locks, Locked
  <2>2. /\ shown'.acc = b /\ shown'.items = list[b] /\ shown'.busy = refreshing[b]
        /\ shown'.cards \subseteq shown'.items
    BY <1>0
  <2>3. Audited' = Audited
    BY <1>1 DEF Audited
  <2> QED
    BY <1>1, <2>1, <2>2, <2>3 DEF ConfInd, NothingMissing
<1> QED
    BY <1>2, <1>3, <1>4, <1>5 DEF ConfInd

\* A button of the copy that is shown.
LEMMA PressInd ==
    ASSUME ConfInd, shown # NoView, NEW S, S \subseteq shown.items, NEW yes \in BOOLEAN,
           NEW one \in BOOLEAN, NEW gone, Press(S, yes, one, gone)
    PROVE  /\ ConfInd' /\ audit' = audit \cup {Entry(c, yes, "user") : c \in S}
           /\ shown.acc \in Accounts
           /\ list' = [list EXCEPT ![shown.acc] = list[shown.acc] \ gone]
<1> DEFINE a == shown.acc
           j == Answer(a, S, yes, one)
<1>1. /\ TypeOK /\ shown' = NoView /\ audit' = audit \cup {Entry(c, yes, "user") : c \in S}
      /\ list' = [list EXCEPT ![a] = list[a] \ gone]
      /\ UNCHANGED <<refreshing, incomplete, posted, batch, health, login, steam>>
    BY DEF Press, ConfInd
<1>2. PICK s \in Slots : Submit(s, j)
    BY DEF Press
<1>3. a \in Accounts /\ S \subseteq Confs
    BY <1>1 DEF TypeOK
<1>4. /\ j \in Jobs /\ j.kind = "answer" /\ j.all = S /\ j.todo = S /\ j.allow = yes
    BY <1>3, JobsOf DEF Answer, AnswerJobs
<1> HIDE DEF a, j
<1>5. /\ job' \in [Slots -> Jobs] /\ job'[s] = j /\ job[s] = NoJob
      /\ \A u \in Slots \ {s} : job'[u] = job[u]
    BY <1>1, <1>2, <1>4, JobSet DEF Submit, TypeOK
<1>6. /\ list' \in [Accounts -> SUBSET Confs]
      /\ \A b \in Accounts : list'[b] \subseteq list[b]
    BY <1>1, <1>3 DEF TypeOK
<1>7. audit' \subseteq Entries /\ Backed(S, yes)'
  <2>1. \A c \in S : /\ Entry(c, yes, "user") \in Entries
                     /\ Entry(c, yes, "user").conf = c /\ Entry(c, yes, "user").allow = yes
                     /\ Entry(c, yes, "user").by = "user"
    BY <1>3 DEF Entry, Entries
  <2>2. ASSUME NEW e \in audit', e \notin audit PROVE e \in Entries
    <3>1. PICK c \in S : e = Entry(c, yes, "user")
      BY <1>1, <2>2
    <3> QED
      BY <2>1, <3>1
  <2>3. audit \subseteq Entries
    BY <1>1 DEF TypeOK
  <2>4. \A c \in S : Entry(c, yes, "user") \in audit'
    BY <1>1
  <2>5. \A c \in S : \E e \in audit' : e.conf = c /\ e.allow = yes /\ (e.by = "auto" => c \in AutoConfs)
    BY <2>1, <2>4
  <2>6. Backed(S, yes)'
    BY <2>5 DEF Backed
  <2> QED
    BY <2>2, <2>3, <2>6
<1>8. TypeOK'
    BY <1>1, <1>5, <1>6, <1>7 DEF TypeOK, batch, health, login, steam
<1>9. Locks'
    BY <1>1, <1>4, <1>5, LocksSame DEF ConfInd
<1>10. Asked' /\ Arrived' /\ NothingMissing'
  <2>1. \A u \in Slots : job'[u].kind = "fetch" => FetchKept(u)
    BY <1>1, <1>4, <1>5 DEF FetchKept
  <2>2. \A u \in Slots : job'[u].kind = "answer" => AnswerKept(u)
    BY <1>4, <1>5, <1>7 DEF AnswerKept, Backed
  <2>3. audit \subseteq audit'
    BY <1>1
  <2> QED
    BY <1>1, <1>6, <2>1, <2>2, <2>3, RestKept DEF ConfInd
<1> QED
    BY <1>1, <1>3, <1>8, <1>9, <1>10, SpacedKept DEF ConfInd, a

LEMMA UserInd == ASSUME ConfInd, User PROVE ConfInd'
<1>1. ASSUME NEW yes \in BOOLEAN,
             \/ PressAll(yes) \/ (\E c \in Confs : PressCard(c, yes))
             \/ (\E S \in SUBSET Confs \ {{}} : PressSelected(S, yes))
      PROVE  ConfInd'
  <2>1. TRUE \in BOOLEAN /\ FALSE \in BOOLEAN
    OBVIOUS
  <2>2. CASE PressAll(yes)
    BY <2>1, <2>2, PressInd DEF PressAll
  <2>3. ASSUME NEW c \in Confs, PressCard(c, yes) PROVE ConfInd'
    <3>1. shown # NoView /\ {c} \subseteq shown.items /\ Press({c}, yes, TRUE, {c})
      BY <2>3 DEF PressCard, ConfInd, NothingMissing
    <3> QED
      BY <2>1, <3>1, PressInd
  <2>4. ASSUME NEW S, PressSelected(S, yes) PROVE ConfInd'
    BY <2>1, <2>4, PressInd DEF PressSelected
  <2> QED
    BY <1>1, <2>2, <2>3, <2>4
<1> QED
    BY <1>1, RefreshAllInd, ScanFolderInd, RefreshOneInd, LinkMafileInd, DrawInd DEF User

LEMMA FrameEndsInd == ASSUME ConfInd, FrameEnds PROVE ConfInd'
<1>1. /\ TypeOK /\ shown' = NoView
      /\ UNCHANGED <<list, refreshing, incomplete, job, posted, audit, batch, health, login, steam>>
    BY DEF FrameEnds, ConfInd
<1>2. TypeOK'
    BY <1>1 DEF TypeOK, batch, health, login, steam
<1>3. Asked' /\ Arrived' /\ NothingMissing'
    BY <1>1, RestKept DEF ConfInd, FetchKept, AnswerKept
<1> QED
    BY <1>1, <1>2, <1>3, LocksSame, SpacedKept DEF ConfInd

LEMMA PollInd == ASSUME ConfInd, Poll PROVE ConfInd'
<1>1. /\ TypeOK /\ posted' = Append(posted, [kind |-> "poll"])
      /\ UNCHANGED <<list, refreshing, incomplete, job, screen, batch, health, login, steam>>
    BY DEF Poll, Post, ConfInd
<1>2. [kind |-> "poll"] \in Callbacks
    BY DEF Callbacks
<1>3. PostKeeps
    BY <1>1, <1>2 DEF PostKeeps
<1>4. posted' \in Seq(Callbacks) /\ \A a : LinksKeep(a)
    BY <1>1, <1>3, KeptLinks DEF TypeOK, LinksKeep
<1>5. Locks'
    BY <1>1, <1>4, LocksQuiet DEF ConfInd, Holds, Locks
<1>6. TypeOK'
    BY <1>1, <1>4 DEF TypeOK, screen, batch, health, login, steam
<1>7. Asked' /\ Arrived' /\ NothingMissing'
    BY <1>1, RestKept DEF ConfInd, screen, FetchKept, AnswerKept
<1> QED
    BY <1>1, <1>5, <1>6, <1>7, SpacedKept DEF ConfInd

LEMMA CooldownEndsInd == ASSUME ConfInd, NEW b \in Accounts, CooldownEnds(b) PROVE ConfInd'
<1>1. /\ TypeOK /\ cooling' = cooling \ {b}
      /\ UNCHANGED <<list, refreshing, incomplete, job, posted, screen, batch,
                     failures, permanent, login, steam>>
    BY DEF CooldownEnds, ConfInd
<1>2. TypeOK'
    BY <1>1 DEF TypeOK, screen, batch, login, steam
<1>3. Asked' /\ Arrived' /\ NothingMissing'
    BY <1>1, RestKept DEF ConfInd, screen, FetchKept, AnswerKept
<1> QED
    BY <1>1, <1>2, <1>3, LocksSame, SpacedKept DEF ConfInd

LEMMA LimiterEndsInd == ASSUME ConfInd, NEW b \in Accounts, LimiterEnds(b) PROVE ConfInd'
<1>1. /\ TypeOK /\ limited' = limited \ {b} /\ logins' = [logins EXCEPT ![b] = 0]
      /\ UNCHANGED <<list, refreshing, incomplete, job, posted, screen, batch, health, steam>>
    BY DEF LimiterEnds, ConfInd
<1>2. TypeOK'
    BY <1>1 DEF TypeOK, screen, batch, health, steam
<1>3. Asked' /\ Arrived' /\ NothingMissing'
    BY <1>1, RestKept DEF ConfInd, screen, FetchKept, AnswerKept
<1>4. Spaced'
    BY <1>1 DEF ConfInd, Spaced, TypeOK
<1> QED
    BY <1>1, <1>2, <1>3, <1>4, LocksSame DEF ConfInd

LEMMA ArrivesInd == ASSUME ConfInd, NEW c \in Confs, Arrives(c) PROVE ConfInd'
<1>1. /\ TypeOK /\ arrived' = arrived \cup {c} /\ waiting' = waiting \cup {c}
      /\ UNCHANGED <<list, refreshing, incomplete, job, posted, screen, batch, health,
                     login, verdict>>
    BY DEF Arrives, ConfInd
<1>2. TypeOK'
    BY <1>1 DEF TypeOK, screen, batch, health, login
<1>3. Asked' /\ NothingMissing'
    BY <1>1 DEF ConfInd, Asked, AnswersAreAudited, Backed, NothingMissing, Audited, screen
<1>4. Arrived'
    BY <1>1 DEF ConfInd, Arrived
<1> QED
    BY <1>1, <1>2, <1>3, <1>4, LocksSame, SpacedKept DEF ConfInd

-------------------------------------------------------------------------------
(* The inductive invariant. *)

LEMMA ConfIndInit == Init => ConfInd
<1> SUFFICES ASSUME Init PROVE ConfInd
    OBVIOUS
<1>1. NoJob \in Jobs /\ NoJob.kind = "none" /\ \A s \in Slots : job[s] = NoJob
    BY JobsOf DEF Init, NoJob
<1>2. Cardinality(Accounts) \in Nat
    BY FS_CardinalityType
<1>3. TypeOK
  <2>1. posted \in Seq(Callbacks)
    BY EmptySeq DEF Init
  <2> QED
    BY <1>1, <1>2, <2>1 DEF Init, TypeOK
<1>4. Locks
  <2>1. \A a : Held(a) = {}
    BY <1>1 DEF Held, Holds
  <2>2. \A a : LinkedAt(posted, a) = {}
    BY DEF Init, LinkedAt
  <2> QED
    BY <1>1, <2>1, <2>2 DEF Init, Locks, Locked
<1>5. Asked /\ Arrived /\ NothingMissing
    BY <1>1 DEF Init, Asked, AnswersAreAudited, Arrived, NothingMissing
<1>6. Spaced
    BY DEF Init, Spaced
<1> QED
    BY <1>3, <1>4, <1>5, <1>6 DEF ConfInd

LEMMA ConfIndStep == ConfInd /\ [Next]_vars => ConfInd'
<1> SUFFICES ASSUME ConfInd, [Next]_vars PROVE ConfInd'
    OBVIOUS
<1>1. CASE Next
    BY <1>1, WorkerInd, RunCallbackInd, FrameEndsInd, UserInd, PollInd, CooldownEndsInd,
       LimiterEndsInd, ArrivesInd DEF Next, Unattended
<1>2. CASE UNCHANGED vars
  <2>1. TypeOK'
    BY <1>2 DEF ConfInd, TypeOK, vars
  <2>2. Asked' /\ Arrived' /\ NothingMissing'
    BY <1>2, RestKept DEF ConfInd, vars, steam, FetchKept, AnswerKept
  <2>3. Locks' /\ Spaced'
    BY <1>2, LocksSame, SpacedKept DEF ConfInd, vars, login
  <2> QED
    BY <2>1, <2>2, <2>3 DEF ConfInd
<1> QED
    BY <1>1, <1>2

\* The lists, the locks, the answers and the copy that is shown agree in every state.
THEOREM ConfAlways == Spec => []ConfInd
    BY ConfIndInit, ConfIndStep, PTL DEF Spec

-------------------------------------------------------------------------------
(* What the runs check. *)

LEMMA LocksMean == ASSUME TypeOK, Locks PROVE FlagIsTheLock
<1>1. ASSUME NEW a \in Accounts \ Hopeless
      PROVE  IF refreshing[a] THEN \E h \in Behind(a) : Behind(a) = {h} ELSE Behind(a) = {}
  <2>1. Behind(a) = {<<"job", s>> : s \in Held(a)} \cup
                    {<<"callback", i>> : i \in LinkedAt(posted, a)}
    <3>1. /\ Held(a) = {u \in Slots : job[u].kind \in {"fetch", "link"} /\ job[u].acc = a}
          /\ LinkedAt(posted, a) = {k \in 1..Len(posted) :
                                       posted[k] = [kind |-> "linked", acc |-> a]}
      BY DEF Held, Holds, LinkedAt, Linked
    <3> QED
      BY <3>1 DEF Behind
  <2>2. CASE Held(a) = {} /\ LinkedAt(posted, a) = {} /\ ~refreshing[a]
    BY <2>1, <2>2
  <2>3. ASSUME NEW s \in Slots, Held(a) = {s}, LinkedAt(posted, a) = {}, refreshing[a]
        PROVE  \E h \in Behind(a) : Behind(a) = {h}
    <3>1. Behind(a) = {<<"job", s>>}
      BY <2>1, <2>3
    <3> QED
      BY <3>1
  <2>4. ASSUME NEW i \in Nat, Held(a) = {}, LinkedAt(posted, a) = {i}, refreshing[a]
        PROVE  \E h \in Behind(a) : Behind(a) = {h}
    <3>1. Behind(a) = {<<"callback", i>>}
      BY <2>1, <2>4
    <3> QED
      BY <3>1
  <2> QED
    BY <2>2, <2>3, <2>4 DEF Locks, Locked, Alone
<1>2. \A s \in Slots : job[s].kind = "fetch" => job[s].acc \notin Hopeless
    BY DEF Locks
<1> QED
    BY <1>1, <1>2 DEF FlagIsTheLock

\* The flag of a list is set exactly when one fetch, one maFile being linked or one
\* callback that becomes a fetch is behind it, and no account logs in twice in five
\* minutes, whatever the order of its workers and callbacks.
THEOREM FlagLocks == Spec => []ConfInv
<1>1. ConfInd => ConfInv
  <2>1. ASSUME Spaced, TypeOK PROVE LoginsAreSpaced
    <3> SUFFICES ASSUME NEW a \in Accounts PROVE logins[a] <= 1
      BY DEF LoginsAreSpaced
    <3>1. logins[a] \in 0 .. 2
      BY <2>1 DEF TypeOK
    <3>2. logins[a] <= IF a \in limited THEN 1 ELSE 0
      BY <2>1 DEF Spaced
    <3> QED
      BY <3>1, <3>2
  <2> QED
    BY <2>1, LocksMean DEF ConfInd, ConfInv
<1> QED
    BY <1>1, ConfAlways, PTL

\* Steam was told nothing that the audit log does not say was asked, through every
\* retry, nonce, login and chunk.
THEOREM AnswersSafe == Spec => []AnswersAreAudited
<1>1. ConfInd => AnswersAreAudited
    BY DEF ConfInd, Asked
<1> QED
    BY <1>1, ConfAlways, PTL

LEMMA DropsAnswered ==
    ASSUME ConfInd, [Next]_vars
    PROVE  \A a \in Accounts : list[a] \ list'[a] \subseteq {e.conf : e \in audit'}
<1>1. CASE UNCHANGED list
    BY <1>1
<1>2. ASSUME NEW s \in Slots, Install(s)
      PROVE  \A a \in Accounts : list[a] \ list'[a] \subseteq {e.conf : e \in audit'}
  <2> DEFINE b == job[s].acc
  <2>1. /\ list' = IF job[s].ok THEN [list EXCEPT ![b] = job[s].got] ELSE list
        /\ audit' = audit /\ job[s].kind = "fetch" /\ job[s].phase = "install"
    BY <1>2 DEF Install, At, screen
  <2>2. job[s].ok => list[b] \ job[s].got \subseteq Audited
    BY <2>1 DEF ConfInd, NothingMissing
  <2>3. list \in [Accounts -> SUBSET Confs]
    BY DEF ConfInd, TypeOK
  <2> QED
    BY <2>1, <2>2, <2>3 DEF Audited
<1>3. ASSUME RunCallback, Head(posted).kind = "fetched", AfterFetch(Head(posted))
      PROVE  \A a \in Accounts : list[a] \ list'[a] \subseteq {e.conf : e \in audit'}
  <2> DEFINE m == Head(posted)
  <2>1. TypeOK /\ m \in Callbacks
    BY <1>3, CallbackTaken
  <2>2. PICK picks \in SUBSET (list[m.acc] \cap AutoConfs) :
           /\ audit' = audit \cup {Entry(c, TRUE, "auto") : c \in picks}
           /\ list' = [list EXCEPT ![m.acc] = list[m.acc] \ picks]
    BY <1>3, <2>1, PicksAnswered
  <2>3. \A c \in picks : Entry(c, TRUE, "auto") \in audit'
    BY <2>2
  <2>4. \A c \in picks : Entry(c, TRUE, "auto").conf = c
    BY DEF Entry
  <2>5. \A c \in picks : c \in {e.conf : e \in audit'}
    BY <2>3, <2>4
  <2>6. \A a \in Accounts : list[a] \ list'[a] \subseteq picks
    BY <2>1, <2>2 DEF TypeOK
  <2> QED
    BY <2>5, <2>6
<1>4. ASSUME shown # NoView, NEW S, NEW yes \in BOOLEAN, NEW gone,
             audit' = audit \cup {Entry(c, yes, "user") : c \in S},
             list' = [list EXCEPT ![shown.acc] = list[shown.acc] \ gone],
             list[shown.acc] \cap gone \subseteq S
      PROVE  \A a \in Accounts : list[a] \ list'[a] \subseteq {e.conf : e \in audit'}
  <2>1. \A c \in S : Entry(c, yes, "user") \in audit'
    BY <1>4
  <2>2. \A c \in S : Entry(c, yes, "user").conf = c
    BY DEF Entry
  <2>3. \A c \in S : c \in {e.conf : e \in audit'}
    BY <2>1, <2>2
  <2>4. \A a \in Accounts : list[a] \ list'[a] \subseteq S
    BY <1>4 DEF ConfInd, TypeOK
  <2> QED
    BY <2>3, <2>4
<1>5. ASSUME NEW yes \in BOOLEAN, PressAll(yes)
      PROVE  \A a \in Accounts : list[a] \ list'[a] \subseteq {e.conf : e \in audit'}
  <2>1. list[shown.acc] \subseteq shown.items /\ shown # NoView
    BY <1>5 DEF PressAll, ConfInd, NothingMissing
  <2>2. /\ audit' = audit \cup {Entry(c, yes, "user") : c \in shown.items}
        /\ list' = [list EXCEPT ![shown.acc] = list[shown.acc] \ Confs]
    BY <1>5 DEF PressAll, Press
  <2>3. \A c \in shown.items : Entry(c, yes, "user") \in audit'
    BY <2>2
  <2>4. \A c \in shown.items : Entry(c, yes, "user").conf = c
    BY DEF Entry
  <2>5. \A c \in shown.items : c \in {e.conf : e \in audit'}
    BY <2>3, <2>4
  <2>6. \A a \in Accounts : list[a] \ list'[a] \subseteq shown.items
    BY <2>1, <2>2 DEF ConfInd, TypeOK
  <2> QED
    BY <2>5, <2>6
<1>6. ASSUME NEW yes \in BOOLEAN, NEW S, PressSelected(S, yes)
      PROVE  \A a \in Accounts : list[a] \ list'[a] \subseteq {e.conf : e \in audit'}
  <2>1. /\ shown # NoView /\ audit' = audit \cup {Entry(c, yes, "user") : c \in S}
        /\ list' = [list EXCEPT ![shown.acc] = list[shown.acc] \ S]
    BY <1>6 DEF PressSelected, Press
  <2> QED
    BY <1>4, <2>1
<1>7. ASSUME NEW yes \in BOOLEAN, NEW c, PressCard(c, yes)
      PROVE  \A a \in Accounts : list[a] \ list'[a] \subseteq {e.conf : e \in audit'}
  <2>1. /\ shown # NoView /\ audit' = audit \cup {Entry(d, yes, "user") : d \in {c}}
        /\ list' = [list EXCEPT ![shown.acc] = list[shown.acc] \ {c}]
    BY <1>7 DEF PressCard, Press
  <2> QED
    BY <1>4, <2>1
<1>8. ASSUME NEW s \in Slots, Worker(s) PROVE UNCHANGED list \/ Install(s)
    BY <1>8 DEF Worker, BatchStep, FetchAnswered, Relogin, AnswerSent, LinkLoaded, ScanStep
<1>9. ASSUME RunCallback
      PROVE  UNCHANGED list \/ (Head(posted).kind = "fetched" /\ AfterFetch(Head(posted)))
    BY <1>9 DEF RunCallback
<1>10. ASSUME User
       PROVE  \/ UNCHANGED list
              \/ \E yes \in BOOLEAN : \/ PressAll(yes) \/ (\E c \in Confs : PressCard(c, yes))
                                      \/ (\E S \in SUBSET Confs \ {{}} : PressSelected(S, yes))
    BY <1>10 DEF User, RefreshAll, ScanFolder, RefreshOne, LinkMafile, Draw
<1>11. ASSUME \/ FrameEnds \/ Poll \/ (\E a \in Accounts : CooldownEnds(a) \/ LimiterEnds(a))
              \/ (\E c \in Confs : Arrives(c)) \/ UNCHANGED vars
       PROVE  UNCHANGED list
    BY <1>11 DEF FrameEnds, Poll, CooldownEnds, LimiterEnds, Arrives, vars
<1>12. CASE \E s \in Slots : Worker(s)
    BY <1>1, <1>2, <1>8, <1>12
<1>13. CASE RunCallback
    BY <1>1, <1>3, <1>9, <1>13
<1>14. CASE User
    BY <1>1, <1>5, <1>6, <1>7, <1>10, <1>14
<1> QED
    BY <1>1, <1>11, <1>12, <1>13, <1>14 DEF Next, Unattended

\* A confirmation leaves a list only when the audit log has an answer to it: the
\* buttons that empty a list answer all of the copy they belong to, shown or hidden
\* by the type filter, and nothing else is in the list by then.
THEOREM NothingDropped == Spec => NothingDropsUnanswered
<1>1. ConfInd /\ [Next]_vars =>
          [\A a \in Accounts : list[a] \ list'[a] \subseteq {e.conf : e \in audit'}]_vars
    BY DropsAnswered
<1> QED
    BY <1>1, ConfAlways, PTL DEF Spec, NothingDropsUnanswered
================================================================================
