----------------------------- MODULE Confirmations -----------------------------
(***************************************************************************)
(* The mobile confirmations: the lists the screen shows, the jobs that     *)
(* fetch them and that answer them, the callbacks those jobs post to the   *)
(* frame thread, and the batch counters the background poller reads.       *)
(*   - `list`, `refreshing` are g_lists, written under its mutex by the    *)
(*     workers and by the frame thread;                                    *)
(*   - a worker job sits in a slot: it runs one network call, or one block *)
(*     under the mutex, per step;                                          *)
(*   - the frame thread draws an account's section from a copy of its list *)
(*     (`shown`), the user presses a button of that copy, and callbacks    *)
(*     run first-in first-out between two frames; those posted after a     *)
(*     frame's drain still wait when it draws;                             *)
(*   - `waiting` is what Steam holds for an account, `verdict` what Steam  *)
(*     was told. Steam is external: it may answer a call in any way.       *)
(* Left out: the wording of errors, the toasts and the pending total they  *)
(* are computed from, and the tokens a login returns                       *)
(* (TradeOffers models those, and their way back into the vault).          *)
(***************************************************************************)
EXTENDS Integers, Sequences, FiniteSets

CONSTANTS Accounts,       \* accounts with a Steam Guard record
          Confs,          \* confirmations that may arrive at Steam
          Owner,          \* the account a confirmation belongs to
          AutoConfs,      \* of a type the user lets the program approve
          Filters,        \* what each entry of the "Type" combo lets through
          Hopeless,       \* no usable session and no stored password
          NoMafile,       \* identity_secret or device_id missing at first
          Threshold,      \* permanent_failure_threshold
          BulkCap,        \* kBulkChunkCap
          MaxAudit,       \* presses stop at this many entries (bound of the model)
          Slots,          \* worker jobs in flight (bound of the model)
          MaxPosted       \* callbacks waiting when the poller posts its last, and
                          \* when the user acts (bound of the model)

ASSUME ConfirmationsAssumption ==
    /\ IsFiniteSet(Accounts)
    /\ Owner \in [Confs -> Accounts]
    /\ AutoConfs \subseteq Confs
    /\ Filters \subseteq SUBSET Confs /\ Confs \in Filters
    /\ Hopeless \subseteq Accounts /\ NoMafile \subseteq Accounts
    /\ {Threshold, BulkCap, MaxAudit, MaxPosted} \subseteq Nat \ {0}

VARIABLES list, refreshing, job, posted, shown, total, done,
          cooling, failures, permanent, incomplete, limited, logins,
          waiting, arrived, verdict, audit

vars == <<list, refreshing, job, posted, shown, total, done,
          cooling, failures, permanent, incomplete, limited, logins,
          waiting, arrived, verdict, audit>>

batch  == <<total, done>>
health == <<cooling, failures, permanent>>
login  == <<limited, logins>>
steam  == <<waiting, arrived, verdict>>
screen == <<shown, audit>>

NoJob  == [kind |-> "none"]
NoView == [acc |-> "none"]

Fetch(a) == [kind |-> "fetch", acc |-> a, phase |-> "run"]
Answer(a, S, yes, one) ==
    [kind |-> "answer", acc |-> a, all |-> S, todo |-> S, allow |-> yes,
     single |-> one, phase |-> "send"]

Submit(s, j)   == job[s] = NoJob /\ job' = [job EXCEPT ![s] = j]
Drop(s)        == job' = [job EXCEPT ![s] = NoJob]
GoTo(s, p)     == job' = [job EXCEPT ![s].phase = p]
At(s, k, P)    == job[s].kind = k /\ job[s].phase \in P
Post(m)        == posted' = Append(posted, m)
InFrame        == shown = NoView /\ Len(posted) <= MaxPosted   \* posted since the drain
Entry(c, yes, who) == [conf |-> c, allow |-> yes, by |-> who]

Entries   == [conf : Confs, allow : BOOLEAN, by : {"auto", "user"}]
Callbacks ==
    [kind : {"refresh", "linked", "merged"}, acc : Accounts] \cup [kind : {"poll"}]
    \cup [kind : {"fetched"}, acc : Accounts, ok : BOOLEAN, sess : BOOLEAN]
Jobs ==
    {NoJob} \cup [kind : {"link"}, acc : Accounts]
    \cup [kind : {"batch", "scan"}, rest : SUBSET Accounts]
    \cup [kind : {"fetch"}, acc : Accounts, phase : {"run", "login", "rerun"}]
    \cup [kind : {"fetch"}, acc : Accounts, phase : {"install"}, ok : BOOLEAN,
          sess : BOOLEAN, got : SUBSET Confs]
    \cup [kind : {"answer"}, acc : Accounts, all : SUBSET Confs, todo : SUBSET Confs,
          allow : BOOLEAN, single : BOOLEAN, phase : {"send", "nonce", "login", "rerun"}]

TypeOK ==
    /\ job \in [Slots -> Jobs] /\ posted \in Seq(Callbacks)
    /\ shown \in {NoView} \cup [acc : Accounts, items : SUBSET Confs,
                               cards : SUBSET Confs, busy : BOOLEAN]
    /\ list \in [Accounts -> SUBSET Confs] /\ refreshing \in [Accounts -> BOOLEAN]
    /\ total \in 0 .. Cardinality(Accounts) /\ done \in 0 .. Cardinality(Accounts)
    /\ cooling \subseteq Accounts /\ permanent \subseteq Accounts
    /\ failures \in [Accounts -> 0 .. Threshold] /\ incomplete \subseteq NoMafile
    /\ limited \subseteq Accounts /\ logins \in [Accounts -> 0 .. 2]
    /\ waiting \subseteq arrived /\ arrived \subseteq Confs
    /\ verdict \in [Confs -> {"none", "allow", "deny"}]
    /\ audit \subseteq Entries

Init ==
    /\ list = [a \in Accounts |-> {}]
    /\ refreshing = [a \in Accounts |-> FALSE]
    /\ job = [s \in Slots |-> NoJob]
    /\ posted = <<>> /\ shown = NoView
    /\ total = 0 /\ done = 0
    /\ cooling = {} /\ permanent = {} /\ limited = {}
    /\ failures = [a \in Accounts |-> 0]
    /\ logins = [a \in Accounts |-> 0]
    /\ incomplete = NoMafile
    /\ waiting = {} /\ arrived = {}
    /\ verdict = [c \in Confs |-> "none"]
    /\ audit = {}
-----------------------------------------------------------------------------
(* submit_account_refresh, on the frame thread, when the flag reads        *)
(* `busy`: of its four ways out only the last starts a fetch.              *)
(* Mutant: the flag is not looked at. *)
StartRefresh_mutant(a, busy) ==
    /\ refreshing' = [refreshing EXCEPT ![a] = TRUE]
    /\ \E s \in Slots : Submit(s, Fetch(a))
StartRefresh(a, busy) ==
    IF a \in Hopeless \cup cooling \/ busy
    THEN /\ refreshing' = [refreshing EXCEPT ![a] = a \notin Hopeless /\ busy]
         /\ UNCHANGED job
    ELSE /\ refreshing' = [refreshing EXCEPT ![a] = TRUE]
         /\ \E s \in Slots : Submit(s, Fetch(a))

(* refresh_all: one batch of the accounts that are neither cooling nor     *)
(* written off; its counters start before its first fetch does.            *)
StartBatch ==
    LET wanted == Accounts \ (permanent \cup cooling) IN
    IF wanted = {} THEN UNCHANGED <<batch, job>>
    ELSE /\ total' = Cardinality(wanted) /\ done' = 0
         /\ \E s \in Slots : Submit(s, [kind |-> "batch", rest |-> wanted])

(* What is left of a batch or a scan after account a: nothing ends the job. *)
RestAfter(j, a) == IF j.rest = {a} THEN NoJob ELSE [j EXCEPT !.rest = @ \ {a}]

(* The batch job posts one callback per account, a pause apart. *)
BatchStep(s) ==
    /\ job[s].kind = "batch"
    /\ \E a \in job[s].rest :
         /\ Post([kind |-> "refresh", acc |-> a])
         /\ job' = [job EXCEPT ![s] = RestAfter(@, a)]
    /\ UNCHANGED <<list, refreshing, incomplete, screen, batch, health, login, steam>>
-----------------------------------------------------------------------------
(* A fetch: Steam's answer, at most one login when the session is refused, *)
(* a second answer, then the block under the mutex that ends it. `sess`    *)
(* says that what is left is a session error.                              *)
Fetched(s, ok, sess, got) ==
    job' = [job EXCEPT ![s] = [kind |-> "fetch", acc |-> @.acc, phase |-> "install",
                               ok |-> ok, sess |-> sess, got |-> got]]

FetchAnswered(s) ==
    /\ At(s, "fetch", {"run", "rerun"})
    /\ LET a == job[s].acc IN
         \/ a \notin incomplete /\ Fetched(s, TRUE, FALSE, {c \in waiting : Owner[c] = a})
         \/ Fetched(s, FALSE, FALSE, {})
         \/ /\ a \notin incomplete /\ job[s].phase = "run"
            /\ IF a \in limited THEN Fetched(s, FALSE, FALSE, {}) ELSE GoTo(s, "login")
         \/ a \notin incomplete /\ job[s].phase = "rerun" /\ Fetched(s, FALSE, TRUE, {})
    /\ UNCHANGED <<list, refreshing, incomplete, posted, screen, batch, health,
                   login, steam>>

(* The five-minute limiter of auto_relogin. *)
RateLimited(a)  == a \in limited

(* auto_relogin: no password, or an attempt less than five minutes ago,    *)
(* and it gives up; otherwise the limiter is set before Steam is asked.    *)
Relogin(s) ==
    /\ At(s, "fetch", {"login"}) \/ At(s, "answer", {"login"})
    /\ LET a == job[s].acc
           fails == IF job[s].kind = "fetch" THEN Fetched(s, FALSE, FALSE, {}) ELSE Drop(s)
           works == job' = [job EXCEPT ![s] =
                       IF @.kind = "fetch" THEN [@ EXCEPT !.phase = "rerun"]
                       ELSE [@ EXCEPT !.phase = "rerun", !.todo = job[s].all]]
       IN \/ fails /\ UNCHANGED login
          \/ /\ ~RateLimited(a)
             /\ limited' = limited \cup {a}
             /\ logins' = [logins EXCEPT ![a] = @ + 1]
             /\ fails \/ works
    /\ UNCHANGED <<list, refreshing, incomplete, posted, screen, batch, health, steam>>

(* The list becomes what Steam answered, however long ago that was. *)
Install(s) ==
    /\ At(s, "fetch", {"install"})
    /\ LET j == job[s] IN
         /\ refreshing' = [refreshing EXCEPT ![j.acc] = FALSE]
         /\ list' = IF j.ok THEN [list EXCEPT ![j.acc] = j.got] ELSE list
         /\ Post([kind |-> "fetched", acc |-> j.acc, ok |-> j.ok, sess |-> j.sess])
         /\ Drop(s)
    /\ UNCHANGED <<incomplete, screen, batch, health, login, steam>>
-----------------------------------------------------------------------------
(* An answer: one call for one confirmation, or one per chunk of a bulk    *)
(* answer. Steam may take all of a call, or take part of it and have its   *)
(* reply lost, or refuse it.                                               *)
Took(S, yes) ==
    /\ waiting' = waiting \ S
    /\ verdict' = [c \in Confs |-> IF c \in S THEN IF yes THEN "allow" ELSE "deny"
                                   ELSE verdict[c]]
    /\ UNCHANGED arrived

Chunks(S) == {C \in SUBSET S : Cardinality(C) = IF Cardinality(S) < BulkCap
                                                THEN Cardinality(S) ELSE BulkCap}

TodoAfter(j, C) == IF j.todo = C THEN NoJob ELSE [j EXCEPT !.todo = @ \ C]

LoginOrGiveUp(s) == IF job[s].acc \in limited THEN Drop(s) ELSE GoTo(s, "login")

AnswerSent(s) ==
    /\ At(s, "answer", {"send", "nonce", "rerun"})
    /\ \E C \in Chunks(job[s].todo) :
         \/ /\ C \subseteq waiting /\ Took(C, job[s].allow)
            /\ job' = [job EXCEPT ![s] = TodoAfter(@, C)]
         \/ \E T \in SUBSET (C \cap waiting) : Took(T, job[s].allow) /\ Drop(s)
         \/ job[s].phase # "rerun" /\ LoginOrGiveUp(s) /\ UNCHANGED steam
         \/ /\ job[s].single /\ job[s].phase = "send"     \* fetch again for a new nonce
            /\ IF C \subseteq waiting THEN GoTo(s, "nonce") ELSE Drop(s)
            /\ UNCHANGED steam
    /\ UNCHANGED <<list, refreshing, incomplete, posted, screen, batch, health, login>>
-----------------------------------------------------------------------------
(* link_mafile_for_account: the spinner is shown for the file's sake, and  *)
(* the fetch it stands for is started by the callback.                     *)
LinkMafile(a) ==
    /\ InFrame /\ a \in incomplete /\ ~refreshing[a]
    /\ refreshing' = [refreshing EXCEPT ![a] = TRUE]
    /\ \E s \in Slots : Submit(s, [kind |-> "link", acc |-> a])
    /\ UNCHANGED <<list, incomplete, posted, screen, batch, health, login, steam>>

LinkLoaded(s) ==
    /\ job[s].kind = "link" /\ Drop(s)
    /\ \/ Post([kind |-> "linked", acc |-> job[s].acc]) /\ UNCHANGED refreshing
       \/ refreshing' = [refreshing EXCEPT ![job[s].acc] = FALSE] /\ UNCHANGED posted
    /\ UNCHANGED <<list, incomplete, screen, batch, health, login, steam>>

(* scan_folder_for_mafiles: one scan at a time; each file that matches one *)
(* of the accounts it set out for posts a callback.                        *)
ScanFolder ==
    /\ InFrame /\ incomplete # {} /\ \A s \in Slots : job[s].kind # "scan"
    /\ \E s \in Slots : Submit(s, [kind |-> "scan", rest |-> incomplete])
    /\ UNCHANGED <<list, refreshing, incomplete, posted, screen, batch, health,
                   login, steam>>

ScanStep(s) ==
    /\ job[s].kind = "scan"
    /\ \/ \E a \in job[s].rest :
            /\ Post([kind |-> "merged", acc |-> a])
            /\ job' = [job EXCEPT ![s] = RestAfter(@, a)]
       \/ Drop(s) /\ UNCHANGED posted
    /\ UNCHANGED <<list, refreshing, incomplete, screen, batch, health, login, steam>>
-----------------------------------------------------------------------------
(* should_auto_approve, over the list as it is now. *)
(* Mutant: the type of a confirmation is not looked at. *)
AutoPicks_mutant(a) == list[a]
AutoPicks(a) == list[a] \cap AutoConfs

(* The callback of a fetch: the cooldown, the batch, the failures, then    *)
(* what the program approves by itself.                                    *)
AfterFetch(m) ==
    LET a     == m.acc
        picks == IF m.ok THEN AutoPicks(a) ELSE {}
        worse == IF failures[a] < Threshold THEN failures[a] + 1 ELSE failures[a]
        n     == IF done < Cardinality(Accounts) THEN done + 1 ELSE done
    IN  /\ cooling' = cooling \cup {a}
        /\ failures' = [failures EXCEPT ![a] = IF m.ok THEN 0 ELSE IF m.sess THEN worse ELSE @]
        /\ permanent' = IF m.ok THEN permanent \ {a}
                        ELSE IF m.sess /\ worse >= Threshold THEN permanent \cup {a}
                        ELSE permanent
        /\ \E f \in [picks -> {s \in Slots : job[s] = NoJob}] :
             /\ \A c, d \in picks : f[c] = f[d] => c = d
             /\ job' = [s \in Slots |->
                          IF \E c \in picks : f[c] = s
                          THEN Answer(a, {CHOOSE c \in picks : f[c] = s}, TRUE, TRUE)
                          ELSE job[s]]
        /\ audit' = audit \cup {Entry(c, TRUE, "auto") : c \in picks}
        /\ list' = [list EXCEPT ![a] = @ \ picks]
        /\ done' = n
        /\ total' = IF n >= total THEN 0 ELSE total

(* Between two frames the oldest callback runs. *)
RunCallback ==
    /\ shown = NoView /\ posted # <<>> /\ posted' = Tail(posted)
    /\ LET m == Head(posted) IN
         \/ /\ m.kind = "refresh" /\ StartRefresh(m.acc, refreshing[m.acc])
            /\ UNCHANGED <<list, incomplete, audit, batch, health>>
         \/ /\ m.kind = "poll" /\ StartBatch
            /\ UNCHANGED <<list, refreshing, incomplete, audit, health>>
         \/ /\ m.kind = "linked" /\ StartRefresh(m.acc, FALSE)
            /\ incomplete' = incomplete \ {m.acc}
            /\ UNCHANGED <<list, audit, batch, health>>
         \/ /\ m.kind = "merged" /\ incomplete' = incomplete \ {m.acc}
            /\ UNCHANGED <<list, refreshing, job, audit, batch, health>>
         \/ m.kind = "fetched" /\ AfterFetch(m) /\ UNCHANGED <<refreshing, incomplete>>
    /\ UNCHANGED <<shown, login, steam>>
-----------------------------------------------------------------------------
(* A frame draws an account's section from a copy of its list: of that, the *)
(* cards the type filter lets through, and no section when it lets none.    *)
Draw(a) ==
    /\ InFrame
    /\ list[a] # {} \/ refreshing[a]
    /\ \E f \in Filters :
         /\ f = Confs \/ list[a] \cap f # {}
         /\ shown' = [acc |-> a, items |-> list[a], cards |-> list[a] \cap f,
                      busy |-> refreshing[a]]
    /\ UNCHANGED <<list, refreshing, incomplete, job, posted, audit, batch, health,
                   login, steam>>

FrameEnds ==
    /\ shown # NoView /\ shown' = NoView
    /\ UNCHANGED <<list, refreshing, incomplete, job, posted, audit, batch, health,
                   login, steam>>

(* What a press does: one job for the items answered, an audit entry for   *)
(* each, and `gone` leave the list.                                        *)
Press(S, yes, one, gone) ==
    LET a == shown.acc IN
    /\ Cardinality(audit) < MaxAudit
    /\ \E s \in Slots : Submit(s, Answer(a, S, yes, one))
    /\ audit' = audit \cup {Entry(c, yes, "user") : c \in S}
    /\ list' = [list EXCEPT ![a] = @ \ gone]
    /\ shown' = NoView
    /\ UNCHANGED <<refreshing, incomplete, posted, batch, health, login, steam>>

(* "Approve all" and "Deny all" answer the whole copy, the cards that the  *)
(* filter hides included, and empty the list, whatever it holds by then;   *)
(* they are disabled while the copy says a fetch is running.               *)
(* Mutant: only the cards that are shown are answered. *)
PressAll_mutant(yes) ==
    /\ shown # NoView /\ ~shown.busy /\ shown.items # {}
    /\ Press(shown.cards, yes, FALSE, Confs)
PressAll(yes) ==
    /\ shown # NoView /\ ~shown.busy /\ shown.items # {}
    /\ Press(shown.items, yes, FALSE, Confs)

(* What is selected stays so while the filter hides it; a card has buttons *)
(* of its own.                                                             *)
PressSelected(S, yes) == shown # NoView /\ S \subseteq shown.items /\ Press(S, yes, FALSE, S)
PressCard(c, yes)     == shown # NoView /\ c \in shown.cards /\ Press({c}, yes, TRUE, {c})

RefreshOne(a) ==
    /\ InFrame /\ ~refreshing[a] /\ a \notin cooling
    /\ StartRefresh(a, FALSE)
    /\ UNCHANGED <<list, incomplete, posted, screen, batch, health, login, steam>>

RefreshAll ==
    /\ InFrame /\ StartBatch
    /\ UNCHANGED <<list, refreshing, incomplete, posted, screen, health, login, steam>>

(* The poller's tick: not while a batch is short of its total. *)
Poll ==
    /\ ~(total > 0 /\ done < total)
    /\ Len(posted) < MaxPosted /\ Post([kind |-> "poll"])
    /\ UNCHANGED <<list, refreshing, incomplete, job, screen, batch, health, login, steam>>
-----------------------------------------------------------------------------
(* Time, and Steam. *)
CooldownEnds(a) ==
    /\ a \in cooling /\ cooling' = cooling \ {a}
    /\ UNCHANGED <<list, refreshing, incomplete, job, posted, screen, batch,
                   failures, permanent, login, steam>>

LimiterEnds(a) ==
    /\ a \in limited /\ limited' = limited \ {a}
    /\ logins' = [logins EXCEPT ![a] = 0]
    /\ UNCHANGED <<list, refreshing, incomplete, job, posted, screen, batch, health, steam>>

Arrives(c) ==
    /\ c \notin arrived /\ arrived' = arrived \cup {c} /\ waiting' = waiting \cup {c}
    /\ UNCHANGED <<list, refreshing, incomplete, job, posted, screen, batch, health,
                   login, verdict>>

Worker(s) ==
    \/ BatchStep(s) \/ FetchAnswered(s) \/ Relogin(s) \/ Install(s)
    \/ AnswerSent(s) \/ LinkLoaded(s) \/ ScanStep(s)

User ==
    \/ RefreshAll \/ ScanFolder
    \/ \E a \in Accounts : RefreshOne(a) \/ LinkMafile(a) \/ Draw(a)
    \/ \E yes \in BOOLEAN :
         \/ PressAll(yes)
         \/ \E c \in Confs : PressCard(c, yes)
         \/ \E S \in SUBSET Confs \ {{}} : PressSelected(S, yes)

(* All that goes on without the user. *)
Unattended ==
    \/ \E s \in Slots : Worker(s)
    \/ RunCallback \/ FrameEnds \/ Poll
    \/ \E a \in Accounts : CooldownEnds(a) \/ LimiterEnds(a)
    \/ \E c \in Confs : Arrives(c)

Next == Unattended \/ User

Spec == Init /\ [][Next]_vars
-----------------------------------------------------------------------------
(* What Steam was told of a confirmation is what the audit log says was    *)
(* asked, by the user or, for a type he lets the program approve, by the   *)
(* program: through every retry, second nonce, login and chunk of a bulk   *)
(* answer.                                                                 *)
AnswersAreAudited ==
    \A c \in Confs : verdict[c] # "none" =>
        \E e \in audit : /\ e.conf = c /\ verdict[c] = IF e.allow THEN "allow" ELSE "deny"
                         /\ e.by = "auto" => c \in AutoConfs

(* The refreshing flag is the lock of an account's list: when it is set    *)
(* exactly one fetch, one maFile being linked or one callback that will    *)
(* turn into a fetch is behind it, and when it is clear none is.  Only of  *)
(* a hopeless account the flag is cleared under a maFile being linked      *)
(* (confirmations_screen.cpp:104): it has no fetch to lock out.            *)
Behind(a) ==
    {<<"job", s>> : s \in {u \in Slots : job[u].kind \in {"fetch", "link"} /\ job[u].acc = a}}
    \cup {<<"callback", i>> : i \in {k \in 1..Len(posted) :
                                        posted[k] = [kind |-> "linked", acc |-> a]}}
FlagIsTheLock ==
    /\ \A a \in Accounts \ Hopeless :
          IF refreshing[a] THEN \E h \in Behind(a) : Behind(a) = {h} ELSE Behind(a) = {}
    /\ \A s \in Slots : job[s].kind = "fetch" => job[s].acc \notin Hopeless

(* Several jobs of one account may find the session dead at the same time: *)
(* Steam still sees at most one login of it in five minutes.               *)
LoginsAreSpaced == \A a \in Accounts : logins[a] <= 1

(* A confirmation leaves an account's list because it was answered, or     *)
(* because a fetch no longer found it at Steam: the buttons that empty the *)
(* list, the selection and the cards drop nothing that was not in the copy *)
(* they answer, however old that copy is. (What the type filter hides is   *)
(* in that copy: "all" answers it unseen.)                                 *)
NothingDropsUnanswered ==
    [][\A a \in Accounts : list[a] \ list'[a] \subseteq {e.conf : e \in audit'}]_vars

(* Types, the lock of each list, and the spacing of the logins.            *)
ConfInv == TypeOK /\ FlagIsTheLock /\ LoginsAreSpaced
=============================================================================
