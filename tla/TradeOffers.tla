------------------------------ MODULE TradeOffers ------------------------------
(***************************************************************************)
(* Trade offers: the lists and flags per account (g_states, g_in_flight),  *)
(* the dialog that builds an offer (g_send), the worker tasks that fetch,  *)
(* answer, send and confirm, and the callbacks they post to the frame      *)
(* thread, which apply in order.                                           *)
(*   - A task holds copies of the account made when it was submitted. What *)
(*     matters of the copy is its session, of which Steam accepts some     *)
(*     (`dead` are the others). Sessions are numbered as they are made;    *)
(*     `tok` is the one in the vault, `newest` the last one made.          *)
(*   - Every call may be refused for its session, once; then the task logs *)
(*     in (at most every five minutes per account) and calls again.        *)
(*   - `made` counts the offers Steam created for a send, `conf` where its *)
(*     mobile confirmation is. An answer of Steam may be lost.             *)
(* Left out: wording, toasts, saved links, the search boxes and the number *)
(* on the rail.                                                            *)
(***************************************************************************)
EXTENDS Integers, Sequences, FiniteSets

CONSTANTS Traders,      \* accounts that can trade
          Offers,       \* incoming offers
          OfferTo,      \* the account an offer is made to
          Items,        \* tradable items of an account
          AutoConfirm,  \* settings.trade.auto_confirm_sent
          MaxSends,     \* offers built (bound of the model)
          MaxGen,       \* sessions made per account (bound of the model)
          Tasks,        \* tasks submitted and not over (bound of the model)
          MaxPresses    \* tasks the user starts (bound of the model)

ASSUME TradeAssumption ==
    /\ OfferTo \in [Offers -> Traders]
    /\ DOMAIN Items = Traders
    /\ \A a, b \in Traders : a # b => Items[a] \cap Items[b] = {}
    /\ AutoConfirm \in BOOLEAN
    /\ {MaxSends, MaxGen, MaxPresses} \subseteq Nat

VARIABLES received, fetching, cool, invLoading, invLoaded, inFlight, modal,
          tok, newest, dead, relogged, task, calls, offerAt, sends, made, conf,
          history, mixed, pressed

lists   == <<received, fetching, cool, invLoading, invLoaded, inFlight>>
session == <<tok, newest, dead, relogged>>
atSteam == <<offerAt, made, conf>>
trVars  == <<lists, modal, session, task, calls, atSteam, sends, history, mixed, pressed>>

Send  == 1..MaxSends
Gen   == 0..MaxGen
FreeTask  == [kind |-> "none", phase |-> "none"]
Closed == [open |-> FALSE, accounts |-> {}, selected |-> {}, ack |-> FALSE]

\* A task works on x = <<account, copy of its session, offer or send>>, then on S.
Task(k, x, S) ==
    [kind |-> k, acc |-> x[1], creds |-> x[2], seed |-> x[2], on |-> x[3], todo |-> S,
     phase |-> "call", result |-> "none", got |-> {}, log |-> {}, tries |-> 0]

Busy == {w \in Tasks : task[w].kind # "none"}
\* The accounts a task holds copies of.
Covers(j) == {j.acc} \cup {x[1] : x \in j.todo}
Tok(a, g) == [do |-> "tokens", acc |-> a, gen |-> g]
Outstanding(a, posted) ==
    \/ \E w \in Busy : a \in Covers(task[w])
    \/ \E i \in DOMAIN posted : posted[i].do \in {"tokens", "refresh"} /\ posted[i].acc = a

\* A task that holds two copies of an account: two of its offers in a bulk accept.
Twice(a, j) ==
    \/ j.acc = a /\ \E x \in j.todo : x[1] = a
    \/ \E x, y \in j.todo : x # y /\ x[1] = a /\ y[1] = a

TypeOfTrade ==
    /\ received \in [Traders -> SUBSET Offers]
    /\ {fetching, cool, invLoading, invLoaded, relogged, mixed} \subseteq [Traders -> BOOLEAN]
    /\ inFlight \subseteq Offers
    /\ modal \in [open : BOOLEAN, accounts : SUBSET Traders, ack : BOOLEAN,
                  selected : SUBSET UNION {Items[a] : a \in Traders}]
    /\ {tok, newest} \subseteq [Traders -> Gen] /\ dead \in [Traders -> SUBSET Gen]
    /\ \A w \in Busy : task[w].creds \in Gen /\ task[w].tries \in 0..3
    /\ offerAt \in [Offers -> {"active", "gone"}]
    /\ made \in [Send -> 0..2]
    /\ conf \in [Send -> {"none", "waiting", "listed", "confirmed"}]
    /\ Len(sends) <= MaxSends /\ pressed \in 0..MaxPresses

TradeInit ==
    /\ received = [a \in Traders |-> {}]
    /\ fetching = [a \in Traders |-> FALSE] /\ cool = fetching
    /\ invLoading = fetching /\ invLoaded = fetching
    /\ relogged = fetching /\ mixed = fetching
    /\ inFlight = {} /\ modal = Closed
    /\ tok = [a \in Traders |-> 0] /\ newest = tok
    /\ dead = [a \in Traders |-> {}]
    /\ task = [w \in Tasks |-> FreeTask] /\ calls = <<>>
    /\ offerAt = [o \in Offers |-> "active"]
    /\ sends = <<>> /\ made = [s \in Send |-> 0] /\ conf = [s \in Send |-> "none"]
    /\ history = [s \in Send |-> <<>>] /\ pressed = 0

------------------------------------------------------------------------------
\* The frame thread: submitting.

\* job_pump::submit. `mixed`: two copies of an account were outstanding at once.
Queue(j, posted) ==
    /\ \E w \in Tasks \ Busy : task' = [task EXCEPT ![w] = j]
    /\ mixed' = [a \in Traders |->
                   mixed[a] \/ (a \in Covers(j) /\ (Outstanding(a, posted) \/ Twice(a, j)))]

\* submit_account_refresh, with a copy g that may be older than the vault's.
MayFetch(a) == ~cool[a] /\ ~fetching[a]
StartFetch(a, g, posted) ==
    /\ fetching' = [fetching EXCEPT ![a] = TRUE]
    /\ Queue(Task("fetch", <<a, g, 0>>, {}), posted)

\* The user starts a task.
PressButton(j) == pressed < MaxPresses /\ pressed' = pressed + 1 /\ Queue(j, calls)

PressRefresh(a) ==
    /\ MayFetch(a) /\ StartFetch(a, tok[a], calls)
    /\ ~modal.open /\ pressed < MaxPresses /\ pressed' = pressed + 1
    /\ UNCHANGED <<received, cool, invLoading, invLoaded, inFlight, modal, session,
                   calls, atSteam, sends, history>>

Copies(A) == {<<a, tok[a], 0>> : a \in A}

\* refresh_all: copies now, one callback per account later.
PressRefreshAll ==
    /\ ~modal.open
    /\ \E x \in Copies({a \in Traders : ~cool[a]}) :
          PressButton(Task("sweep", x, Copies({a \in Traders : ~cool[a]}) \ {x}))
    /\ UNCHANGED <<lists, modal, session, calls, atSteam, sends, history>>

\* The inventory button of the dialog, disabled while a load runs.
PressLoad(a) ==
    /\ modal.open /\ modal.accounts = {a} /\ ~invLoading[a]
    /\ invLoading' = [invLoading EXCEPT ![a] = TRUE]
    /\ PressButton(Task("inventory", <<a, tok[a], 0>>, {}))
    /\ UNCHANGED <<received, fetching, cool, invLoaded, inFlight, modal, session,
                   calls, atSteam, sends, history>>

Pressable_mutant(o) == TRUE

\* A button of an offer's card: disabled while an action on the offer runs.
Pressable(o) == o \notin inFlight
PressOffer(o) ==
    LET a == OfferTo[o] IN
    /\ ~modal.open /\ o \in received[a] /\ Pressable(o)
    /\ inFlight' = inFlight \cup {o}
    /\ PressButton(Task("act", <<a, tok[a], o>>, {}))
    /\ UNCHANGED <<received, fetching, cool, invLoading, invLoaded, modal, session,
                   calls, atSteam, sends, history>>

\* bulk_accept_all: neither asks g_in_flight nor enters what it works on.
PressAcceptAll ==
    LET S == UNION {{<<a, tok[a], o>> : o \in received[a]} : a \in Traders} IN
    /\ ~modal.open
    /\ \E x \in S : PressButton(Task("bulkaccept", x, S \ {x}))
    /\ UNCHANGED <<lists, modal, session, calls, atSteam, sends, history>>

OpenModal(A) ==
    /\ ~modal.open /\ modal' = [Closed EXCEPT !.open = TRUE, !.accounts = A]
    /\ UNCHANGED <<lists, session, task, calls, atSteam, sends, history, mixed, pressed>>

CloseModal ==
    /\ modal.open /\ modal' = Closed
    /\ UNCHANGED <<lists, session, task, calls, atSteam, sends, history, mixed, pressed>>

ToggleAccount_mutant(m, a) == [m EXCEPT !.accounts = (@ \ {a}) \cup ({a} \ @)]

\* A click on an account's chip drops the items picked so far.
ToggleAccount(m, a) ==
    [m EXCEPT !.accounts = (@ \ {a}) \cup ({a} \ @), !.selected = {}]

ClickChip(a) ==
    /\ modal.open /\ modal' = ToggleAccount(modal, a)
    /\ UNCHANGED <<lists, session, task, calls, atSteam, sends, history, mixed, pressed>>

\* The grid shows what was loaded for the one chosen account.
ClickItem(i) ==
    /\ modal.open
    /\ \E a \in Traders :
          /\ modal.accounts = {a} /\ invLoaded[a] /\ i \in Items[a]
          /\ modal' = [modal EXCEPT !.selected = (@ \ {i}) \cup ({i} \ @)]
    /\ UNCHANGED <<lists, session, task, calls, atSteam, sends, history, mixed, pressed>>

Acknowledge ==
    /\ modal.open /\ Cardinality(modal.accounts) >= 2
    /\ modal' = [modal EXCEPT !.ack = ~@]
    /\ UNCHANGED <<lists, session, task, calls, atSteam, sends, history, mixed, pressed>>

PressSend ==
    \E a \in Traders :
        /\ modal.open /\ modal.accounts = {a} /\ modal.selected # {}
        /\ Len(sends) < MaxSends
        /\ sends' = Append(sends, [acc |-> a, items |-> modal.selected])
        /\ PressButton(Task("send", <<a, tok[a], Len(sends) + 1>>, {}))
        /\ modal' = Closed
        /\ UNCHANGED <<lists, session, calls, atSteam, history>>

\* bulk_send_all starts with the inventory of one account.
PressSendAll ==
    LET S == Copies(modal.accounts) IN
    /\ modal.open /\ Cardinality(S) >= 2 /\ modal.ack
    /\ \E x \in S : PressButton(Task("bulksend", x, S \ {x}))
    /\ modal' = Closed
    /\ UNCHANGED <<lists, session, calls, atSteam, sends, history>>

------------------------------------------------------------------------------
\* The workers.

\* What Steam does with a call: r is what the task is told.
Effect(j, r) ==
    CASE j.kind \in {"send", "bulksend"} /\ j.on # 0 ->
           \* A send that was told to have failed may have been carried out.
           /\ \/ r = "fail" /\ UNCHANGED <<made, conf>>
              \/ /\ made' = [made EXCEPT ![j.on] = @ + 1]
                 /\ \E c \in {"none", "waiting"} : conf' = [conf EXCEPT ![j.on] = c]
           /\ UNCHANGED offerAt
      [] j.kind \in {"act", "bulkaccept"} ->
           /\ r = "ok" => offerAt[j.on] = "active"
           /\ \/ r = "fail" /\ UNCHANGED offerAt
              \/ offerAt' = [offerAt EXCEPT ![j.on] = "gone"]
           /\ UNCHANGED <<made, conf>>
      [] OTHER -> UNCHANGED atSteam

FetchResult(j) == {o \in Offers : OfferTo[o] = j.acc /\ offerAt[o] = "active"}

\* A call with a session Steam accepts; an expired access token is renewed first.
Answered(w) ==
    LET j == task[w] IN
    /\ j.phase \in {"call", "again"} /\ j.kind # "sweep"
    /\ j.creds \notin dead[j.acc]
    /\ \E r \in {"ok", "fail"}, g \in {j.creds, newest[j.acc] + 1} \cap Gen :
          /\ Effect(j, r)
          /\ newest' = [newest EXCEPT ![j.acc] = IF g = j.creds THEN @ ELSE g]
          /\ task' = [task EXCEPT ![w].creds = g, ![w].result = r, ![w].phase = "end",
                                  ![w].got = IF j.kind = "fetch" /\ r = "ok"
                                             THEN FetchResult(j) ELSE {}]
    /\ UNCHANGED <<lists, modal, tok, dead, relogged, calls, sends, history, mixed, pressed>>

\* 401, 403 or no session: log in once, unless an attempt was made within five minutes.
AfterRefusal(j) == IF j.phase = "call" /\ ~relogged[j.acc] THEN "login" ELSE "end"
Refused(w) ==
    LET j == task[w] IN
    /\ j.phase \in {"call", "again"} /\ j.kind # "sweep"
    /\ j.creds \in dead[j.acc]
    /\ task' = [task EXCEPT ![w].phase = AfterRefusal(j), ![w].result = "fail"]
    /\ UNCHANGED <<lists, modal, session, calls, atSteam, sends, history, mixed, pressed>>

\* auto_relogin, which asks for the five minutes again under its own mutex.
MintTokens(w) ==
    LET j == task[w] a == j.acc IN
    /\ j.phase = "login"
    /\ \/ /\ ~relogged[a] /\ newest[a] < MaxGen
          /\ newest' = [newest EXCEPT ![a] = @ + 1]
          /\ task' = [task EXCEPT ![w].creds = newest'[a], ![w].phase = "again"]
          /\ calls' = Append(calls, Tok(a, newest'[a]))
       \/ /\ task' = [task EXCEPT ![w].phase = "end"]
          /\ UNCHANGED <<newest, calls>>
    /\ relogged' = [relogged EXCEPT ![a] = TRUE]
    /\ UNCHANGED <<lists, modal, tok, dead, atSteam, sends, history, mixed, pressed>>

Leave(w) == task' = [task EXCEPT ![w] = FreeTask]

TokensIfChanged_mutant(j) == <<>>

\* Fetches and inventory loads write tokens back only if they changed.
TokensIfChanged(j) == IF j.creds # j.seed THEN <<Tok(j.acc, j.creds)>> ELSE <<>>

EndFetch(w) ==
    LET j == task[w] IN
    /\ j.kind = "fetch" /\ j.phase = "end"
    /\ calls' = calls \o TokensIfChanged(j)
    /\ fetching' = [fetching EXCEPT ![j.acc] = FALSE]
    /\ cool' = [cool EXCEPT ![j.acc] = TRUE]
    /\ received' = [received EXCEPT ![j.acc] = IF j.result = "ok" THEN j.got ELSE @]
    /\ Leave(w)
    /\ UNCHANGED <<invLoading, invLoaded, inFlight, modal, session, atSteam, sends,
                   history, mixed, pressed>>

EndLoad(w) ==
    LET j == task[w] IN
    /\ j.kind = "inventory" /\ j.phase = "end"
    /\ calls' = calls \o TokensIfChanged(j)
    /\ invLoading' = [invLoading EXCEPT ![j.acc] = FALSE]
    /\ invLoaded' = [invLoaded EXCEPT ![j.acc] = @ \/ j.result = "ok"]
    /\ Leave(w)
    /\ UNCHANGED <<received, fetching, cool, inFlight, modal, session, atSteam, sends,
                   history, mixed, pressed>>

\* The worker leaves g_in_flight before the callback takes the offer off the list.
EndAct(w) ==
    LET j == task[w] IN
    /\ j.kind = "act" /\ j.phase = "end"
    /\ inFlight' = inFlight \ {j.on}
    /\ calls' = calls \o <<Tok(j.acc, j.creds)>> \o
                (IF j.result = "ok" THEN <<[do |-> "erase", acc |-> j.acc, on |-> j.on]>>
                 ELSE <<>>)
    /\ Leave(w)
    /\ UNCHANGED <<received, fetching, cool, invLoading, invLoaded, modal, session,
                   atSteam, sends, history, mixed, pressed>>


\* A bulk task goes on with the next of its list, or is over.
Onward(w, log, posts) ==
    LET j == task[w] IN
    IF j.todo # {}
    THEN /\ \E x \in j.todo :
              task' = [task EXCEPT ![w] = [Task(j.kind, x, j.todo \ {x}) EXCEPT !.log = log]]
         /\ calls' = calls \o posts
    ELSE /\ Leave(w)
         /\ calls' = calls \o posts \o <<[do |-> "bulkdone", log |-> log]>>

EndAccept(w) ==
    LET j == task[w] IN
    /\ j.kind = "bulkaccept" /\ j.phase = "end"
    /\ Onward(w, {}, <<Tok(j.acc, j.creds)>> \o
               (IF j.result = "ok" THEN <<[do |-> "erase", acc |-> j.acc, on |-> j.on]>>
                ELSE <<>>))
    /\ UNCHANGED <<lists, modal, session, atSteam, sends, history, mixed, pressed>>

\* The sweep posts one fetch per account, with the copy made at the click.
Sweep(w) ==
    LET j == task[w] post == [do |-> "refresh", acc |-> j.acc, gen |-> j.creds] IN
    /\ j.kind = "sweep"
    /\ calls' = Append(calls, post)
    /\ IF j.todo = {} THEN Leave(w)
       ELSE \E x \in j.todo : task' = [task EXCEPT ![w] = Task("sweep", x, j.todo \ {x})]
    /\ UNCHANGED <<lists, modal, session, atSteam, sends, history, mixed, pressed>>

\* bulk_send_all has an account's inventory: nothing to give, or a send of everything.
EndBulkLoad(w) ==
    LET j == task[w] IN
    /\ j.kind = "bulksend" /\ j.on = 0 /\ j.phase = "end"
    /\ \/ /\ Onward(w, j.log, TokensIfChanged(j)) /\ UNCHANGED sends
       \/ /\ j.result = "ok" /\ Items[j.acc] # {} /\ Len(sends) < MaxSends
          /\ sends' = Append(sends, [acc |-> j.acc, items |-> Items[j.acc]])
          /\ task' = [task EXCEPT ![w].on = Len(sends) + 1, ![w].phase = "call"]
          /\ calls' = calls \o TokensIfChanged(j)
    /\ UNCHANGED <<lists, modal, session, atSteam, history, mixed, pressed>>

Outcome(j, done) ==
    CASE j.result = "fail" -> "failed"
      [] j.result = "ok" /\ conf[j.on] = "none" -> "sent"
      [] OTHER -> IF done THEN "confirmed" ELSE "needs confirmation"

\* The end of a send: an audit entry, now or with the rest of the bulk task.
Recorded(w, done, posts) ==
    LET j == task[w] entry == <<j.on, Outcome(j, done)>> IN
    IF j.kind = "bulksend" THEN Onward(w, j.log \cup {entry}, posts)
    ELSE /\ Leave(w)
         /\ calls' = calls \o posts \o <<[do |-> "sent", acc |-> j.acc, log |-> {entry}]>>

ToConfirm(j) == j.result = "ok" /\ conf[j.on] # "none" /\ AutoConfirm

EndSend(w) ==
    LET j == task[w] IN
    /\ j.kind \in {"send", "bulksend"} /\ j.on # 0 /\ j.phase = "end"
    /\ IF ToConfirm(j)
       THEN /\ task' = [task EXCEPT ![w].phase = "confirm"]
            /\ calls' = Append(calls, Tok(j.acc, j.creds))
       ELSE Recorded(w, FALSE, <<Tok(j.acc, j.creds)>>)
    /\ UNCHANGED <<lists, modal, session, atSteam, sends, history, mixed, pressed>>

\* confirm_sent_offer looks for the trade confirmation created by this offer.
Pending(a) == {s \in DOMAIN sends : sends[s].acc = a /\ conf[s] = "listed"}
Matching(s) == Pending(sends[s].acc) \cap {s}

Confirm(w) ==
    LET j == task[w] IN
    /\ j.phase = "confirm"
    /\ \/ \E s \in Matching(j.on) :             \* found, answered, told so or not
            /\ conf' = [conf EXCEPT ![s] = "confirmed"]
            /\ \E told \in BOOLEAN : Recorded(w, told, <<>>)
       \/ Recorded(w, FALSE, <<>>) /\ UNCHANGED conf         \* an error
       \/ /\ Matching(j.on) = {}                             \* not there yet
          /\ IF j.tries < 2
             THEN task' = [task EXCEPT ![w].tries = @ + 1] /\ UNCHANGED calls
             ELSE Recorded(w, FALSE, <<>>)
          /\ UNCHANGED conf
    /\ UNCHANGED <<lists, modal, session, offerAt, made, sends, history, mixed, pressed>>

------------------------------------------------------------------------------
\* The frame thread: the callbacks.

ApplyTokens(c) ==
    /\ c.do = "tokens" /\ tok' = [tok EXCEPT ![c.acc] = c.gen]
    /\ UNCHANGED <<lists, newest, dead, relogged, task, history, mixed>>

\* The card's verb is answered; erase_offer drops the offer from the list.
ApplyErase(c) ==
    /\ c.do = "erase" /\ received' = [received EXCEPT ![c.acc] = @ \ {c.on}]
    /\ UNCHANGED <<fetching, cool, invLoading, invLoaded, inFlight, session, task,
                   history, mixed>>

ApplyRefresh(c) ==
    /\ c.do = "refresh"
    /\ IF MayFetch(c.acc) THEN StartFetch(c.acc, c.gen, Tail(calls))
       ELSE UNCHANGED <<fetching, task, mixed>>
    /\ UNCHANGED <<received, cool, invLoading, invLoaded, inFlight, session, history>>

WithLog(log) ==
    [s \in Send |-> history[s] \o (IF \E e \in log : e[1] = s
                                   THEN <<(CHOOSE e \in log : e[1] = s)[2]>> ELSE <<>>)]

\* The audit entry; after an offer was created the lists are fetched again at once.
ApplySent(c) ==
    /\ c.do = "sent" /\ history' = WithLog(c.log)
    /\ IF \A e \in c.log : e[2] = "failed"
       THEN UNCHANGED <<cool, fetching, task, mixed>>
       ELSE /\ cool' = [cool EXCEPT ![c.acc] = FALSE]
            /\ IF fetching[c.acc] THEN UNCHANGED <<fetching, task, mixed>>
               ELSE StartFetch(c.acc, tok[c.acc], Tail(calls))
    /\ UNCHANGED <<received, invLoading, invLoaded, inFlight, session>>

ApplyBulkDone(c) ==
    /\ c.do = "bulkdone" /\ history' = WithLog(c.log)
    /\ UNCHANGED <<lists, session, task, mixed>>

Apply ==
    /\ calls # <<>> /\ calls' = Tail(calls)
    /\ LET c == Head(calls) IN
       ApplyTokens(c) \/ ApplyErase(c) \/ ApplyRefresh(c) \/ ApplySent(c) \/ ApplyBulkDone(c)
    /\ UNCHANGED <<modal, atSteam, sends, pressed>>

------------------------------------------------------------------------------
\* Steam and time.

\* Steam no longer accepts the sessions made so far.
Expire(a) ==
    /\ 0..newest[a] # dead[a] /\ newest[a] < MaxGen
    /\ dead' = [dead EXCEPT ![a] = 0..newest[a]]
    /\ UNCHANGED <<lists, modal, tok, newest, relogged, task, calls, atSteam, sends,
                   history, mixed, pressed>>

\* The confirmation of an offer appears in the list.
ShowConf(s) ==
    /\ conf[s] = "waiting" /\ conf' = [conf EXCEPT ![s] = "listed"]
    /\ UNCHANGED <<lists, modal, session, task, calls, offerAt, made, sends, history, mixed, pressed>>

\* per_account_cooldown_seconds or the five minutes between logins are over.
TimePasses(a) ==
    /\ \/ cool[a] /\ cool' = [cool EXCEPT ![a] = FALSE] /\ UNCHANGED relogged
       \/ relogged[a] /\ relogged' = [relogged EXCEPT ![a] = FALSE] /\ UNCHANGED cool
    /\ UNCHANGED <<received, fetching, invLoading, invLoaded, inFlight, modal, tok, newest,
                   dead, task, calls, atSteam, sends, history, mixed, pressed>>

TaskStep(w) ==
    \/ Answered(w) \/ Refused(w) \/ MintTokens(w) \/ EndFetch(w) \/ EndLoad(w) \/ EndAct(w)
    \/ EndAccept(w) \/ Sweep(w) \/ EndBulkLoad(w) \/ EndSend(w) \/ Confirm(w)

TradeNext ==
    \/ \E a \in Traders : PressRefresh(a) \/ PressLoad(a) \/ ClickChip(a) \/ Expire(a) \/ TimePasses(a)
    \/ PressRefreshAll \/ PressAcceptAll \/ PressSend \/ PressSendAll
    \/ CloseModal \/ Acknowledge \/ Apply
    \/ \E o \in Offers : PressOffer(o)
    \/ \E A \in {{}} \cup {{a} : a \in Traders} : OpenModal(A)
    \/ \E i \in UNION {Items[a] : a \in Traders} : ClickItem(i)
    \/ \E w \in Tasks : TaskStep(w)
    \/ \E s \in Send : ShowConf(s)

TradeSpec == TradeInit /\ [][TradeNext]_trVars

------------------------------------------------------------------------------
(* Every offer the user built gives away items of the account it is sent   *)
(* from, is created at most once however often the call was repeated after *)
(* a login, and ends in exactly one entry of the history; until then a     *)
(* task or a callback will write it. What the entry says of an offer that  *)
(* was created is true, also when several offers wait for confirmation.    *)
OnItsWay(s) ==
    \/ \E w \in Busy : \/ task[w].kind \in {"send", "bulksend"} /\ task[w].on = s
                       \/ \E e \in task[w].log : e[1] = s
    \/ \E i \in DOMAIN calls :
          calls[i].do \in {"sent", "bulkdone"} /\ \E e \in calls[i].log : e[1] = s

EverySendAccounted ==
    \A s \in DOMAIN sends :
        /\ sends[s].items \subseteq Items[sends[s].acc] /\ sends[s].items # {}
        /\ made[s] <= 1
        /\ Len(history[s]) = (IF OnItsWay(s) THEN 0 ELSE 1)
        /\ history[s] = <<"sent">> => made[s] = 1 /\ conf[s] = "none"
        /\ history[s] = <<"needs confirmation">> => made[s] = 1 /\ conf[s] # "none"
        /\ history[s] = <<"confirmed">> => conf[s] = "confirmed"
        /\ conf[s] = "confirmed" => AutoConfirm

(* The flags the buttons are disabled by: an account is fetching, or its   *)
(* inventory loading, exactly while one task does it, and an offer is in   *)
(* flight exactly while one card's task works on it; so neither is stuck   *)
(* and none is done twice, whichever buttons were pressed meanwhile.       *)
Doing(k, a) == {w \in Busy : task[w].kind = k /\ task[w].acc = a}
Answering(o) == {w \in Busy : task[w].kind = "act" /\ task[w].on = o}

FlagsMatchTasks ==
    /\ \A a \in Traders :
          /\ Cardinality(Doing("fetch", a)) = (IF fetching[a] THEN 1 ELSE 0)
          /\ Cardinality(Doing("inventory", a)) = (IF invLoading[a] THEN 1 ELSE 0)
    /\ \A o \in Offers : Cardinality(Answering(o)) = (IF o \in inFlight THEN 1 ELSE 0)

(* When nothing of an account is outstanding, the vault holds the last     *)
(* session made for it: no login and no renewal of a task is lost on the   *)
(* way back. (Not so when two tasks of one account overlapped, or one bulk *)
(* accept holds two offers of it: each copy of the account is written back *)
(* when its work is over, the one with the older session too.)             *)
TokensSettle ==
    \A a \in Traders : ~Outstanding(a, calls) /\ ~mixed[a] => tok[a] = newest[a]

\* Types, and the flags of the screen are the tasks there are.
TradeInv == TypeOfTrade /\ FlagsMatchTasks
=============================================================================
