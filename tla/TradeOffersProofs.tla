--------------------------- MODULE TradeOffersProofs ---------------------------
(***************************************************************************)
(* The trade offers, for any accounts, offers, items and bounds:           *)
(*   - what every task, callback and record is (TradeTypes);               *)
(*   - the flags of the screen are the marks of the tasks (Flagged);       *)
(*   - as long as an account's copies are out one at a time, the newest    *)
(*     session made for it is in the copy, on its way back or in the vault *)
(*     (Settling);                                                         *)
(*   - a send is claimed by one task or one callback or written in the     *)
(*     history, and what is written of it is true (Accounted).             *)
(* Each part is proved to be kept by every step on its own; the shape      *)
(* lemmas in between say what a worker's step makes of its task and posts, *)
(* so that the last two parts need not look at the actions again.          *)
(***************************************************************************)
EXTENDS TradeOffers, FiniteSetTheorems, SequenceTheorems, TLAPS

-------------------------------------------------------------------------------
(***************************************************************************)
(* Trade offers: what every task and every callback is.                    *)
(***************************************************************************)
TraderItems == UNION {Items[a] : a \in Traders}
Outcomes == {"failed", "sent", "confirmed", "needs confirmation"}
Entries == Send \X Outcomes
SendKinds == {"send", "bulksend"}
OfferKinds == {"act", "bulkaccept"}
PlainKinds == {"fetch", "inventory", "sweep"}
Todo == Traders \X Gen \X (Offers \cup {0})

Jobs == [kind : SendKinds \cup OfferKinds \cup PlainKinds, acc : Traders, creds : Gen,
         seed : Gen, on : Offers \cup Send \cup {0}, todo : SUBSET Todo,
         phase : {"call", "again", "login", "end", "confirm"},
         result : {"none", "ok", "fail"}, got : SUBSET Offers, log : SUBSET Entries,
         tries : 0..3]

\* What a task of each kind works on, and what it has left.
KindOK(j) ==
    /\ j.kind \in PlainKinds => j.on = 0
    /\ j.kind \in OfferKinds => j.on \in Offers
    /\ j.kind \in SendKinds => j.on \in Send \cup {0}
    /\ j.kind = "send" => j.on \in Send
    /\ j.kind = "bulkaccept" => \A x \in j.todo : x[3] \in Offers
    /\ j.kind \in {"sweep", "bulksend"} => \A x \in j.todo : x[3] = 0
    /\ j.kind \in {"act", "send", "fetch", "inventory"} => j.todo = {}
    /\ j.kind = "sweep" => j.phase = "call"
    /\ j.phase = "confirm" => j.kind \in SendKinds /\ j.on \in Send
    /\ j.kind # "bulksend" => j.log = {}

Chores == {j \in Jobs : KindOK(j)}

TokenCalls == [do : {"tokens"}, acc : Traders, gen : Gen]
RefreshCalls == [do : {"refresh"}, acc : Traders, gen : Gen]
EraseCalls == [do : {"erase"}, acc : Traders, on : Offers]
SentCalls == [do : {"sent"}, acc : Traders, log : SUBSET Entries]
DoneCalls == [do : {"bulkdone"}, log : SUBSET Entries]
CallBacks == TokenCalls \cup RefreshCalls \cup EraseCalls \cup SentCalls \cup DoneCalls

Lists ==
    /\ received \in [Traders -> SUBSET Offers]
    /\ fetching \in [Traders -> BOOLEAN] /\ cool \in [Traders -> BOOLEAN]
    /\ invLoading \in [Traders -> BOOLEAN] /\ invLoaded \in [Traders -> BOOLEAN]
    /\ inFlight \subseteq Offers
Modals == [open : BOOLEAN, accounts : SUBSET Traders, ack : BOOLEAN, selected : SUBSET TraderItems]
Sessions ==
    /\ tok \in [Traders -> Gen] /\ newest \in [Traders -> Gen]
    /\ dead \in [Traders -> SUBSET Gen] /\ relogged \in [Traders -> BOOLEAN]
TasksOK == task \in [Tasks -> Chores \cup {FreeTask}]
CallsOK == calls \in Seq(CallBacks)
SteamOK ==
    /\ offerAt \in [Offers -> {"active", "gone"}]
    /\ made \in [Send -> Nat]
    /\ conf \in [Send -> {"none", "waiting", "listed", "confirmed"}]
SendsOK ==
    /\ sends \in Seq([acc : Traders, items : SUBSET TraderItems])
    /\ Len(sends) <= MaxSends /\ DOMAIN sends \subseteq Send
    /\ history \in [Send -> Seq(Outcomes)]
RestOK == mixed \in [Traders -> BOOLEAN] /\ pressed \in 0..MaxPresses /\ modal \in Modals

TradeTypes == Lists /\ Sessions /\ TasksOK /\ CallsOK /\ SteamOK /\ SendsOK /\ RestOK

LEMMA Numbers ==
    /\ MaxSends \in Nat /\ MaxGen \in Nat /\ MaxPresses \in Nat /\ 0 \in Gen
    /\ AutoConfirm \in BOOLEAN /\ OfferTo \in [Offers -> Traders]
    /\ \A a \in Traders : Items[a] \subseteq TraderItems
BY TradeAssumption DEF Gen, TraderItems

\* A free task is no chore, and a worker is busy when it has one.
LEMMA FreeIsFree == ASSUME TasksOK
                    PROVE  /\ \A w \in Tasks : w \in Busy <=> task[w] \in Chores
                           /\ \A w \in Tasks : w \notin Busy <=> task[w] = FreeTask
                           /\ Busy \subseteq Tasks
<1>1. \A j \in Chores : j.kind # "none"
    BY DEF Chores, Jobs, SendKinds, OfferKinds, PlainKinds
<1> QED
    BY <1>1 DEF TasksOK, Busy, FreeTask

\* A task as it is submitted.
LEMMA NewTask ==
    ASSUME NEW k \in SendKinds \cup OfferKinds \cup PlainKinds, NEW x, NEW S,
           x \in Traders \X Gen \X (Offers \cup Send \cup {0}), S \in SUBSET Todo,
           k \in PlainKinds => x[3] = 0, k \in OfferKinds => x[3] \in Offers,
           k = "bulksend" => x[3] = 0, k = "send" => x[3] \in Send,
           k = "bulkaccept" => \A y \in S : y[3] \in Offers,
           k \in {"sweep", "bulksend"} => \A y \in S : y[3] = 0,
           k \in {"act", "send", "fetch", "inventory"} => S = {}
    PROVE  /\ Task(k, x, S) \in Chores
           /\ \A L \in SUBSET Entries : k = "bulksend" \/ L = {} =>
                 [Task(k, x, S) EXCEPT !.log = L] \in Chores
<1>1. Task(k, x, S) \in Jobs
    BY DEF Task, Jobs
<1>2. KindOK(Task(k, x, S))
    BY DEF Task, KindOK, SendKinds, OfferKinds, PlainKinds
<1>3. ASSUME NEW L \in SUBSET Entries, k = "bulksend" \/ L = {}
      PROVE  [Task(k, x, S) EXCEPT !.log = L] \in Chores
  <2> DEFINE n == [Task(k, x, S) EXCEPT !.log = L]
  <2>1. n \in Jobs
    BY <1>1, <1>3 DEF Jobs
  <2>2. KindOK(n)
    BY <1>3 DEF Task, KindOK, SendKinds, OfferKinds, PlainKinds
  <2> QED
    BY <2>1, <2>2 DEF Chores
<1> QED
    BY <1>1, <1>2, <1>3 DEF Chores

\* What a task of each kind is about, unless it confirms, depends on four fields.
LEMMA SameKind ==
    ASSUME NEW j, KindOK(j), NEW n \in Jobs, n.kind = j.kind, n.on = j.on, n.todo = j.todo,
           n.log = j.log, n.phase # "confirm", n.kind # "sweep"
    PROVE  n \in Chores
<1>1. KindOK(n)
    BY DEF KindOK
<1> QED
    BY <1>1 DEF Chores

\* A chore that goes on: what the call was told, a login, a repetition.
LEMMA ChoreGoesOn ==
    ASSUME NEW j \in Chores
    PROVE  /\ \A g \in Gen, r \in {"ok", "fail"}, G \in SUBSET Offers : j.kind # "sweep" =>
                 [j EXCEPT !.creds = g, !.result = r, !.phase = "end", !.got = G] \in Chores
           /\ \A p \in {"login", "end"}, r \in {"ok", "fail"} : j.kind # "sweep" =>
                 [j EXCEPT !.phase = p, !.result = r] \in Chores
           /\ \A g \in Gen : j.kind # "sweep" => [j EXCEPT !.creds = g, !.phase = "again"] \in Chores
           /\ j.kind # "sweep" => [j EXCEPT !.phase = "end"] \in Chores
           /\ j.kind \in SendKinds /\ j.on \in Send => [j EXCEPT !.phase = "confirm"] \in Chores
           /\ \A s \in Send : j.kind = "bulksend" =>
                 [j EXCEPT !.on = s, !.phase = "call"] \in Chores
           /\ j.tries < 2 => [j EXCEPT !.tries = @ + 1] \in Chores
<1>0. j \in Jobs /\ KindOK(j)
    BY DEF Chores
<1>1. ASSUME NEW g \in Gen, NEW r \in {"ok", "fail"}, NEW G \in SUBSET Offers, j.kind # "sweep"
      PROVE  [j EXCEPT !.creds = g, !.result = r, !.phase = "end", !.got = G] \in Chores
  <2> DEFINE n == [j EXCEPT !.creds = g, !.result = r, !.phase = "end", !.got = G]
  <2>1. /\ n \in Jobs /\ n.kind = j.kind /\ n.on = j.on /\ n.todo = j.todo /\ n.log = j.log
        /\ n.phase = "end"
    BY <1>0 DEF Jobs
  <2> QED
    BY <1>0, <1>1, <2>1, SameKind
<1>2. ASSUME NEW p \in {"login", "end"}, NEW r \in {"ok", "fail"}, j.kind # "sweep"
      PROVE  [j EXCEPT !.phase = p, !.result = r] \in Chores
  <2> DEFINE n == [j EXCEPT !.phase = p, !.result = r]
  <2>1. /\ n \in Jobs /\ n.kind = j.kind /\ n.on = j.on /\ n.todo = j.todo /\ n.log = j.log
        /\ n.phase = p
    BY <1>0 DEF Jobs
  <2> QED
    BY <1>0, <1>2, <2>1, SameKind
<1>3. ASSUME NEW g \in Gen, j.kind # "sweep" PROVE [j EXCEPT !.creds = g, !.phase = "again"] \in Chores
  <2> DEFINE n == [j EXCEPT !.creds = g, !.phase = "again"]
  <2>1. /\ n \in Jobs /\ n.kind = j.kind /\ n.on = j.on /\ n.todo = j.todo /\ n.log = j.log
        /\ n.phase = "again"
    BY <1>0 DEF Jobs
  <2> QED
    BY <1>0, <1>3, <2>1, SameKind
<1>4. j.kind # "sweep" => [j EXCEPT !.phase = "end"] \in Chores
    BY DEF Chores, Jobs, KindOK, SendKinds
<1>5. j.kind \in SendKinds /\ j.on \in Send => [j EXCEPT !.phase = "confirm"] \in Chores
    BY DEF Chores, Jobs, KindOK, SendKinds
<1>6. ASSUME NEW s \in Send, j.kind = "bulksend"
      PROVE  [j EXCEPT !.on = s, !.phase = "call"] \in Chores
    BY <1>6 DEF Chores, Jobs, KindOK, SendKinds, OfferKinds, PlainKinds
<1>7. j.tries < 2 => [j EXCEPT !.tries = @ + 1] \in Chores
    BY DEF Chores, Jobs, KindOK
<1> QED
    BY <1>1, <1>2, <1>3, <1>4, <1>5, <1>6, <1>7
LEMMA CallsJoin ==
    ASSUME NEW p \in Seq(CallBacks), CallsOK
    PROVE  /\ calls \o p \in Seq(CallBacks)
           /\ \A c \in CallBacks : /\ <<c>> \in Seq(CallBacks) /\ Append(calls, c) \in Seq(CallBacks)
                                   /\ p \o <<c>> \in Seq(CallBacks)
                                   /\ (calls \o p) \o <<c>> \in Seq(CallBacks)
BY ConcatProperties, AppendProperties DEF CallsOK

\* One worker's task changes.
LEMMA OneTask ==
    ASSUME TasksOK, NEW w \in Tasks, NEW n \in Chores \cup {FreeTask},
           task' = [task EXCEPT ![w] = n]
    PROVE  TasksOK' /\ task'[w] = n /\ \A v \in Tasks \ {w} : task'[v] = task[v]
BY DEF TasksOK

LEMMA CallKinds ==
    /\ \A a \in Traders, g \in Gen : Tok(a, g) \in CallBacks
    /\ \A a \in Traders, g \in Gen : [do |-> "refresh", acc |-> a, gen |-> g] \in CallBacks
    /\ \A a \in Traders, o \in Offers : [do |-> "erase", acc |-> a, on |-> o] \in CallBacks
    /\ \A a \in Traders, L \in SUBSET Entries : [do |-> "sent", acc |-> a, log |-> L] \in CallBacks
    /\ \A L \in SUBSET Entries : [do |-> "bulkdone", log |-> L] \in CallBacks
    /\ <<>> \in Seq(CallBacks)
<1>1. \A a \in Traders, g \in Gen : Tok(a, g) \in TokenCalls
    BY DEF Tok, TokenCalls
<1>2. \A a \in Traders, g \in Gen : [do |-> "refresh", acc |-> a, gen |-> g] \in RefreshCalls
    BY DEF RefreshCalls
<1>3. \A a \in Traders, o \in Offers : [do |-> "erase", acc |-> a, on |-> o] \in EraseCalls
    BY DEF EraseCalls
<1>4. \A a \in Traders, L \in SUBSET Entries : [do |-> "sent", acc |-> a, log |-> L] \in SentCalls
    BY DEF SentCalls
<1>5. \A L \in SUBSET Entries : [do |-> "bulkdone", log |-> L] \in DoneCalls
    BY DEF DoneCalls
<1>6. <<>> \in Seq(CallBacks)
    BY EmptySeq
<1>7. /\ TokenCalls \subseteq CallBacks /\ RefreshCalls \subseteq CallBacks
      /\ EraseCalls \subseteq CallBacks /\ SentCalls \subseteq CallBacks /\ DoneCalls \subseteq CallBacks
    BY DEF CallBacks
<1> QED
    BY <1>1, <1>2, <1>3, <1>4, <1>5, <1>6, <1>7, Zenon

\* What a bulk task posts and what it becomes.
LEMMA OnwardTypes ==
    ASSUME TasksOK, CallsOK, NEW w \in Tasks, task[w] \in Chores,
           task[w].kind \in {"bulkaccept", "bulksend"},
           NEW L \in SUBSET Entries, task[w].kind = "bulkaccept" => L = {},
           NEW p \in Seq(CallBacks), Onward(w, L, p)
    PROVE  TasksOK' /\ CallsOK'
<1> DEFINE j == task[w]
<1>0. j \in Chores /\ j \in Jobs /\ KindOK(j) /\ j.kind \in {"bulkaccept", "bulksend"}
    BY DEF Chores
<1>1. CASE j.todo # {}
  <2>1. PICK x \in j.todo :
            task' = [task EXCEPT ![w] = [Task(j.kind, x, j.todo \ {x}) EXCEPT !.log = L]]
    BY <1>1 DEF Onward
  <2>2. calls' = calls \o p
    BY <1>1 DEF Onward
  <2>3. j.todo \in SUBSET Todo /\ x \in Todo
    BY <1>0 DEF Jobs
  <2> DEFINE n == Task(j.kind, x, j.todo \ {x})
  <2>4. [n EXCEPT !.log = L] \in Chores
    <3>1. x \in Traders \X Gen \X (Offers \cup Send \cup {0}) /\ j.todo \ {x} \in SUBSET Todo
        BY <2>3 DEF Todo
    <3>2. /\ j.kind \in SendKinds \cup OfferKinds \cup PlainKinds
          /\ j.kind \notin PlainKinds
          /\ j.kind \in OfferKinds => x[3] \in Offers
          /\ j.kind = "bulksend" => x[3] = 0
          /\ j.kind = "bulksend" \/ L = {}
          /\ j.kind # "send" /\ j.kind # "sweep" /\ j.kind \notin {"act", "send", "fetch", "inventory"}
          /\ j.kind = "bulkaccept" => \A y \in j.todo \ {x} : y[3] \in Offers
          /\ j.kind \in {"sweep", "bulksend"} => \A y \in j.todo \ {x} : y[3] = 0
        BY <1>0, <2>1 DEF KindOK, SendKinds, OfferKinds, PlainKinds
    <3> HIDE DEF j
    <3> QED
        BY <3>1, <3>2, NewTask
  <2> HIDE DEF n, j
  <2>5. TasksOK'
    BY <2>1, <2>4, OneTask DEF j, n
  <2>6. CallsOK'
    BY <2>2, CallsJoin DEF CallsOK
  <2> QED
    BY <2>5, <2>6
<1>2. CASE j.todo = {}
  <2>1. task' = [task EXCEPT ![w] = FreeTask]
        /\ calls' = calls \o p \o <<[do |-> "bulkdone", log |-> L]>>
    BY <1>2 DEF Onward, Leave
  <2> QED
    BY <2>1, OneTask, CallsJoin, CallKinds DEF CallsOK
<1> QED
    BY <1>1, <1>2

\* The end of a send.
LEMMA OutcomeTypes ==
    ASSUME SteamOK, NEW j \in Chores, j.on \in Send, NEW d \in BOOLEAN
    PROVE  <<j.on, Outcome(j, d)>> \in Entries
BY DEF Outcome, Entries, Outcomes

LEMMA RecordedTypes ==
    ASSUME TasksOK, CallsOK, SteamOK, NEW w \in Tasks, task[w] \in Chores,
           task[w].kind \in SendKinds, task[w].on \in Send, NEW d \in BOOLEAN,
           NEW p \in Seq(CallBacks), Recorded(w, d, p)
    PROVE  TasksOK' /\ CallsOK'
<1> DEFINE j == task[w]
           e == <<j.on, Outcome(j, d)>>
<1>0. j \in Chores /\ j \in Jobs /\ j.acc \in Traders /\ j.log \in SUBSET Entries
    BY DEF Chores, Jobs
<1>1. e \in Entries
    BY <1>0, OutcomeTypes
<1>2. CASE j.kind = "bulksend"
  <2>1. Onward(w, j.log \cup {e}, p)
    BY <1>2 DEF Recorded
  <2> HIDE DEF e
  <2> QED
    BY <1>0, <1>1, <1>2, <2>1, OnwardTypes
<1>3. CASE j.kind # "bulksend"
  <2>1. task' = [task EXCEPT ![w] = FreeTask]
        /\ calls' = calls \o p \o <<[do |-> "sent", acc |-> j.acc, log |-> {e}]>>
    BY <1>3 DEF Recorded, Leave
  <2> HIDE DEF e
  <2>2. TasksOK'
    BY <2>1, OneTask
  <2> DEFINE c == [do |-> "sent", acc |-> j.acc, log |-> {e}]
  <2>3. c \in CallBacks
    BY <1>0, <1>1, CallKinds
  <2> HIDE DEF c
  <2>4. calls' \in Seq(CallBacks)
    BY <2>1, <2>3, CallsJoin DEF c
  <2> QED
    BY <2>2, <2>4 DEF CallsOK
<1> QED
    BY <1>2, <1>3
LEMMA QueueTypes ==
    ASSUME TasksOK, mixed \in [Traders -> BOOLEAN], NEW j \in Chores, NEW p, Queue(j, p)
    PROVE  TasksOK' /\ mixed' \in [Traders -> BOOLEAN]
<1>1. PICK w \in Tasks \ Busy : task' = [task EXCEPT ![w] = j]
    BY DEF Queue
<1>2. TasksOK'
    BY <1>1, OneTask
<1>3. mixed' \in [Traders -> BOOLEAN]
    BY DEF Queue
<1> QED
    BY <1>2, <1>3

LEMMA PressTypes ==
    ASSUME TasksOK, RestOK, NEW j \in Chores, PressButton(j)
    PROVE  TasksOK' /\ mixed' \in [Traders -> BOOLEAN] /\ pressed' \in 0..MaxPresses
<1>1. Queue(j, calls)
    BY DEF PressButton
<1>2. TasksOK' /\ mixed' \in [Traders -> BOOLEAN]
    BY <1>1, QueueTypes DEF RestOK
<1>3. pressed' \in 0..MaxPresses
    BY Numbers DEF PressButton, RestOK
<1> QED
    BY <1>2, <1>3

\* The tasks the buttons submit.
LEMMA ButtonTasks ==
    ASSUME Lists, Sessions
    PROVE  /\ \A a \in Traders, k \in {"fetch", "inventory"}, g \in Gen :
                 Task(k, <<a, g, 0>>, {}) \in Chores
           /\ \A a \in Traders, o \in Offers : Task("act", <<a, tok[a], o>>, {}) \in Chores
           /\ \A a \in Traders, s \in Send : Task("send", <<a, tok[a], s>>, {}) \in Chores
           /\ \A A \in SUBSET Traders, k \in {"sweep", "bulksend"} : \A x \in Copies(A) :
                 Task(k, x, Copies(A) \ {x}) \in Chores
<1>1. ASSUME NEW a \in Traders, NEW k \in {"fetch", "inventory"}, NEW g \in Gen
      PROVE  Task(k, <<a, g, 0>>, {}) \in Chores
    BY NewTask, <<a, g, 0>> \in Traders \X Gen \X (Offers \cup Send \cup {0})
    DEF SendKinds, OfferKinds, PlainKinds
<1>2. ASSUME NEW a \in Traders, NEW o \in Offers PROVE Task("act", <<a, tok[a], o>>, {}) \in Chores
    BY NewTask, <<a, tok[a], o>> \in Traders \X Gen \X (Offers \cup Send \cup {0})
    DEF SendKinds, OfferKinds, PlainKinds, Sessions
<1>3. ASSUME NEW a \in Traders, NEW s \in Send PROVE Task("send", <<a, tok[a], s>>, {}) \in Chores
    BY NewTask, <<a, tok[a], s>> \in Traders \X Gen \X (Offers \cup Send \cup {0})
    DEF SendKinds, OfferKinds, PlainKinds, Sessions
<1>4. ASSUME NEW A \in SUBSET Traders, NEW k \in {"sweep", "bulksend"}, NEW x \in Copies(A)
      PROVE  Task(k, x, Copies(A) \ {x}) \in Chores
  <2>1. \A y \in Copies(A) : y \in Traders \X Gen \X {0}
    BY DEF Copies, Sessions
  <2>2. \A y \in Traders \X Gen \X {0} :
            y \in Todo /\ y \in Traders \X Gen \X (Offers \cup Send \cup {0}) /\ y[3] = 0
    BY DEF Todo
  <2>3. Copies(A) \ {x} \in SUBSET Todo /\ x \in Traders \X Gen \X (Offers \cup Send \cup {0})
        /\ x[3] = 0 /\ \A y \in Copies(A) \ {x} : y[3] = 0
    BY <2>1, <2>2
  <2> QED
    BY <2>3, NewTask DEF SendKinds, OfferKinds, PlainKinds
<1> QED
    BY <1>1, <1>2, <1>3, <1>4

AllOffers == UNION {{<<a, tok[a], o>> : o \in received[a]} : a \in Traders}

LEMMA AcceptTask ==
    ASSUME Lists, Sessions, NEW x \in AllOffers
    PROVE  /\ Task("bulkaccept", x, AllOffers \ {x}) \in Chores
           /\ \A y \in AllOffers : y \in Traders \X Gen \X Offers /\ y[2] = tok[y[1]]
                                   /\ y[3] \in received[y[1]]
<1>1. \A y \in AllOffers : \E a \in Traders : \E o \in received[a] : y = <<a, tok[a], o>>
    BY DEF AllOffers
<1>2. \A y \in AllOffers : y \in Traders \X Gen \X Offers /\ y[2] = tok[y[1]] /\ y[3] \in received[y[1]]
  <2> SUFFICES ASSUME NEW y \in AllOffers
               PROVE  y \in Traders \X Gen \X Offers /\ y[2] = tok[y[1]] /\ y[3] \in received[y[1]]
    OBVIOUS
  <2>1. PICK a \in Traders : \E o \in received[a] : y = <<a, tok[a], o>>
    BY <1>1
  <2>2. PICK o : o \in received[a] /\ y = <<a, tok[a], o>>
    BY <2>1
  <2>3. o \in Offers /\ tok[a] \in Gen
    BY <2>2 DEF Lists, Sessions
  <2> QED
    BY <2>2, <2>3
<1>3. \A y \in Traders \X Gen \X Offers :
          y \in Todo /\ y \in Traders \X Gen \X (Offers \cup Send \cup {0}) /\ y[3] \in Offers
    BY DEF Todo
<1>4. AllOffers \ {x} \in SUBSET Todo /\ x \in Traders \X Gen \X (Offers \cup Send \cup {0})
      /\ x[3] \in Offers /\ \A y \in AllOffers \ {x} : y[3] \in Offers
    BY <1>2, <1>3
<1>5. Task("bulkaccept", x, AllOffers \ {x}) \in Chores
    BY <1>4, NewTask DEF SendKinds, OfferKinds, PlainKinds
<1> QED
    BY <1>2, <1>5
LEMMA TypesRefresh == ASSUME TradeTypes, NEW a \in Traders, PressRefresh(a) PROVE TradeTypes'
<1>1. Task("fetch", <<a, tok[a], 0>>, {}) \in Chores
    BY ButtonTasks DEF TradeTypes, Sessions
<1>2. TasksOK' /\ mixed' \in [Traders -> BOOLEAN]
    BY <1>1, QueueTypes DEF TradeTypes, RestOK, PressRefresh, StartFetch
<1>3. pressed' \in 0..MaxPresses
    BY Numbers DEF TradeTypes, RestOK, PressRefresh
<1>4. fetching' = [fetching EXCEPT ![a] = TRUE]
      /\ UNCHANGED <<received, cool, invLoading, invLoaded, inFlight, modal>>
    BY DEF PressRefresh, StartFetch
<1>5. Lists' /\ RestOK'
    BY <1>2, <1>3, <1>4 DEF TradeTypes, Lists, RestOK
<1> QED
    BY <1>2, <1>5 DEF TradeTypes, PressRefresh, session, atSteam, Sessions, CallsOK, SteamOK, SendsOK

LEMMA TypesSweepAll == ASSUME TradeTypes, PressRefreshAll PROVE TradeTypes'
<1> DEFINE A == {a \in Traders : ~cool[a]}
<1>1. PICK x \in Copies(A) : PressButton(Task("sweep", x, Copies(A) \ {x}))
    BY DEF PressRefreshAll
<1>2. Task("sweep", x, Copies(A) \ {x}) \in Chores
    BY ButtonTasks DEF TradeTypes
<1>3. TasksOK' /\ mixed' \in [Traders -> BOOLEAN] /\ pressed' \in 0..MaxPresses
    BY <1>1, <1>2, PressTypes DEF TradeTypes
<1>4. UNCHANGED <<lists, modal, session, calls, atSteam, sends, history>>
    BY DEF PressRefreshAll
<1> QED
    BY <1>3, <1>4 DEF TradeTypes, lists, session, atSteam, Lists, Sessions, CallsOK, SteamOK, SendsOK, RestOK

LEMMA TypesLoad == ASSUME TradeTypes, NEW a \in Traders, PressLoad(a) PROVE TradeTypes'
<1>1. Task("inventory", <<a, tok[a], 0>>, {}) \in Chores
    BY ButtonTasks DEF TradeTypes, Sessions
<1>2. TasksOK' /\ mixed' \in [Traders -> BOOLEAN] /\ pressed' \in 0..MaxPresses
    BY <1>1, PressTypes DEF TradeTypes, PressLoad
<1>3. Lists' /\ RestOK'
    BY <1>2 DEF TradeTypes, Lists, RestOK, PressLoad
<1> QED
    BY <1>2, <1>3 DEF TradeTypes, PressLoad, session, atSteam, Sessions, CallsOK, SteamOK, SendsOK

LEMMA TypesOffer == ASSUME TradeTypes, NEW o \in Offers, PressOffer(o) PROVE TradeTypes'
<1> DEFINE a == OfferTo[o]
<1>0. a \in Traders
    BY Numbers
<1>1. Task("act", <<a, tok[a], o>>, {}) \in Chores
    BY <1>0, ButtonTasks DEF TradeTypes
<1>2. TasksOK' /\ mixed' \in [Traders -> BOOLEAN] /\ pressed' \in 0..MaxPresses
    BY <1>1, PressTypes DEF TradeTypes, PressOffer
<1>3. Lists' /\ RestOK'
    BY <1>2 DEF TradeTypes, Lists, RestOK, PressOffer
<1> QED
    BY <1>2, <1>3 DEF TradeTypes, PressOffer, session, atSteam, Sessions, CallsOK, SteamOK, SendsOK

LEMMA TypesAcceptAll == ASSUME TradeTypes, PressAcceptAll PROVE TradeTypes'
<1>1. PICK x \in AllOffers : PressButton(Task("bulkaccept", x, AllOffers \ {x}))
    BY DEF PressAcceptAll, AllOffers
<1>2. Task("bulkaccept", x, AllOffers \ {x}) \in Chores
    BY AcceptTask DEF TradeTypes
<1>3. TasksOK' /\ mixed' \in [Traders -> BOOLEAN] /\ pressed' \in 0..MaxPresses
    BY <1>1, <1>2, PressTypes DEF TradeTypes
<1>4. UNCHANGED <<lists, modal, session, calls, atSteam, sends, history>>
    BY DEF PressAcceptAll
<1> QED
    BY <1>3, <1>4 DEF TradeTypes, lists, session, atSteam, Lists, Sessions, CallsOK, SteamOK, SendsOK, RestOK

LEMMA TypesSendAll == ASSUME TradeTypes, PressSendAll PROVE TradeTypes'
<1> DEFINE A == modal.accounts
<1>0. A \in SUBSET Traders
    BY DEF TradeTypes, RestOK, Modals
<1>1. PICK x \in Copies(A) : PressButton(Task("bulksend", x, Copies(A) \ {x}))
    BY DEF PressSendAll
<1>2. Task("bulksend", x, Copies(A) \ {x}) \in Chores
  <2> HIDE DEF A
  <2> QED
    BY <1>0, <1>1, ButtonTasks DEF TradeTypes
<1>3. TasksOK' /\ mixed' \in [Traders -> BOOLEAN] /\ pressed' \in 0..MaxPresses
    BY <1>1, <1>2, PressTypes DEF TradeTypes
<1>4. UNCHANGED <<lists, session, calls, atSteam, sends, history>> /\ modal' \in Modals
    BY DEF PressSendAll, Closed, Modals
<1> QED
    BY <1>3, <1>4 DEF TradeTypes, lists, session, atSteam, Lists, Sessions, CallsOK, SteamOK, SendsOK, RestOK

LEMMA TypesSend == ASSUME TradeTypes, PressSend PROVE TradeTypes'
<1> DEFINE s == Len(sends) + 1
<1>1. PICK a \in Traders :
        /\ modal.open /\ modal.accounts = {a} /\ modal.selected # {}
        /\ Len(sends) < MaxSends
        /\ sends' = Append(sends, [acc |-> a, items |-> modal.selected])
        /\ PressButton(Task("send", <<a, tok[a], Len(sends) + 1>>, {}))
        /\ modal' = Closed
        /\ UNCHANGED <<lists, session, calls, atSteam, history>>
    BY DEF PressSend
<1>2. Len(sends) \in Nat /\ s \in Send
    BY <1>1, LenProperties, Numbers DEF TradeTypes, SendsOK, Send
<1>3. Task("send", <<a, tok[a], s>>, {}) \in Chores
    BY <1>2, ButtonTasks DEF TradeTypes
<1>4. TasksOK' /\ mixed' \in [Traders -> BOOLEAN] /\ pressed' \in 0..MaxPresses
    BY <1>1, <1>3, PressTypes DEF TradeTypes
<1>5. [acc |-> a, items |-> modal.selected] \in [acc : Traders, items : SUBSET TraderItems]
    BY DEF TradeTypes, RestOK, Modals
<1>6. /\ sends' \in Seq([acc : Traders, items : SUBSET TraderItems])
      /\ Len(sends') = s /\ DOMAIN sends' = 1..s
    BY <1>1, <1>2, <1>5, AppendProperties, LenProperties DEF TradeTypes, SendsOK
<1>7. SendsOK'
  <2>1. Len(sends') <= MaxSends /\ DOMAIN sends' \subseteq Send
    BY <1>1, <1>2, <1>6, Numbers DEF Send
  <2> QED
    BY <1>1, <1>6, <2>1 DEF SendsOK, TradeTypes
<1>8. modal' \in Modals
    BY <1>1 DEF Closed, Modals
<1> QED
    BY <1>1, <1>4, <1>7, <1>8 DEF TradeTypes, lists, session, atSteam, Lists, Sessions, CallsOK, SteamOK, RestOK
\* Steps that touch neither the tasks nor the callbacks.
LEMMA TypesScreen ==
    ASSUME TradeTypes,
           \/ \E A \in {{}} \cup {{a} : a \in Traders} : OpenModal(A)
           \/ CloseModal \/ (\E a \in Traders : ClickChip(a))
           \/ (\E i \in TraderItems : ClickItem(i)) \/ Acknowledge
    PROVE  TradeTypes'
<1>1. UNCHANGED <<lists, session, task, calls, atSteam, sends, history, mixed, pressed>>
    BY DEF OpenModal, CloseModal, ClickChip, ClickItem, Acknowledge
<1>2. modal \in Modals
    BY DEF TradeTypes, RestOK
<1>3. ASSUME NEW A \in {{}} \cup {{a} : a \in Traders}, OpenModal(A) PROVE modal' \in Modals
    BY <1>3 DEF OpenModal, Closed, Modals
<1>4. CloseModal => modal' \in Modals
    BY DEF CloseModal, Closed, Modals
<1>5. ASSUME NEW a \in Traders, ClickChip(a) PROVE modal' \in Modals
    BY <1>2, <1>5 DEF ClickChip, ToggleAccount, Modals
<1>6. ASSUME NEW i \in TraderItems, ClickItem(i) PROVE modal' \in Modals
    BY <1>2, <1>6 DEF ClickItem, Modals
<1>7. Acknowledge => modal' \in Modals
    BY <1>2 DEF Acknowledge, Modals
<1>8. modal' \in Modals
    BY <1>3, <1>4, <1>5, <1>6, <1>7
<1> QED
    BY <1>1, <1>8 DEF TradeTypes, lists, session, atSteam, Lists, Sessions, TasksOK, CallsOK, SteamOK, SendsOK, RestOK

LEMMA TypesExpire == ASSUME TradeTypes, NEW a \in Traders, Expire(a) PROVE TradeTypes'
<1>1. 0..newest[a] \in SUBSET Gen
    BY Numbers DEF TradeTypes, Sessions, Gen
<1>2. dead' \in [Traders -> SUBSET Gen]
    BY <1>1 DEF Expire, TradeTypes, Sessions
<1> QED
    BY <1>2 DEF Expire, TradeTypes, lists, atSteam, Lists, Sessions, TasksOK, CallsOK, SteamOK, SendsOK, RestOK

LEMMA TypesShow == ASSUME TradeTypes, NEW s \in Send, ShowConf(s) PROVE TradeTypes'
BY DEF ShowConf, TradeTypes, lists, session, Lists, Sessions, TasksOK, CallsOK, SteamOK, SendsOK, RestOK

LEMMA TypesTime == ASSUME TradeTypes, NEW a \in Traders, TimePasses(a) PROVE TradeTypes'
<1>1. Lists' /\ Sessions'
    BY DEF TimePasses, TradeTypes, Lists, Sessions
<1> QED
    BY <1>1 DEF TimePasses, TradeTypes, atSteam, TasksOK, CallsOK, SteamOK, SendsOK, RestOK
LEMMA EffectTypes ==
    ASSUME SteamOK, NEW j \in Chores, NEW r, Effect(j, r)
    PROVE  SteamOK'
<1>1. CASE j.kind \in {"send", "bulksend"} /\ j.on # 0
  <2>1. j.on \in Send
    BY <1>1 DEF Chores, KindOK, SendKinds
  <2>2. \/ UNCHANGED <<made, conf>>
        \/ /\ made' = [made EXCEPT ![j.on] = @ + 1]
           /\ \E c \in {"none", "waiting"} : conf' = [conf EXCEPT ![j.on] = c]
    BY <1>1 DEF Effect
  <2>3. UNCHANGED offerAt
    BY <1>1 DEF Effect
  <2> QED
    BY <2>1, <2>2, <2>3 DEF SteamOK
<1>2. CASE j.kind \in {"act", "bulkaccept"}
  <2>1. UNCHANGED offerAt \/ offerAt' = [offerAt EXCEPT ![j.on] = "gone"]
    BY <1>2 DEF Effect
  <2>2. UNCHANGED <<made, conf>>
    BY <1>2 DEF Effect
  <2> QED
    BY <2>1, <2>2 DEF SteamOK
<1>3. CASE ~(j.kind \in {"send", "bulksend"} /\ j.on # 0) /\ j.kind \notin {"act", "bulkaccept"}
  <2>1. UNCHANGED atSteam
    BY <1>3 DEF Effect
  <2> QED
    BY <2>1 DEF atSteam, SteamOK
<1> QED
    BY <1>1, <1>2, <1>3

LEMMA TypesAnswered == ASSUME TradeTypes, NEW w \in Tasks, Answered(w) PROVE TradeTypes'
<1> DEFINE j == task[w]
<1>0. j.kind # "sweep" /\ j \in Chores
    BY FreeIsFree DEF Answered, TradeTypes, FreeTask
<1>1. PICK r \in {"ok", "fail"}, g \in {j.creds, newest[j.acc] + 1} \cap Gen :
          /\ Effect(j, r)
          /\ newest' = [newest EXCEPT ![j.acc] = IF g = j.creds THEN @ ELSE g]
          /\ task' = [task EXCEPT ![w].creds = g, ![w].result = r, ![w].phase = "end",
                                  ![w].got = IF j.kind = "fetch" /\ r = "ok"
                                             THEN FetchResult(j) ELSE {}]
    BY DEF Answered
<1> DEFINE G == IF j.kind = "fetch" /\ r = "ok" THEN FetchResult(j) ELSE {}
           n == [j EXCEPT !.creds = g, !.result = r, !.phase = "end", !.got = G]
<1>2. G \in SUBSET Offers
    BY DEF FetchResult
<1>3. n \in Chores
  <2> HIDE DEF j, G
  <2> QED
    BY <1>0, <1>2, ChoreGoesOn
<1>4. task' = [task EXCEPT ![w] = n]
    BY <1>1 DEF TradeTypes, TasksOK
<1>5. TasksOK'
  <2> HIDE DEF n
  <2> QED
    BY <1>3, <1>4, OneTask DEF TradeTypes
<1>6. SteamOK'
    BY <1>0, <1>1, EffectTypes DEF TradeTypes
<1>7. newest' \in [Traders -> Gen]
    BY <1>1 DEF TradeTypes, Sessions
<1> QED
    BY <1>5, <1>6, <1>7 DEF TradeTypes, Answered, lists, Lists, Sessions, CallsOK, SendsOK, RestOK

LEMMA TypesRefused == ASSUME TradeTypes, NEW w \in Tasks, Refused(w) PROVE TradeTypes'
<1> DEFINE j == task[w]
           n == [j EXCEPT !.phase = AfterRefusal(j), !.result = "fail"]
<1>0. j.kind # "sweep" /\ j \in Chores
    BY FreeIsFree DEF Refused, TradeTypes, FreeTask
<1>1. n \in Chores
  <2>1. AfterRefusal(j) \in {"login", "end"}
    BY DEF AfterRefusal
  <2> HIDE DEF j
  <2> QED
    BY <1>0, <2>1, ChoreGoesOn
<1>2. task' = [task EXCEPT ![w] = n]
    BY DEF Refused, TradeTypes, TasksOK
<1>3. TasksOK'
  <2> HIDE DEF n
  <2> QED
    BY <1>1, <1>2, OneTask DEF TradeTypes
<1> QED
    BY <1>3 DEF TradeTypes, Refused, lists, session, atSteam, Lists, Sessions, CallsOK, SteamOK, SendsOK, RestOK

LEMMA TypesMint == ASSUME TradeTypes, NEW w \in Tasks, MintTokens(w) PROVE TradeTypes'
<1> DEFINE j == task[w]
           a == j.acc
<1>0. j.phase = "login" /\ j \in Chores /\ j.kind # "sweep" /\ a \in Traders
    BY FreeIsFree DEF MintTokens, TradeTypes, FreeTask, Chores, Jobs, KindOK
<1>1. relogged' \in [Traders -> BOOLEAN]
    BY <1>0 DEF MintTokens, TradeTypes, Sessions
<1>2. CASE /\ ~relogged[a] /\ newest[a] < MaxGen
           /\ newest' = [newest EXCEPT ![a] = @ + 1]
           /\ task' = [task EXCEPT ![w].creds = newest'[a], ![w].phase = "again"]
           /\ calls' = Append(calls, Tok(a, newest'[a]))
  <2> DEFINE g == newest'[a]
             n == [j EXCEPT !.creds = g, !.phase = "again"]
  <2>1. newest' \in [Traders -> Gen] /\ g \in Gen
    BY <1>0, <1>2, Numbers DEF TradeTypes, Sessions, Gen
  <2>2. n \in Chores
    <3> HIDE DEF j, g
    <3> QED
        BY <1>0, <2>1, ChoreGoesOn
  <2>3. task' = [task EXCEPT ![w] = n]
    <3>1. task' = [task EXCEPT ![w].creds = g, ![w].phase = "again"]
        BY <1>2
    <3> HIDE DEF g
    <3> QED
        BY <3>1 DEF TradeTypes, TasksOK
  <2>4. TasksOK'
    <3> HIDE DEF n
    <3> QED
        BY <2>2, <2>3, OneTask DEF TradeTypes
  <2>5. CallsOK'
    <3>1. calls' = Append(calls, Tok(a, g)) /\ Tok(a, g) \in CallBacks
        BY <1>0, <1>2, <2>1, CallKinds
    <3> HIDE DEF g
    <3> QED
        BY <3>1, AppendProperties DEF TradeTypes, CallsOK
  <2> QED
    BY <1>1, <2>1, <2>4, <2>5 DEF TradeTypes, MintTokens, lists, atSteam, Lists, Sessions, SteamOK, SendsOK, RestOK
<1>3. CASE task' = [task EXCEPT ![w].phase = "end"] /\ UNCHANGED <<newest, calls>>
  <2> DEFINE n == [j EXCEPT !.phase = "end"]
  <2>1. n \in Chores
    <3> HIDE DEF j
    <3> QED
        BY <1>0, ChoreGoesOn
  <2>2. task' = [task EXCEPT ![w] = n]
    BY <1>3 DEF TradeTypes, TasksOK
  <2>3. TasksOK'
    <3> HIDE DEF n
    <3> QED
        BY <2>1, <2>2, OneTask DEF TradeTypes
  <2> QED
    BY <1>1, <1>3, <2>3 DEF TradeTypes, MintTokens, lists, atSteam, Lists, Sessions, CallsOK, SteamOK, SendsOK, RestOK
<1> QED
    BY <1>2, <1>3 DEF MintTokens

LEMMA ChoreFields ==
    ASSUME NEW j \in Chores
    PROVE  /\ j.acc \in Traders /\ j.creds \in Gen /\ j.seed \in Gen /\ j.todo \in SUBSET Todo
           /\ j.got \in SUBSET Offers /\ j.log \in SUBSET Entries /\ j.tries \in 0..3
           /\ (j.kind \in OfferKinds => j.on \in Offers)
           /\ (j.kind \in SendKinds /\ j.on # 0 => j.on \in Send)
           /\ (j.kind # "bulksend" => j.log = {}) /\ KindOK(j)
           /\ Tok(j.acc, j.creds) \in CallBacks /\ TokensIfChanged(j) \in Seq(CallBacks)
           /\ <<Tok(j.acc, j.creds)>> \in Seq(CallBacks)
<1>1. /\ j.acc \in Traders /\ j.creds \in Gen /\ j.seed \in Gen /\ j.todo \in SUBSET Todo
      /\ j.got \in SUBSET Offers /\ j.log \in SUBSET Entries /\ j.tries \in 0..3
    BY DEF Chores, Jobs
<1>2. /\ (j.kind \in OfferKinds => j.on \in Offers)
      /\ (j.kind \in SendKinds /\ j.on # 0 => j.on \in Send)
      /\ (j.kind # "bulksend" => j.log = {}) /\ KindOK(j)
    BY DEF Chores, KindOK
<1>3. Tok(j.acc, j.creds) \in CallBacks
    BY <1>1, CallKinds
<1>4. <<Tok(j.acc, j.creds)>> \in Seq(CallBacks)
    BY <1>3
<1>5. TokensIfChanged(j) \in Seq(CallBacks)
    BY <1>4, CallKinds DEF TokensIfChanged
<1> QED
    BY <1>1, <1>2, <1>3, <1>4, <1>5
LEMMA TypesFetched == ASSUME TradeTypes, NEW w \in Tasks, EndFetch(w) PROVE TradeTypes'
<1> DEFINE j == task[w]
<1>1. j \in Chores
    BY FreeIsFree DEF EndFetch, TradeTypes, FreeTask
<1>2. TasksOK' /\ CallsOK'
    BY <1>1, ChoreFields, CallsJoin, OneTask DEF EndFetch, Leave, TradeTypes, CallsOK
<1>3. Lists'
  <2>1. j.acc \in Traders /\ j.got \in SUBSET Offers
    BY <1>1, ChoreFields
  <2> HIDE DEF j
  <2> QED
    BY <2>1 DEF EndFetch, TradeTypes, Lists, j
<1> QED
    BY <1>2, <1>3 DEF EndFetch, TradeTypes, session, atSteam, Sessions, SteamOK, SendsOK, RestOK

LEMMA TypesLoaded == ASSUME TradeTypes, NEW w \in Tasks, EndLoad(w) PROVE TradeTypes'
<1> DEFINE j == task[w]
<1>1. j \in Chores
    BY FreeIsFree DEF EndLoad, TradeTypes, FreeTask
<1>2. TasksOK' /\ CallsOK'
    BY <1>1, ChoreFields, CallsJoin, OneTask DEF EndLoad, Leave, TradeTypes, CallsOK
<1>3. Lists'
    BY <1>1, ChoreFields DEF EndLoad, TradeTypes, Lists
<1> QED
    BY <1>2, <1>3 DEF EndLoad, TradeTypes, session, atSteam, Sessions, SteamOK, SendsOK, RestOK

\* A verb's callbacks: the tokens, and the offer leaves the list when it went well.
Verbs(j) ==
    <<Tok(j.acc, j.creds)>> \o
    (IF j.result = "ok" THEN <<[do |-> "erase", acc |-> j.acc, on |-> j.on]>> ELSE <<>>)

LEMMA VerbTypes == ASSUME NEW j \in Chores, j.kind \in OfferKinds PROVE Verbs(j) \in Seq(CallBacks)
<1> DEFINE e == [do |-> "erase", acc |-> j.acc, on |-> j.on]
<1>1. <<Tok(j.acc, j.creds)>> \in Seq(CallBacks)
    BY ChoreFields
<1>2. e \in CallBacks
    BY ChoreFields, CallKinds
<1>3. (IF j.result = "ok" THEN <<e>> ELSE <<>>) \in Seq(CallBacks)
  <2> HIDE DEF e
  <2> QED
    BY <1>2, CallKinds
<1> QED
    BY <1>1, <1>3, ConcatProperties DEF Verbs

LEMMA TypesActed == ASSUME TradeTypes, NEW w \in Tasks, EndAct(w) PROVE TradeTypes'
<1> DEFINE j == task[w]
<1>1. j \in Chores /\ j.kind \in OfferKinds
    BY FreeIsFree DEF EndAct, TradeTypes, FreeTask, OfferKinds
<1>2. calls' = calls \o Verbs(j) /\ Verbs(j) \in Seq(CallBacks)
  <2>1. Verbs(j) \in Seq(CallBacks)
    BY <1>1, VerbTypes
  <2>2. calls' = calls \o <<Tok(j.acc, j.creds)>> \o
                (IF j.result = "ok" THEN <<[do |-> "erase", acc |-> j.acc, on |-> j.on]>>
                 ELSE <<>>)
    BY DEF EndAct
  <2> DEFINE p == <<Tok(j.acc, j.creds)>>
             q == IF j.result = "ok" THEN <<[do |-> "erase", acc |-> j.acc, on |-> j.on]>> ELSE <<>>
  <2>3. p \in Seq(CallBacks) /\ q \in Seq(CallBacks) /\ calls \in Seq(CallBacks)
    BY <1>1, ChoreFields, CallKinds DEF TradeTypes, CallsOK
  <2>4. Verbs(j) = p \o q
    BY DEF Verbs
  <2> HIDE DEF p, q, j
  <2>5. (calls \o p) \o q = calls \o (p \o q)
    BY <2>3, ConcatProperties
  <2> QED
    BY <2>1, <2>2, <2>4, <2>5 DEF p, q, j
<1>3. TasksOK' /\ CallsOK'
  <2>1. task' = [task EXCEPT ![w] = FreeTask] /\ TasksOK /\ CallsOK
    BY DEF EndAct, Leave, TradeTypes
  <2>2. TasksOK'
    BY <2>1, OneTask
  <2>3. calls' \in Seq(CallBacks)
    BY <1>2, <2>1, CallsJoin
  <2> QED
    BY <2>2, <2>3 DEF CallsOK
<1>4. Lists'
    BY DEF EndAct, TradeTypes, Lists
<1> QED
    BY <1>3, <1>4 DEF EndAct, TradeTypes, session, atSteam, Sessions, SteamOK, SendsOK, RestOK

LEMMA TypesAccepted == ASSUME TradeTypes, NEW w \in Tasks, EndAccept(w) PROVE TradeTypes'
<1> DEFINE j == task[w]
<1>1. j \in Chores /\ j.kind = "bulkaccept" /\ j.kind \in OfferKinds
    BY FreeIsFree DEF EndAccept, TradeTypes, FreeTask, OfferKinds
<1>2. Onward(w, {}, Verbs(j)) /\ Verbs(j) \in Seq(CallBacks)
    BY <1>1, VerbTypes DEF EndAccept, Verbs
<1>3. TasksOK' /\ CallsOK'
    BY <1>1, <1>2, OnwardTypes DEF TradeTypes
<1> QED
    BY <1>3 DEF EndAccept, TradeTypes, lists, session, atSteam, Lists, Sessions, SteamOK, SendsOK, RestOK

LEMMA TypesSweep == ASSUME TradeTypes, NEW w \in Tasks, Sweep(w) PROVE TradeTypes'
<1> DEFINE j == task[w]
           c == [do |-> "refresh", acc |-> j.acc, gen |-> j.creds]
<1>1. j \in Chores /\ j.kind = "sweep"
    BY FreeIsFree DEF Sweep, TradeTypes, FreeTask
<1>2. c \in CallBacks /\ calls' = Append(calls, c)
    BY <1>1, ChoreFields, CallKinds DEF Sweep
<1>3. CallsOK'
  <2> HIDE DEF c
  <2> QED
    BY <1>2, AppendProperties DEF TradeTypes, CallsOK
<1>4. ASSUME NEW x \in j.todo PROVE Task("sweep", x, j.todo \ {x}) \in Chores
  <2>1. j.todo \in SUBSET Todo /\ x \in Todo /\ x[3] = 0 /\ \A y \in j.todo : y[3] = 0
    BY <1>1, ChoreFields DEF KindOK
  <2>2. x \in Traders \X Gen \X (Offers \cup Send \cup {0}) /\ j.todo \ {x} \in SUBSET Todo
    BY <2>1 DEF Todo
  <2> HIDE DEF j
  <2> QED
    BY <2>1, <2>2, NewTask DEF SendKinds, OfferKinds, PlainKinds
<1>5. TasksOK'
    BY <1>4, OneTask DEF Sweep, Leave, TradeTypes
<1> QED
    BY <1>3, <1>5 DEF Sweep, TradeTypes, lists, session, atSteam, Lists, Sessions, SteamOK, SendsOK, RestOK

LEMMA TypesGift == ASSUME TradeTypes, NEW w \in Tasks, EndBulkLoad(w) PROVE TradeTypes'
<1> DEFINE j == task[w]
<1>1. j \in Chores /\ j.kind = "bulksend" /\ j.log \in SUBSET Entries /\ j.acc \in Traders
    BY FreeIsFree, ChoreFields DEF EndBulkLoad, TradeTypes, FreeTask
<1>2. TokensIfChanged(j) \in Seq(CallBacks)
    BY <1>1, ChoreFields
<1>3. CASE Onward(w, j.log, TokensIfChanged(j)) /\ UNCHANGED sends
  <2>1. TasksOK' /\ CallsOK'
    BY <1>1, <1>2, <1>3, OnwardTypes DEF TradeTypes
  <2> QED
    BY <1>3, <2>1 DEF EndBulkLoad, TradeTypes, lists, session, atSteam, Lists, Sessions, SteamOK, SendsOK, RestOK
<1>4. CASE /\ j.result = "ok" /\ Items[j.acc] # {} /\ Len(sends) < MaxSends
           /\ sends' = Append(sends, [acc |-> j.acc, items |-> Items[j.acc]])
           /\ task' = [task EXCEPT ![w].on = Len(sends) + 1, ![w].phase = "call"]
           /\ calls' = calls \o TokensIfChanged(j)
  <2> DEFINE s == Len(sends) + 1
             n == [j EXCEPT !.on = s, !.phase = "call"]
  <2>1. Len(sends) \in Nat /\ s \in Send
    BY <1>4, LenProperties, Numbers DEF TradeTypes, SendsOK, Send
  <2>2. n \in Chores
    <3> HIDE DEF j, s
    <3> QED
        BY <1>1, <2>1, ChoreGoesOn
  <2>3. task' = [task EXCEPT ![w] = n]
    BY <1>4 DEF TradeTypes, TasksOK
  <2>4. TasksOK'
    <3> HIDE DEF n
    <3> QED
        BY <2>2, <2>3, OneTask DEF TradeTypes
  <2>5. CallsOK'
    BY <1>2, <1>4, CallsJoin DEF TradeTypes, CallsOK
  <2>6. [acc |-> j.acc, items |-> Items[j.acc]] \in [acc : Traders, items : SUBSET TraderItems]
    BY <1>1, Numbers
  <2>7. /\ sends' \in Seq([acc : Traders, items : SUBSET TraderItems])
        /\ Len(sends') = s /\ DOMAIN sends' = 1..s
    BY <1>4, <2>1, <2>6, AppendProperties, LenProperties DEF TradeTypes, SendsOK
  <2>8. Len(sends') <= MaxSends /\ DOMAIN sends' \subseteq Send
    BY <1>4, <2>1, <2>7, Numbers DEF Send
  <2>9. SendsOK'
    BY <2>7, <2>8 DEF EndBulkLoad, SendsOK, TradeTypes
  <2> QED
    BY <2>4, <2>5, <2>9 DEF EndBulkLoad, TradeTypes, lists, session, atSteam, Lists, Sessions, SteamOK, RestOK
<1> QED
    BY <1>3, <1>4 DEF EndBulkLoad
LEMMA TypesSent == ASSUME TradeTypes, NEW w \in Tasks, EndSend(w) PROVE TradeTypes'
<1> DEFINE j == task[w]
           p == <<Tok(j.acc, j.creds)>>
<1>1. j \in Chores /\ j.kind \in SendKinds /\ j.on # 0
    BY FreeIsFree DEF EndSend, TradeTypes, FreeTask, SendKinds
<1>2. j.on \in Send /\ p \in Seq(CallBacks) /\ Tok(j.acc, j.creds) \in CallBacks
    BY <1>1, ChoreFields
<1>3. ASSUME ToConfirm(j) PROVE TasksOK' /\ CallsOK'
  <2> DEFINE n == [j EXCEPT !.phase = "confirm"]
  <2>1. calls' = Append(calls, Tok(j.acc, j.creds)) /\ task' = [task EXCEPT ![w] = n]
    BY <1>3 DEF EndSend
  <2>2. n \in Chores
    <3> HIDE DEF j
    <3> QED
        BY <1>1, <1>2, ChoreGoesOn
  <2> HIDE DEF n
  <2> QED
    BY <1>2, <2>1, <2>2, OneTask, CallsJoin DEF TradeTypes, CallsOK
<1>4. ASSUME ~ToConfirm(j) PROVE TasksOK' /\ CallsOK'
  <2>1. Recorded(w, FALSE, p)
    BY <1>4 DEF EndSend
  <2> HIDE DEF p
  <2> QED
    BY <1>1, <1>2, <2>1, RecordedTypes DEF TradeTypes
<1>5. TasksOK' /\ CallsOK'
    BY <1>3, <1>4
<1> QED
    BY <1>5 DEF EndSend, TradeTypes, lists, session, atSteam, Lists, Sessions, SteamOK, SendsOK, RestOK

LEMMA TypesConfirm == ASSUME TradeTypes, NEW w \in Tasks, Confirm(w) PROVE TradeTypes'
<1> DEFINE j == task[w]
<1>1. j \in Chores /\ j.kind \in SendKinds /\ j.on \in Send
    BY FreeIsFree, ChoreFields DEF Confirm, TradeTypes, FreeTask, KindOK
<1>2. \A d \in BOOLEAN : Recorded(w, d, <<>>) => TasksOK' /\ CallsOK'
    BY <1>1, CallKinds, RecordedTypes DEF TradeTypes
<1>3. CASE \E s \in Matching(j.on) :
              /\ conf' = [conf EXCEPT ![s] = "confirmed"]
              /\ \E told \in BOOLEAN : Recorded(w, told, <<>>)
  <2>1. SteamOK'
    BY <1>3 DEF Confirm, TradeTypes, SteamOK
  <2> QED
    BY <1>2, <1>3, <2>1 DEF Confirm, TradeTypes, lists, session, Lists, Sessions, SendsOK, RestOK
<1>4. CASE Recorded(w, FALSE, <<>>) /\ UNCHANGED conf
    BY <1>2, <1>4 DEF Confirm, TradeTypes, lists, session, Lists, Sessions, SteamOK, SendsOK, RestOK
<1>5. CASE j.tries < 2 /\ task' = [task EXCEPT ![w].tries = @ + 1] /\ UNCHANGED calls /\ UNCHANGED conf
  <2> DEFINE n == [j EXCEPT !.tries = @ + 1]
  <2>1. n \in Chores
    <3> HIDE DEF j
    <3> QED
        BY <1>1, <1>5, ChoreGoesOn
  <2>2. task' = [task EXCEPT ![w] = n]
    BY <1>5 DEF TradeTypes, TasksOK
  <2>3. TasksOK'
    <3> HIDE DEF n
    <3> QED
        BY <2>1, <2>2, OneTask DEF TradeTypes
  <2> QED
    BY <1>5, <2>3 DEF Confirm, TradeTypes, lists, session, Lists, Sessions, CallsOK, SteamOK, SendsOK, RestOK
<1> QED
    BY <1>3, <1>4, <1>5 DEF Confirm

\* The oldest callback, and what is left of the others.
LEMMA HeadTypes ==
    ASSUME CallsOK, calls # <<>>
    PROVE  Head(calls) \in CallBacks /\ Tail(calls) \in Seq(CallBacks)
BY HeadTailProperties DEF CallsOK

LEMMA CallFields ==
    ASSUME NEW c \in CallBacks
    PROVE  /\ c.do \in {"tokens", "refresh"} => c.acc \in Traders /\ c.gen \in Gen
           /\ c.do = "erase" => c.acc \in Traders /\ c.on \in Offers
           /\ c.do = "sent" => c.acc \in Traders /\ c.log \in SUBSET Entries
           /\ c.do = "bulkdone" => c.log \in SUBSET Entries
           /\ c.do = "tokens" => c \in TokenCalls
           /\ c.do = "refresh" => c \in RefreshCalls
           /\ c.do \in {"tokens", "refresh", "erase", "sent", "bulkdone"}
BY DEF CallBacks, TokenCalls, RefreshCalls, EraseCalls, SentCalls, DoneCalls

LEMMA LogTypes ==
    ASSUME SendsOK, NEW L \in SUBSET Entries
    PROVE  /\ WithLog(L) \in [Send -> Seq(Outcomes)]
           /\ \A s \in Send : (\A e \in L : e[1] # s) => WithLog(L)[s] = history[s]
           /\ \A s \in Send, e \in L : e[1] = s /\ (\A f \in L : f[1] = s => f = e) =>
                 WithLog(L)[s] = history[s] \o <<e[2]>>
<1>1. ASSUME NEW s \in Send, \E e \in L : e[1] = s
      PROVE  (CHOOSE e \in L : e[1] = s)[2] \in Outcomes
    BY <1>1 DEF Entries
<1>2. ASSUME NEW s \in Send
      PROVE  history[s] \o (IF \E e \in L : e[1] = s
                            THEN <<(CHOOSE e \in L : e[1] = s)[2]>> ELSE <<>>) \in Seq(Outcomes)
  <2> DEFINE p == IF \E e \in L : e[1] = s THEN <<(CHOOSE e \in L : e[1] = s)[2]>> ELSE <<>>
  <2>1. p \in Seq(Outcomes)
    BY <1>1, EmptySeq
  <2>2. history[s] \in Seq(Outcomes)
    BY DEF SendsOK
  <2> HIDE DEF p
  <2>3. history[s] \o p \in Seq(Outcomes)
    BY <2>1, <2>2, ConcatProperties
  <2> QED
    BY <2>3 DEF p
<1>3. WithLog(L) \in [Send -> Seq(Outcomes)]
    BY <1>2 DEF WithLog
<1>4. ASSUME NEW s \in Send, \A e \in L : e[1] # s
      PROVE  WithLog(L)[s] = history[s]
  <2>1. WithLog(L)[s] = history[s] \o <<>>
    BY <1>4 DEF WithLog
  <2>2. history[s] \in Seq(Outcomes)
    BY DEF SendsOK
  <2> QED
    BY <2>1, <2>2, ConcatProperties
<1>5. ASSUME NEW s \in Send, NEW e \in L, e[1] = s, \A f \in L : f[1] = s => f = e
      PROVE  WithLog(L)[s] = history[s] \o <<e[2]>>
  <2>1. (CHOOSE f \in L : f[1] = s) = e
    BY <1>5
  <2> QED
    BY <1>5, <2>1 DEF WithLog
<1> QED
    BY <1>3, <1>4, <1>5

LEMMA TypesApply == ASSUME TradeTypes, Apply PROVE TradeTypes'
<1> DEFINE c == Head(calls)
<1>1. c \in CallBacks /\ CallsOK'
    BY HeadTypes DEF Apply, TradeTypes, CallsOK
<1>2. UNCHANGED <<modal, atSteam, sends, pressed>>
    BY DEF Apply
<1>3. ASSUME NEW a \in Traders, NEW g \in Gen, StartFetch(a, g, Tail(calls))
      PROVE  TasksOK' /\ mixed' \in [Traders -> BOOLEAN] /\ fetching' \in [Traders -> BOOLEAN]
  <2>1. Task("fetch", <<a, g, 0>>, {}) \in Chores
    BY ButtonTasks DEF TradeTypes
  <2>2. Queue(Task("fetch", <<a, g, 0>>, {}), Tail(calls))
    BY <1>3 DEF StartFetch
  <2>3. TasksOK' /\ mixed' \in [Traders -> BOOLEAN]
    BY <2>1, <2>2, QueueTypes DEF TradeTypes, RestOK
  <2>4. fetching' \in [Traders -> BOOLEAN]
    BY <1>3 DEF StartFetch, TradeTypes, Lists
  <2> QED
    BY <2>3, <2>4
<1> HIDE DEF c
<1>4. CASE ApplyTokens(c)
  <2>1. c.acc \in Traders /\ c.gen \in Gen
    BY <1>1, <1>4, CallFields DEF ApplyTokens
  <2>2. Sessions'
    BY <1>4, <2>1 DEF ApplyTokens, TradeTypes, Sessions
  <2> QED
    BY <1>1, <1>2, <1>4, <2>2 DEF ApplyTokens, TradeTypes, lists, atSteam, Lists, TasksOK, SteamOK, SendsOK, RestOK
<1>5. CASE ApplyErase(c)
  <2>1. c.acc \in Traders /\ c.on \in Offers
    BY <1>1, <1>5, CallFields DEF ApplyErase
  <2>2. Lists'
    BY <1>5, <2>1 DEF ApplyErase, TradeTypes, Lists
  <2> QED
    BY <1>1, <1>2, <1>5, <2>2 DEF ApplyErase, TradeTypes, session, atSteam, Sessions, TasksOK, SteamOK, SendsOK, RestOK
<1>6. CASE ApplyRefresh(c)
  <2>1. c.acc \in Traders /\ c.gen \in Gen
    BY <1>1, <1>6, CallFields DEF ApplyRefresh
  <2>2. StartFetch(c.acc, c.gen, Tail(calls)) \/ UNCHANGED <<fetching, task, mixed>>
    BY <1>6 DEF ApplyRefresh
  <2>3. TasksOK' /\ mixed' \in [Traders -> BOOLEAN] /\ fetching' \in [Traders -> BOOLEAN]
    BY <1>3, <2>1, <2>2 DEF TradeTypes, TasksOK, RestOK, Lists
  <2> QED
    BY <1>1, <1>2, <1>6, <2>3 DEF ApplyRefresh, TradeTypes, session, atSteam, Lists, Sessions, SteamOK, SendsOK, RestOK
<1>7. CASE ApplySent(c)
  <2>1. c.acc \in Traders /\ c.log \in SUBSET Entries
    BY <1>1, <1>7, CallFields DEF ApplySent
  <2>2. \/ StartFetch(c.acc, tok[c.acc], Tail(calls)) \/ UNCHANGED <<fetching, task, mixed>>
    BY <1>7 DEF ApplySent
  <2>3. TasksOK' /\ mixed' \in [Traders -> BOOLEAN] /\ fetching' \in [Traders -> BOOLEAN]
    BY <1>3, <2>1, <2>2 DEF TradeTypes, TasksOK, RestOK, Lists, Sessions
  <2>4. cool' \in [Traders -> BOOLEAN]
    BY <1>7, <2>1 DEF ApplySent, TradeTypes, Lists
  <2>5. history' = WithLog(c.log) /\ UNCHANGED <<received, invLoading, invLoaded, inFlight, session>>
    BY <1>7 DEF ApplySent
  <2>6. SendsOK'
    BY <1>2, <2>1, <2>5, LogTypes DEF TradeTypes, SendsOK
  <2> QED
    BY <1>1, <1>2, <2>3, <2>4, <2>5, <2>6 DEF TradeTypes, session, atSteam, Lists, Sessions, SteamOK, RestOK
<1>8. CASE ApplyBulkDone(c)
  <2>1. c.log \in SUBSET Entries /\ history' = WithLog(c.log) /\ UNCHANGED <<lists, session, task, mixed>>
    BY <1>1, <1>8, CallFields DEF ApplyBulkDone
  <2>2. SendsOK'
    BY <1>2, <2>1, LogTypes DEF TradeTypes, SendsOK
  <2> QED
    BY <1>1, <1>2, <2>1, <2>2 DEF TradeTypes, lists, session, atSteam, Lists, Sessions, TasksOK, SteamOK, RestOK
<1> QED
    BY <1>4, <1>5, <1>6, <1>7, <1>8 DEF Apply, c

LEMMA TypesInit == ASSUME TradeInit PROVE TradeTypes
<1>1. Lists /\ Sessions
    BY Numbers DEF TradeInit, Lists, Sessions
<1>2. TasksOK /\ CallsOK
    BY CallKinds DEF TradeInit, TasksOK, CallsOK
<1>3. SteamOK
    BY DEF TradeInit, SteamOK
<1>4. SendsOK
  <2>1. sends = <<>> /\ sends \in Seq([acc : Traders, items : SUBSET TraderItems]) /\ Len(sends) = 0
        /\ DOMAIN sends = {}
    BY EmptySeq DEF TradeInit
  <2>2. history \in [Send -> Seq(Outcomes)]
    BY EmptySeq DEF TradeInit
  <2> QED
    BY <2>1, <2>2, Numbers DEF SendsOK
<1>5. RestOK
    BY Numbers DEF TradeInit, RestOK, Closed, Modals
<1> QED
    BY <1>1, <1>2, <1>3, <1>4, <1>5 DEF TradeTypes

LEMMA TypesStep == ASSUME TradeTypes, [TradeNext]_trVars PROVE TradeTypes'
<1>1. CASE UNCHANGED trVars
    BY <1>1 DEF trVars, lists, session, atSteam, TradeTypes, Lists, Sessions, TasksOK, CallsOK, SteamOK,
                SendsOK, RestOK
<1>2. ASSUME NEW w \in Tasks, TaskStep(w) PROVE TradeTypes'
    BY <1>2, TypesAnswered, TypesRefused, TypesMint, TypesFetched, TypesLoaded, TypesActed,
       TypesAccepted, TypesSweep, TypesGift, TypesSent, TypesConfirm DEF TaskStep
<1>3. CASE TradeNext
    BY <1>2, <1>3, TypesRefresh, TypesLoad, TypesExpire, TypesTime, TypesSweepAll, TypesAcceptAll,
       TypesSend, TypesSendAll, TypesApply, TypesOffer, TypesScreen, TypesShow DEF TradeNext, TraderItems
<1> QED
    BY <1>1, <1>3
(***************************************************************************)
(* The flags of the screen are the marks of the tasks, each of one task.   *)
(***************************************************************************)
Marks(j) ==
    IF j.kind \in {"fetch", "inventory"} THEN {<<j.kind, j.acc>>}
    ELSE IF j.kind = "act" THEN {<<"act", j.on>>} ELSE {}

FlagSet == {<<"fetch", a>> : a \in {b \in Traders : fetching[b]}}
           \cup {<<"inventory", a>> : a \in {b \in Traders : invLoading[b]}}
           \cup {<<"act", o>> : o \in inFlight}

Flagged ==
    /\ \A v, w \in Tasks : v # w => Marks(task[v]) \cap Marks(task[w]) = {}
    /\ FlagSet = UNION {Marks(task[w]) : w \in Tasks}

\* One worker's task changes and the flags change with it.
LEMMA MarksMove ==
    ASSUME TasksOK, Flagged, NEW w \in Tasks, NEW n, task' = [task EXCEPT ![w] = n],
           Marks(n) \cap (FlagSet \ Marks(task[w])) = {},
           FlagSet' = (FlagSet \ Marks(task[w])) \cup Marks(n)
    PROVE  Flagged'
<1>1. task'[w] = n /\ \A v \in Tasks \ {w} : task'[v] = task[v]
    BY DEF TasksOK
<1>2. \A v \in Tasks \ {w} : Marks(task[v]) \subseteq FlagSet \ Marks(task[w])
    BY DEF Flagged
<1>3. \A u, v \in Tasks : u # v => Marks(task'[u]) \cap Marks(task'[v]) = {}
    BY <1>1, <1>2 DEF Flagged
<1>4. FlagSet \ Marks(task[w]) = UNION {Marks(task[v]) : v \in Tasks \ {w}}
    BY DEF Flagged
<1>5. FlagSet' = UNION {Marks(task'[v]) : v \in Tasks}
    BY <1>1, <1>4
<1> QED
    BY <1>3, <1>5 DEF Flagged

\* Nothing that is marked changes.
LEMMA MarksStay ==
    ASSUME TasksOK, Flagged, NEW w \in Tasks, NEW n, task' = [task EXCEPT ![w] = n],
           Marks(n) = Marks(task[w]), UNCHANGED <<fetching, invLoading, inFlight>>
    PROVE  Flagged'
<1>1. FlagSet' = FlagSet
    BY DEF FlagSet
<1>2. Marks(task[w]) \subseteq FlagSet
    BY DEF Flagged
<1> QED
    BY <1>1, <1>2, MarksMove

\* A task is submitted and its flag, which was down, goes up.
LEMMA MarksQueue ==
    ASSUME TasksOK, Flagged, NEW j, NEW p, Queue(j, p),
           Marks(j) \cap FlagSet = {}, FlagSet' = FlagSet \cup Marks(j)
    PROVE  Flagged'
<1>1. PICK w \in Tasks \ Busy : task' = [task EXCEPT ![w] = j]
    BY DEF Queue
<1>2. Marks(task[w]) = {}
    BY <1>1, FreeIsFree DEF Marks, FreeTask
<1> QED
    BY <1>1, <1>2, MarksMove

LEMMA MarksNone ==
    ASSUME TasksOK, Flagged, NEW j, NEW p, Queue(j, p), Marks(j) = {},
           UNCHANGED <<fetching, invLoading, inFlight>>
    PROVE  Flagged'
<1>1. FlagSet' = FlagSet
    BY DEF FlagSet
<1> QED
    BY <1>1, MarksQueue

\* One flag goes up or down.
LEMMA FlagUp ==
    ASSUME Lists
    PROVE  /\ \A a \in Traders :
                 /\ <<"fetch", a>> \in FlagSet <=> fetching[a]
                 /\ <<"inventory", a>> \in FlagSet <=> invLoading[a]
                 /\ fetching' = [fetching EXCEPT ![a] = TRUE] /\ UNCHANGED <<invLoading, inFlight>>
                       => FlagSet' = FlagSet \cup {<<"fetch", a>>}
                 /\ fetching' = [fetching EXCEPT ![a] = FALSE] /\ UNCHANGED <<invLoading, inFlight>>
                       => FlagSet' = FlagSet \ {<<"fetch", a>>}
                 /\ invLoading' = [invLoading EXCEPT ![a] = TRUE] /\ UNCHANGED <<fetching, inFlight>>
                       => FlagSet' = FlagSet \cup {<<"inventory", a>>}
                 /\ invLoading' = [invLoading EXCEPT ![a] = FALSE] /\ UNCHANGED <<fetching, inFlight>>
                       => FlagSet' = FlagSet \ {<<"inventory", a>>}
           /\ \A o \in Offers :
                 /\ <<"act", o>> \in FlagSet <=> o \in inFlight
                 /\ inFlight' = inFlight \cup {o} /\ UNCHANGED <<fetching, invLoading>>
                       => FlagSet' = FlagSet \cup {<<"act", o>>}
                 /\ inFlight' = inFlight \ {o} /\ UNCHANGED <<fetching, invLoading>>
                       => FlagSet' = FlagSet \ {<<"act", o>>}
<1>1. ASSUME NEW a \in Traders
      PROVE  /\ <<"fetch", a>> \in FlagSet <=> fetching[a]
             /\ <<"inventory", a>> \in FlagSet <=> invLoading[a]
    BY DEF FlagSet
<1>2. ASSUME NEW o \in Offers PROVE <<"act", o>> \in FlagSet <=> o \in inFlight
    BY DEF FlagSet
<1>3. ASSUME NEW a \in Traders, fetching' = [fetching EXCEPT ![a] = TRUE], UNCHANGED <<invLoading, inFlight>>
      PROVE  FlagSet' = FlagSet \cup {<<"fetch", a>>}
  <2>1. {b \in Traders : fetching'[b]} = {b \in Traders : fetching[b]} \cup {a}
    BY <1>3 DEF Lists
  <2> QED
    BY <1>3, <2>1 DEF FlagSet
<1>4. ASSUME NEW a \in Traders, fetching' = [fetching EXCEPT ![a] = FALSE], UNCHANGED <<invLoading, inFlight>>
      PROVE  FlagSet' = FlagSet \ {<<"fetch", a>>}
  <2>1. {b \in Traders : fetching'[b]} = {b \in Traders : fetching[b]} \ {a}
    BY <1>4 DEF Lists
  <2> QED
    BY <1>4, <2>1 DEF FlagSet
<1>5. ASSUME NEW a \in Traders, invLoading' = [invLoading EXCEPT ![a] = TRUE], UNCHANGED <<fetching, inFlight>>
      PROVE  FlagSet' = FlagSet \cup {<<"inventory", a>>}
  <2>1. {b \in Traders : invLoading'[b]} = {b \in Traders : invLoading[b]} \cup {a}
    BY <1>5 DEF Lists
  <2> QED
    BY <1>5, <2>1 DEF FlagSet
<1>6. ASSUME NEW a \in Traders, invLoading' = [invLoading EXCEPT ![a] = FALSE], UNCHANGED <<fetching, inFlight>>
      PROVE  FlagSet' = FlagSet \ {<<"inventory", a>>}
  <2>1. {b \in Traders : invLoading'[b]} = {b \in Traders : invLoading[b]} \ {a}
    BY <1>6 DEF Lists
  <2> QED
    BY <1>6, <2>1 DEF FlagSet
<1>7. ASSUME NEW o \in Offers, inFlight' = inFlight \cup {o}, UNCHANGED <<fetching, invLoading>>
      PROVE  FlagSet' = FlagSet \cup {<<"act", o>>}
    BY <1>7 DEF FlagSet
<1>8. ASSUME NEW o \in Offers, inFlight' = inFlight \ {o}, UNCHANGED <<fetching, invLoading>>
      PROVE  FlagSet' = FlagSet \ {<<"act", o>>}
    BY <1>8 DEF FlagSet
<1> QED
    BY <1>1, <1>2, <1>3, <1>4, <1>5, <1>6, <1>7, <1>8
LEMMA TaskMarks ==
    /\ \A x, S : Marks(Task("fetch", x, S)) = {<<"fetch", x[1]>>}
    /\ \A x, S : Marks(Task("inventory", x, S)) = {<<"inventory", x[1]>>}
    /\ \A x, S : Marks(Task("act", x, S)) = {<<"act", x[3]>>}
    /\ \A k \in {"sweep", "bulkaccept", "send", "bulksend"} : \A x, S : Marks(Task(k, x, S)) = {}
    /\ Marks(FreeTask) = {}
BY DEF Marks, Task, FreeTask

\* The button's flag goes up with its task.
LEMMA FlagsPress ==
    ASSUME TradeTypes, Flagged,
           \/ \E a \in Traders : PressRefresh(a) \/ PressLoad(a)
           \/ \E o \in Offers : PressOffer(o)
           \/ PressRefreshAll \/ PressAcceptAll \/ PressSend \/ PressSendAll
    PROVE  Flagged'
<1>0. TasksOK /\ Lists
    BY DEF TradeTypes
<1>1. ASSUME NEW a \in Traders, PressRefresh(a) PROVE Flagged'
  <2>1. Queue(Task("fetch", <<a, tok[a], 0>>, {}), calls) /\ ~fetching[a]
        /\ fetching' = [fetching EXCEPT ![a] = TRUE] /\ UNCHANGED <<invLoading, inFlight>>
    BY <1>1 DEF PressRefresh, StartFetch, MayFetch
  <2>2. Marks(Task("fetch", <<a, tok[a], 0>>, {})) = {<<"fetch", a>>}
    BY TaskMarks
  <2>3. <<"fetch", a>> \notin FlagSet /\ FlagSet' = FlagSet \cup {<<"fetch", a>>}
    BY <1>0, <2>1, FlagUp
  <2> QED
    BY <1>0, <2>1, <2>2, <2>3, MarksQueue
<1>2. ASSUME NEW a \in Traders, PressLoad(a) PROVE Flagged'
  <2>1. Queue(Task("inventory", <<a, tok[a], 0>>, {}), calls) /\ ~invLoading[a]
        /\ invLoading' = [invLoading EXCEPT ![a] = TRUE] /\ UNCHANGED <<fetching, inFlight>>
    BY <1>2 DEF PressLoad, PressButton
  <2>2. Marks(Task("inventory", <<a, tok[a], 0>>, {})) = {<<"inventory", a>>}
    BY TaskMarks
  <2>3. <<"inventory", a>> \notin FlagSet /\ FlagSet' = FlagSet \cup {<<"inventory", a>>}
    BY <1>0, <2>1, FlagUp
  <2> QED
    BY <1>0, <2>1, <2>2, <2>3, MarksQueue
<1>3. ASSUME NEW o \in Offers, PressOffer(o) PROVE Flagged'
  <2> DEFINE a == OfferTo[o]
  <2>1. Queue(Task("act", <<a, tok[a], o>>, {}), calls) /\ o \notin inFlight
        /\ inFlight' = inFlight \cup {o} /\ UNCHANGED <<fetching, invLoading>>
    BY <1>3 DEF PressOffer, PressButton, Pressable
  <2>2. Marks(Task("act", <<a, tok[a], o>>, {})) = {<<"act", o>>}
    BY TaskMarks
  <2>3. <<"act", o>> \notin FlagSet /\ FlagSet' = FlagSet \cup {<<"act", o>>}
    BY <1>0, <2>1, FlagUp
  <2> QED
    BY <1>0, <2>1, <2>2, <2>3, MarksQueue
<1>4. CASE PressRefreshAll
  <2>1. PICK x, S : Queue(Task("sweep", x, S), calls) /\ UNCHANGED <<fetching, invLoading, inFlight>>
    BY <1>4 DEF PressRefreshAll, PressButton, lists
  <2> QED
    BY <1>0, <2>1, TaskMarks, MarksNone
<1>5. CASE PressAcceptAll
  <2>1. PICK x, S : Queue(Task("bulkaccept", x, S), calls) /\ UNCHANGED <<fetching, invLoading, inFlight>>
    BY <1>5 DEF PressAcceptAll, PressButton, lists
  <2> QED
    BY <1>0, <2>1, TaskMarks, MarksNone
<1>6. CASE PressSend
  <2>1. PICK x : Queue(Task("send", x, {}), calls) /\ UNCHANGED <<fetching, invLoading, inFlight>>
    BY <1>6 DEF PressSend, PressButton, lists
  <2> QED
    BY <1>0, <2>1, TaskMarks, MarksNone
<1>7. CASE PressSendAll
  <2>1. PICK x, S : Queue(Task("bulksend", x, S), calls) /\ UNCHANGED <<fetching, invLoading, inFlight>>
    BY <1>7 DEF PressSendAll, PressButton, lists
  <2> QED
    BY <1>0, <2>1, TaskMarks, MarksNone
<1> QED
    BY <1>1, <1>2, <1>3, <1>4, <1>5, <1>6, <1>7

\* Whoever takes a step has a task.
LEMMA WhoSteps == ASSUME TasksOK, NEW w \in Tasks, TaskStep(w) PROVE task[w] \in Chores
<1>1. Answered(w) => task[w] # FreeTask
    BY DEF Answered, FreeTask
<1>2. Refused(w) => task[w] # FreeTask
    BY DEF Refused, FreeTask
<1>3. MintTokens(w) => task[w] # FreeTask
    BY DEF MintTokens, FreeTask
<1>4. EndFetch(w) => task[w] # FreeTask
    BY DEF EndFetch, FreeTask
<1>5. EndLoad(w) => task[w] # FreeTask
    BY DEF EndLoad, FreeTask
<1>6. EndAct(w) => task[w] # FreeTask
    BY DEF EndAct, FreeTask
<1>7. EndAccept(w) => task[w] # FreeTask
    BY DEF EndAccept, FreeTask
<1>8. Sweep(w) => task[w] # FreeTask
    BY DEF Sweep, FreeTask
<1>9. EndBulkLoad(w) => task[w] # FreeTask
    BY DEF EndBulkLoad, FreeTask
<1>10. EndSend(w) => task[w] # FreeTask
    BY DEF EndSend, FreeTask
<1>11. Confirm(w) => task[w] # FreeTask
    BY DEF Confirm, FreeTask
<1> QED
    BY <1>1, <1>2, <1>3, <1>4, <1>5, <1>6, <1>7, <1>8, <1>9, <1>10, <1>11, FreeIsFree DEF TaskStep

\* What a bulk task does has no mark.
LEMMA FlagsOnward ==
    ASSUME TasksOK, Flagged, NEW w \in Tasks, NEW L, NEW p, Onward(w, L, p),
           task[w].kind \in {"bulkaccept", "bulksend"}, UNCHANGED <<fetching, invLoading, inFlight>>
    PROVE  Flagged'
<1>1. Marks(task[w]) = {}
    BY DEF Marks
<1>2. PICK n : task' = [task EXCEPT ![w] = n] /\ Marks(n) = {}
  <2>1. CASE task[w].todo # {}
    <3>1. PICK x \in task[w].todo : task' = [task EXCEPT ![w] =
              [Task(task[w].kind, x, task[w].todo \ {x}) EXCEPT !.log = L]]
        BY <2>1 DEF Onward
    <3>2. Marks([Task(task[w].kind, x, task[w].todo \ {x}) EXCEPT !.log = L]) = {}
        BY DEF Marks, Task
    <3> QED
        BY <3>1, <3>2
  <2>2. CASE task[w].todo = {}
    <3>1. task' = [task EXCEPT ![w] = FreeTask]
        BY <2>2 DEF Onward, Leave
    <3> QED
        BY <3>1, TaskMarks
  <2> QED
    BY <2>1, <2>2
<1> QED
    BY <1>1, <1>2, MarksStay

LEMMA FlagsRecorded ==
    ASSUME TasksOK, Flagged, NEW w \in Tasks, NEW d, NEW p, Recorded(w, d, p),
           task[w].kind \in SendKinds, UNCHANGED <<fetching, invLoading, inFlight>>
    PROVE  Flagged'
<1>1. CASE task[w].kind = "bulksend"
    BY <1>1, FlagsOnward DEF Recorded
<1>2. CASE task[w].kind # "bulksend"
  <2>1. task' = [task EXCEPT ![w] = FreeTask] /\ Marks(task[w]) = {}
    BY <1>2 DEF Recorded, Leave, Marks, SendKinds
  <2> QED
    BY <2>1, TaskMarks, MarksStay
<1> QED
    BY <1>1, <1>2

\* The task goes on with what it does: same kind, same account, same offer.
LEMMA FlagsGoOn ==
    ASSUME TradeTypes, Flagged, NEW w \in Tasks, Answered(w) \/ Refused(w) \/ MintTokens(w)
    PROVE  Flagged'
<1> DEFINE j == task[w]
<1>0. j \in Chores /\ TasksOK
    BY WhoSteps DEF TradeTypes, TaskStep
<1>1. PICK n : task' = [task EXCEPT ![w] = n] /\ n.kind = j.kind /\ n.acc = j.acc /\ n.on = j.on
  <2>1. CASE Answered(w)
    <3>1. PICK r \in {"ok", "fail"}, g \in {j.creds, newest[j.acc] + 1} \cap Gen :
              task' = [task EXCEPT ![w].creds = g, ![w].result = r, ![w].phase = "end",
                                  ![w].got = IF j.kind = "fetch" /\ r = "ok"
                                             THEN FetchResult(j) ELSE {}]
        BY <2>1 DEF Answered
    <3> DEFINE n == [j EXCEPT !.creds = g, !.result = r, !.phase = "end",
                              !.got = IF j.kind = "fetch" /\ r = "ok" THEN FetchResult(j) ELSE {}]
    <3>2. task' = [task EXCEPT ![w] = n] /\ n.kind = j.kind /\ n.acc = j.acc /\ n.on = j.on
        BY <1>0, <3>1 DEF TasksOK, Chores, Jobs
    <3> HIDE DEF n
    <3> QED
        BY <3>2
  <2>2. CASE Refused(w)
    <3> DEFINE n == [j EXCEPT !.phase = AfterRefusal(j), !.result = "fail"]
    <3>1. task' = [task EXCEPT ![w].phase = AfterRefusal(j), ![w].result = "fail"]
        BY <2>2 DEF Refused
    <3>2. task' = [task EXCEPT ![w] = n] /\ n.kind = j.kind /\ n.acc = j.acc /\ n.on = j.on
        BY <1>0, <3>1 DEF TasksOK, Chores, Jobs
    <3> HIDE DEF n
    <3> QED
        BY <3>2
  <2>3. CASE MintTokens(w)
    <3>1. PICK g, p : task' = [task EXCEPT ![w].creds = g, ![w].phase = p]
                      \/ task' = [task EXCEPT ![w].phase = p]
        BY <2>3 DEF MintTokens
    <3>2. ASSUME task' = [task EXCEPT ![w].creds = g, ![w].phase = p]
          PROVE  \E n : task' = [task EXCEPT ![w] = n] /\ n.kind = j.kind /\ n.acc = j.acc /\ n.on = j.on
      <4> DEFINE n == [j EXCEPT !.creds = g, !.phase = p]
      <4>1. task' = [task EXCEPT ![w] = n] /\ n.kind = j.kind /\ n.acc = j.acc /\ n.on = j.on
        BY <1>0, <3>2 DEF TasksOK, Chores, Jobs
      <4> HIDE DEF n
      <4> QED
        BY <4>1
    <3>3. ASSUME task' = [task EXCEPT ![w].phase = p]
          PROVE  \E n : task' = [task EXCEPT ![w] = n] /\ n.kind = j.kind /\ n.acc = j.acc /\ n.on = j.on
      <4> DEFINE n == [j EXCEPT !.phase = p]
      <4>1. task' = [task EXCEPT ![w] = n] /\ n.kind = j.kind /\ n.acc = j.acc /\ n.on = j.on
        BY <1>0, <3>3 DEF TasksOK, Chores, Jobs
      <4> HIDE DEF n
      <4> QED
        BY <4>1
    <3> QED
        BY <3>1, <3>2, <3>3
  <2> QED
    BY <2>1, <2>2, <2>3
<1>2. Marks(n) = Marks(j)
    BY <1>1 DEF Marks
<1>3. UNCHANGED <<fetching, invLoading, inFlight>>
    BY DEF Answered, Refused, MintTokens, lists
<1> QED
    BY <1>0, <1>1, <1>2, <1>3, MarksStay

\* The flag goes down with its task, before anything else may be submitted.
LEMMA FlagsEnd ==
    ASSUME TradeTypes, Flagged, NEW w \in Tasks, EndFetch(w) \/ EndLoad(w) \/ EndAct(w)
    PROVE  Flagged'
<1> DEFINE j == task[w]
<1>0. j \in Chores /\ TasksOK /\ Lists /\ task' = [task EXCEPT ![w] = FreeTask] /\ j.acc \in Traders
    BY WhoSteps, ChoreFields DEF TradeTypes, TaskStep, EndFetch, EndLoad, EndAct, Leave
<1>1. FlagSet' = FlagSet \ Marks(j)
  <2>1. CASE EndFetch(w)
    <3>1. fetching' = [fetching EXCEPT ![j.acc] = FALSE] /\ UNCHANGED <<invLoading, inFlight>>
          /\ Marks(j) = {<<"fetch", j.acc>>}
        BY <2>1 DEF EndFetch, Marks
    <3> QED
        BY <1>0, <3>1, FlagUp
  <2>2. CASE EndLoad(w)
    <3>1. invLoading' = [invLoading EXCEPT ![j.acc] = FALSE] /\ UNCHANGED <<fetching, inFlight>>
          /\ Marks(j) = {<<"inventory", j.acc>>}
        BY <2>2 DEF EndLoad, Marks
    <3> QED
        BY <1>0, <3>1, FlagUp
  <2>3. CASE EndAct(w)
    <3>1. inFlight' = inFlight \ {j.on} /\ UNCHANGED <<fetching, invLoading>>
          /\ Marks(j) = {<<"act", j.on>>} /\ j.on \in Offers
        BY <1>0, <2>3, ChoreFields DEF EndAct, Marks, OfferKinds
    <3> QED
        BY <1>0, <3>1, FlagUp
  <2> QED
    BY <2>1, <2>2, <2>3
<1> QED
    BY <1>0, <1>1, TaskMarks, MarksMove

LEMMA FlagsBulk ==
    ASSUME TradeTypes, Flagged, NEW w \in Tasks,
           EndAccept(w) \/ Sweep(w) \/ EndBulkLoad(w) \/ EndSend(w) \/ Confirm(w)
    PROVE  Flagged'
<1> DEFINE j == task[w]
<1>0. j \in Chores /\ TasksOK /\ UNCHANGED <<fetching, invLoading, inFlight>>
  <2>1. j \in Chores /\ TasksOK
    BY WhoSteps DEF TradeTypes, TaskStep
  <2>2. UNCHANGED lists
    BY DEF EndAccept, Sweep, EndBulkLoad, EndSend, Confirm
  <2> QED
    BY <2>1, <2>2 DEF lists
<1>a. ASSUME NEW n, task' = [task EXCEPT ![w] = n], Marks(n) = {}, Marks(j) = {} PROVE Flagged'
    BY <1>0, <1>a, MarksStay
<1>1. CASE EndAccept(w)
    BY <1>0, <1>1, FlagsOnward DEF EndAccept
<1>2. CASE Sweep(w)
  <2>1. Marks(j) = {}
    BY <1>2 DEF Sweep, Marks
  <2>2. task' = [task EXCEPT ![w] = FreeTask]
        \/ \E x, S : task' = [task EXCEPT ![w] = Task("sweep", x, S)]
    BY <1>2 DEF Sweep, Leave
  <2> QED
    BY <1>a, <2>1, <2>2, TaskMarks
<1>3. CASE EndBulkLoad(w)
  <2>1. j.kind = "bulksend" /\ Marks(j) = {}
    BY <1>3 DEF EndBulkLoad, Marks
  <2>2. \/ Onward(w, j.log, TokensIfChanged(j))
        \/ task' = [task EXCEPT ![w].on = Len(sends) + 1, ![w].phase = "call"]
    BY <1>3 DEF EndBulkLoad
  <2>3. ASSUME task' = [task EXCEPT ![w].on = Len(sends) + 1, ![w].phase = "call"] PROVE Flagged'
    <3> DEFINE n == [j EXCEPT !.on = Len(sends) + 1, !.phase = "call"]
    <3>1. task' = [task EXCEPT ![w] = n] /\ n.kind = "bulksend"
        BY <1>0, <2>1, <2>3 DEF TasksOK, Chores, Jobs
    <3>2. Marks(n) = {}
        BY <3>1 DEF Marks
    <3> HIDE DEF n
    <3> QED
        BY <1>a, <2>1, <3>1, <3>2
  <2> QED
    BY <1>0, <2>1, <2>2, <2>3, FlagsOnward
<1>4. CASE EndSend(w)
  <2>1. j.kind \in SendKinds /\ Marks(j) = {}
    BY <1>4 DEF EndSend, Marks, SendKinds
  <2>2. ASSUME task' = [task EXCEPT ![w].phase = "confirm"] PROVE Flagged'
    <3> DEFINE n == [j EXCEPT !.phase = "confirm"]
    <3>1. task' = [task EXCEPT ![w] = n] /\ n.kind = j.kind
        BY <1>0, <2>2 DEF TasksOK, Chores, Jobs
    <3>2. Marks(n) = {}
        BY <2>1, <3>1 DEF Marks, SendKinds
    <3> HIDE DEF n
    <3> QED
        BY <1>a, <2>1, <3>1, <3>2
  <2>3. task' = [task EXCEPT ![w].phase = "confirm"] \/ \E p : Recorded(w, FALSE, p)
    BY <1>4 DEF EndSend
  <2> QED
    BY <1>0, <2>1, <2>2, <2>3, FlagsRecorded
<1>5. CASE Confirm(w)
  <2>1. j.kind \in SendKinds /\ Marks(j) = {}
    BY <1>0, <1>5, ChoreFields DEF Confirm, KindOK, Marks, SendKinds
  <2>2. ASSUME task' = [task EXCEPT ![w].tries = @ + 1] PROVE Flagged'
    <3> DEFINE n == [j EXCEPT !.tries = @ + 1]
    <3>1. task' = [task EXCEPT ![w] = n] /\ n.kind = j.kind
        BY <1>0, <2>2 DEF TasksOK, Chores, Jobs
    <3>2. Marks(n) = {}
        BY <2>1, <3>1 DEF Marks, SendKinds
    <3> HIDE DEF n
    <3> QED
        BY <1>a, <2>1, <3>1, <3>2
  <2>3. task' = [task EXCEPT ![w].tries = @ + 1] \/ \E d : Recorded(w, d, <<>>)
    BY <1>5 DEF Confirm
  <2> QED
    BY <1>0, <2>1, <2>2, <2>3, FlagsRecorded
<1> QED
    BY <1>1, <1>2, <1>3, <1>4, <1>5

LEMMA FlagsApply == ASSUME TradeTypes, Flagged, Apply PROVE Flagged'
<1> DEFINE c == Head(calls)
<1>0. TasksOK /\ Lists /\ c \in CallBacks
    BY HeadTypes DEF TradeTypes, Apply
<1>1. PICK p : \/ ApplyTokens(c) \/ ApplyErase(c) \/ ApplyBulkDone(c)
               \/ UNCHANGED <<fetching, task, mixed, invLoading, inFlight>>
               \/ /\ c.acc \in Traders /\ ~fetching[c.acc] /\ UNCHANGED <<invLoading, inFlight>>
                  /\ \E g : StartFetch(c.acc, g, p)
  <2> HIDE DEF c
  <2>1. CASE ApplyRefresh(c)
    BY <1>0, <2>1, CallFields DEF ApplyRefresh, MayFetch
  <2>2. CASE ApplySent(c)
    BY <1>0, <2>2, CallFields DEF ApplySent
  <2> QED
    BY <2>1, <2>2 DEF Apply, c
<1> HIDE DEF c
<1>2. CASE UNCHANGED <<task, fetching, invLoading, inFlight>>
    BY <1>2 DEF Flagged, FlagSet
<1>3. ASSUME c.acc \in Traders, ~fetching[c.acc], UNCHANGED <<invLoading, inFlight>>,
             NEW g, StartFetch(c.acc, g, p)
      PROVE  Flagged'
  <2> DEFINE a == c.acc
  <2>1. Queue(Task("fetch", <<a, g, 0>>, {}), p) /\ fetching' = [fetching EXCEPT ![a] = TRUE]
    BY <1>3 DEF StartFetch
  <2>2. Marks(Task("fetch", <<a, g, 0>>, {})) = {<<"fetch", a>>}
    BY TaskMarks
  <2>3. <<"fetch", a>> \notin FlagSet /\ FlagSet' = FlagSet \cup {<<"fetch", a>>}
    BY <1>0, <1>3, <2>1, FlagUp
  <2> QED
    BY <1>0, <2>1, <2>2, <2>3, MarksQueue
<1>4. ApplyTokens(c) \/ ApplyErase(c) \/ ApplyBulkDone(c) => UNCHANGED <<task, fetching, invLoading, inFlight>>
    BY DEF ApplyTokens, ApplyErase, ApplyBulkDone, lists
<1> QED
    BY <1>1, <1>2, <1>3, <1>4

LEMMA FlaggedInit == ASSUME TradeInit PROVE Flagged
<1>1. FlagSet = {}
    BY DEF TradeInit, FlagSet
<1>2. \A w \in Tasks : Marks(task[w]) = {}
    BY TaskMarks DEF TradeInit
<1> QED
    BY <1>1, <1>2 DEF Flagged

LEMMA FlaggedStep == ASSUME TradeTypes, Flagged, [TradeNext]_trVars PROVE Flagged'
<1>1. CASE UNCHANGED <<task, fetching, invLoading, inFlight>>
    BY <1>1 DEF Flagged, FlagSet
<1>2. ASSUME \/ \E A \in {{}} \cup {{a} : a \in Traders} : OpenModal(A)
             \/ CloseModal \/ (\E a \in Traders : ClickChip(a) \/ Expire(a) \/ TimePasses(a))
             \/ (\E i \in TraderItems : ClickItem(i)) \/ Acknowledge \/ (\E s \in Send : ShowConf(s))
             \/ UNCHANGED trVars
      PROVE  UNCHANGED <<task, fetching, invLoading, inFlight>>
    BY <1>2 DEF OpenModal, CloseModal, ClickChip, ClickItem, Acknowledge, Expire, TimePasses, ShowConf,
                trVars, lists
<1>3. ASSUME NEW w \in Tasks, TaskStep(w) PROVE Flagged'
    BY <1>3, FlagsGoOn, FlagsEnd, FlagsBulk DEF TaskStep
<1> QED
    BY <1>1, <1>2, <1>3, FlagsPress, FlagsApply DEF TradeNext, TraderItems

\* One task for a flag that is up, none for one that is down.
LEMMA MarkedTasks ==
    ASSUME TasksOK, Flagged, NEW S, S \subseteq Tasks, NEW m,
           \A w \in Tasks : w \in S <=> m \in Marks(task[w])
    PROVE  Cardinality(S) = (IF m \in FlagSet THEN 1 ELSE 0)
<1>1. CASE m \in FlagSet
  <2>1. PICK w \in Tasks : m \in Marks(task[w])
    BY <1>1 DEF Flagged
  <2>2. S = {w}
    BY <2>1 DEF Flagged
  <2> QED
    BY <1>1, <2>2, FS_Singleton
<1>2. CASE m \notin FlagSet
  <2>1. S = {}
    BY <1>2 DEF Flagged
  <2> QED
    BY <1>2, <2>1, FS_EmptySet
<1> QED
    BY <1>1, <1>2

LEMMA FlagsAreTasks == ASSUME TradeTypes, Flagged PROVE FlagsMatchTasks
<1>0. TasksOK /\ Lists
    BY DEF TradeTypes
<1>1. ASSUME NEW a \in Traders, NEW k \in {"fetch", "inventory"}
      PROVE  Cardinality(Doing(k, a)) = (IF <<k, a>> \in FlagSet THEN 1 ELSE 0)
  <2>1. Doing(k, a) \subseteq Tasks
    BY DEF Doing, Busy
  <2>2. \A w \in Tasks : w \in Doing(k, a) <=> <<k, a>> \in Marks(task[w])
    BY DEF Doing, Busy, Marks
  <2> QED
    BY <1>0, <2>1, <2>2, MarkedTasks
<1>2. ASSUME NEW o \in Offers
      PROVE  Cardinality(Answering(o)) = (IF <<"act", o>> \in FlagSet THEN 1 ELSE 0)
  <2>1. Answering(o) \subseteq Tasks
    BY DEF Answering, Busy
  <2>2. \A w \in Tasks : w \in Answering(o) <=> <<"act", o>> \in Marks(task[w])
    BY DEF Answering, Busy, Marks
  <2> QED
    BY <1>0, <2>1, <2>2, MarkedTasks
<1>3. \A a \in Traders : Cardinality(Doing("fetch", a)) = (IF fetching[a] THEN 1 ELSE 0)
    BY <1>0, <1>1, FlagUp
<1>4. \A a \in Traders : Cardinality(Doing("inventory", a)) = (IF invLoading[a] THEN 1 ELSE 0)
    BY <1>0, <1>1, FlagUp
<1>5. \A o \in Offers : Cardinality(Answering(o)) = (IF o \in inFlight THEN 1 ELSE 0)
    BY <1>0, <1>2, FlagUp
<1> QED
    BY <1>3, <1>4, <1>5 DEF FlagsMatchTasks
(***************************************************************************)
(* Sessions: as long as an account's copies are out one at a time, the     *)
(* tokens written back last are those of the last session made.            *)
(***************************************************************************)
IsTok(c, a) == c.do = "tokens" /\ c.acc = a
IsRef(c, a) == c.do = "refresh" /\ c.acc = a
NoTok(q, a) == \A i \in DOMAIN q : ~IsTok(q[i], a)
NoRef(q, a) == \A i \in DOMAIN q : ~IsRef(q[i], a)

\* The last of the tokens posted for a are those of session n.
LastTok(q, a, n) ==
    \E i \in DOMAIN q : IsTok(q[i], a) /\ q[i].gen = n /\ \A k \in DOMAIN q : k > i => ~IsTok(q[k], a)

\* Once the callbacks q are applied to the vault, where t is, it holds n.
Final(q, a, t, n) == (NoTok(q, a) /\ t = n) \/ LastTok(q, a, n)

Hold(a, j) == j.kind # "none" /\ a \in Covers(j)

\* The task works on a: it has the last session, and when it is the one it began with, so has the vault.
Working(a, j, q, t, n) ==
    /\ n = j.creds /\ j.seed <= j.creds
    /\ IF j.phase = "confirm" THEN Final(q, a, t, n)
       ELSE j.creds = j.seed => t = n /\ NoTok(q, a)
    /\ j.kind = "sweep" => j.creds = j.seed

\* The task comes to a later, with the copy x.
Ahead(a, j, x, q, t, n) ==
    /\ j.acc # a /\ x[2] = n /\ t = n /\ NoTok(q, a)
    /\ \A y \in j.todo : y[1] = a => y = x

Right(a, j, q, t, n) ==
    /\ NoRef(q, a)
    /\ j.acc = a => Working(a, j, q, t, n)
    /\ \A x \in j.todo : x[1] = a => Ahead(a, j, x, q, t, n)

\* At most one fetch of the sweep waits, with what the vault has.
Refs(a, q, t, n) ==
    \A i \in DOMAIN q : IsRef(q[i], a) =>
        /\ q[i].gen = n /\ t = n /\ NoTok(q, a)
        /\ \A k \in DOMAIN q : IsRef(q[k], a) => k = i

Calm(a, tk, q, t, n) ==
    /\ \A v, w \in Tasks : Hold(a, tk[v]) /\ Hold(a, tk[w]) => v = w
    /\ \A w \in Tasks : Hold(a, tk[w]) => Right(a, tk[w], q, t, n)
    /\ Refs(a, q, t, n)
    /\ (\A w \in Tasks : ~Hold(a, tk[w])) => Final(q, a, t, n)

Settling == \A a \in Traders : ~mixed[a] => Calm(a, task, calls, tok[a], newest[a])

\* Callbacks about tokens of no account but b.
Only(b, p) == \A i \in DOMAIN p : p[i].do \in {"tokens", "refresh"} => p[i].acc = b

LEMMA OnlyQuiet == ASSUME NEW b, NEW p, Only(b, p), NEW a, a # b PROVE NoTok(p, a) /\ NoRef(p, a)
BY DEF Only, NoTok, NoRef, IsTok, IsRef

\* Where an element of a concatenation is.
LEMMA InJoin ==
    ASSUME NEW q \in Seq(CallBacks), NEW p \in Seq(CallBacks)
    PROVE  /\ \A i \in DOMAIN q : i \in DOMAIN (q \o p) /\ (q \o p)[i] = q[i]
           /\ \A i \in DOMAIN p : Len(q) + i \in DOMAIN (q \o p) /\ (q \o p)[Len(q) + i] = p[i]
           /\ \A i \in DOMAIN (q \o p) : i \in DOMAIN q \/ (i - Len(q) \in DOMAIN p /\ i = Len(q) + (i - Len(q)))
           /\ \A i \in DOMAIN q : i \in Nat /\ i <= Len(q)
           /\ \A i \in DOMAIN p : i \in Nat /\ i >= 1
           /\ Len(q) \in Nat
BY ConcatProperties, LenProperties

LEMMA JoinQuiet ==
    ASSUME NEW q \in Seq(CallBacks), NEW p \in Seq(CallBacks), NEW a
    PROVE  /\ NoTok(q, a) /\ NoTok(p, a) => NoTok(q \o p, a)
           /\ NoRef(q, a) /\ NoRef(p, a) => NoRef(q \o p, a)
           /\ \A t, n : Final(q, a, t, n) /\ NoTok(p, a) => Final(q \o p, a, t, n)
           /\ \A t, n : LastTok(p, a, n) => Final(q \o p, a, t, n)
           /\ \A t, n : Refs(a, q, t, n) /\ NoTok(p, a) /\ NoRef(p, a) => Refs(a, q \o p, t, n)
<1>1. NoTok(q, a) /\ NoTok(p, a) => NoTok(q \o p, a)
    BY InJoin DEF NoTok
<1>2. NoRef(q, a) /\ NoRef(p, a) => NoRef(q \o p, a)
    BY InJoin DEF NoRef
<1>3. ASSUME NEW t, NEW n, Final(q, a, t, n), NoTok(p, a) PROVE Final(q \o p, a, t, n)
  <2>1. CASE LastTok(q, a, n)
    <3>1. PICK i \in DOMAIN q : IsTok(q[i], a) /\ q[i].gen = n /\ \A k \in DOMAIN q : k > i => ~IsTok(q[k], a)
        BY <2>1 DEF LastTok
    <3>2. i \in DOMAIN (q \o p) /\ (q \o p)[i] = q[i]
        BY InJoin
    <3>3. ASSUME NEW k \in DOMAIN (q \o p), k > i PROVE ~IsTok((q \o p)[k], a)
      <4>1. CASE k \in DOMAIN q
        BY <3>1, <3>3, <4>1, InJoin
      <4>2. CASE k \notin DOMAIN q
        BY <1>3, <4>2, InJoin DEF NoTok
      <4> QED
        BY <4>1, <4>2
    <3> QED
        BY <3>1, <3>2, <3>3 DEF Final, LastTok
  <2> QED
    BY <1>1, <1>3, <2>1 DEF Final
<1>4. ASSUME NEW t, NEW n, LastTok(p, a, n) PROVE Final(q \o p, a, t, n)
  <2>1. PICK i \in DOMAIN p : IsTok(p[i], a) /\ p[i].gen = n /\ \A k \in DOMAIN p : k > i => ~IsTok(p[k], a)
    BY <1>4 DEF LastTok
  <2>2. Len(q) + i \in DOMAIN (q \o p) /\ (q \o p)[Len(q) + i] = p[i]
    BY InJoin
  <2>3. ASSUME NEW k \in DOMAIN (q \o p), k > Len(q) + i PROVE ~IsTok((q \o p)[k], a)
    <3>1. k \notin DOMAIN q
        BY <2>3, InJoin
    <3>2. k - Len(q) \in DOMAIN p /\ k = Len(q) + (k - Len(q))
        BY <3>1, InJoin
    <3>3. k - Len(q) > i /\ (q \o p)[k] = p[k - Len(q)]
        BY <2>3, <3>2, InJoin
    <3> QED
        BY <2>1, <3>2, <3>3
  <2> QED
    BY <2>1, <2>2, <2>3 DEF Final, LastTok
<1>5. ASSUME NEW t, NEW n, Refs(a, q, t, n), NoTok(p, a), NoRef(p, a) PROVE Refs(a, q \o p, t, n)
  <2> SUFFICES ASSUME NEW i \in DOMAIN (q \o p), IsRef((q \o p)[i], a)
               PROVE  /\ (q \o p)[i].gen = n /\ t = n /\ NoTok(q \o p, a)
                      /\ \A k \in DOMAIN (q \o p) : IsRef((q \o p)[k], a) => k = i
    BY DEF Refs
  <2>1. \A k \in DOMAIN (q \o p) : IsRef((q \o p)[k], a) => k \in DOMAIN q /\ (q \o p)[k] = q[k]
    BY <1>5, InJoin DEF NoRef
  <2> QED
    BY <1>1, <1>5, <2>1 DEF Refs
<1> QED
    BY <1>1, <1>2, <1>3, <1>4, <1>5

\* What the tasks post when they leave an account.
LEMMA Posts ==
    ASSUME NEW a \in Traders, NEW g \in Gen, NEW p \in Seq(CallBacks), NoTok(p, a), NoRef(p, a)
    PROVE  /\ LastTok(<<Tok(a, g)>>, a, g) /\ NoRef(<<Tok(a, g)>>, a) /\ <<Tok(a, g)>> \in Seq(CallBacks)
           /\ LastTok(<<Tok(a, g)>> \o p, a, g) /\ NoRef(<<Tok(a, g)>> \o p, a)
<1> DEFINE c == Tok(a, g)
           q == <<c>>
<1>1. c \in CallBacks /\ IsTok(c, a) /\ c.gen = g /\ ~IsRef(c, a)
    BY CallKinds DEF Tok, IsTok, IsRef
<1> HIDE DEF c
<1>2. q \in Seq(CallBacks) /\ DOMAIN q = {1} /\ q[1] = c /\ Len(q) = 1
    BY <1>1
<1>3. LastTok(q, a, g) /\ NoRef(q, a)
    BY <1>1, <1>2 DEF LastTok, NoRef
<1> HIDE DEF q
<1>4. LastTok(q \o p, a, g)
  <2>1. 1 \in DOMAIN (q \o p) /\ (q \o p)[1] = c
    BY <1>2, InJoin
  <2>2. ASSUME NEW k \in DOMAIN (q \o p), k > 1 PROVE ~IsTok((q \o p)[k], a)
    <3>1. k \notin DOMAIN q
        BY <1>2, <2>2
    <3> QED
        BY <1>2, <3>1, InJoin DEF NoTok
  <2> QED
    BY <1>1, <2>1, <2>2 DEF LastTok
<1>5. NoRef(q \o p, a)
    BY <1>2, <1>3, JoinQuiet
<1> QED
    BY <1>2, <1>3, <1>4, <1>5 DEF q, c

\* A callback is taken off the queue; when it was a's tokens, the vault has them.
LEMMA TailFinal ==
    ASSUME NEW q \in Seq(CallBacks), q # <<>>, NEW a, NEW t, NEW n
    PROVE  /\ NoTok(q, a) => NoTok(Tail(q), a) /\ ~IsTok(Head(q), a)
           /\ NoRef(q, a) => NoRef(Tail(q), a) /\ ~IsRef(Head(q), a)
           /\ Final(q, a, t, n) /\ ~IsTok(Head(q), a) => Final(Tail(q), a, t, n)
           /\ Final(q, a, t, n) /\ IsTok(Head(q), a) => Final(Tail(q), a, Head(q).gen, n)
           /\ Refs(a, q, t, n) => Refs(a, Tail(q), t, n)
           /\ Refs(a, q, t, n) /\ IsRef(Head(q), a) =>
                 Head(q).gen = n /\ t = n /\ NoTok(q, a) /\ NoRef(Tail(q), a)
<1> DEFINE r == Tail(q)
<1>1. /\ Head(q) = q[1] /\ 1 \in DOMAIN q
      /\ \A i \in DOMAIN r : i \in Nat /\ i >= 1 /\ i + 1 \in DOMAIN q /\ r[i] = q[i + 1]
      /\ \A k \in DOMAIN q : k \in Nat /\ (k = 1 \/ (k - 1 \in DOMAIN r /\ r[k - 1] = q[k] /\ k > 1))
    BY HeadTailProperties, LenProperties
<1> HIDE DEF r
<1>2. NoTok(q, a) => NoTok(r, a) /\ ~IsTok(Head(q), a)
    BY <1>1 DEF NoTok
<1>3. NoRef(q, a) => NoRef(r, a) /\ ~IsRef(Head(q), a)
    BY <1>1 DEF NoRef
<1>4. ASSUME LastTok(q, a, n)
      PROVE  LastTok(r, a, n) \/ (NoTok(r, a) /\ IsTok(Head(q), a) /\ Head(q).gen = n)
  <2>1. PICK i \in DOMAIN q : IsTok(q[i], a) /\ q[i].gen = n /\ \A k \in DOMAIN q : k > i => ~IsTok(q[k], a)
    BY <1>4 DEF LastTok
  <2>2. CASE i = 1
    <3>1. \A k \in DOMAIN r : ~IsTok(r[k], a)
        BY <1>1, <2>1, <2>2
    <3> QED
        BY <1>1, <2>1, <2>2, <3>1 DEF NoTok
  <2>3. CASE i # 1
    <3>1. i - 1 \in DOMAIN r /\ r[i - 1] = q[i] /\ i \in Nat
        BY <1>1, <2>3
    <3>2. \A k \in DOMAIN r : k > i - 1 => ~IsTok(r[k], a)
        BY <1>1, <2>1, <3>1
    <3> QED
        BY <2>1, <3>1, <3>2 DEF LastTok
  <2> QED
    BY <2>2, <2>3
<1>5. Final(q, a, t, n) /\ ~IsTok(Head(q), a) => Final(r, a, t, n)
    BY <1>2, <1>4 DEF Final
<1>6. Final(q, a, t, n) /\ IsTok(Head(q), a) => Final(r, a, Head(q).gen, n)
    BY <1>2, <1>4 DEF Final
<1>7. ASSUME Refs(a, q, t, n) PROVE Refs(a, r, t, n)
    BY <1>1, <1>2, <1>7 DEF Refs
<1>8. ASSUME Refs(a, q, t, n), IsRef(Head(q), a)
      PROVE  Head(q).gen = n /\ t = n /\ NoTok(q, a) /\ NoRef(r, a)
  <2>1. \A k \in DOMAIN q : IsRef(q[k], a) => k = 1
    BY <1>1, <1>8 DEF Refs
  <2>2. NoRef(r, a)
    BY <1>1, <2>1 DEF NoRef
  <2> QED
    BY <1>1, <1>8, <2>2 DEF Refs
<1> QED
    BY <1>2, <1>3, <1>5, <1>6, <1>7, <1>8 DEF r
\* How a task's record follows on what it was: the same work, the next of its list, or nothing.
SameWork(j, m) ==
    m.kind = j.kind /\ m.acc = j.acc /\ m.todo = j.todo /\ m.seed = j.seed
NextWork(j, m) ==
    \E x \in j.todo : /\ m.kind = j.kind /\ m.acc = x[1] /\ m.creds = x[2] /\ m.seed = x[2]
                      /\ m.todo = j.todo \ {x} /\ m.phase = "call"
NoWork(j, m) == j.todo = {} /\ m = FreeTask

\* Another account's task went on: what holds of account a still does.
LEMMA CalmElsewhere ==
    ASSUME NEW a \in Traders, NEW tk, tk \in [Tasks -> Chores \cup {FreeTask}], NEW w \in Tasks,
           NEW m, NEW q \in Seq(CallBacks), NEW p \in Seq(CallBacks), NEW t \in Gen, NEW n \in Gen,
           tk[w] \in Chores, tk[w].acc # a, Only(tk[w].acc, p),
           SameWork(tk[w], m) \/ NextWork(tk[w], m) \/ NoWork(tk[w], m),
           Calm(a, tk, q, t, n)
    PROVE  Calm(a, [tk EXCEPT ![w] = m], q \o p, t, n)
<1> DEFINE j == tk[w]
           tl == [tk EXCEPT ![w] = m]
<1>0. /\ tl[w] = m /\ \A v \in Tasks \ {w} : tl[v] = tk[v]
      /\ j \in Chores /\ j.kind # "none" /\ FreeTask.kind = "none"
    BY DEF Chores, Jobs, SendKinds, OfferKinds, PlainKinds, FreeTask
<1>1. NoTok(p, a) /\ NoRef(p, a)
    BY OnlyQuiet
<1>2. /\ NoTok(q, a) => NoTok(q \o p, a)
      /\ NoRef(q, a) => NoRef(q \o p, a)
      /\ Final(q, a, t, n) => Final(q \o p, a, t, n)
      /\ Refs(a, q, t, n) => Refs(a, q \o p, t, n)
    BY <1>1, JoinQuiet
<1>3. \A i : Right(a, i, q, t, n) => Right(a, i, q \o p, t, n)
    BY <1>2 DEF Right, Working, Ahead
<1>4. Hold(a, m) <=> Hold(a, j)
  <2>1. CASE SameWork(j, m)
    BY <2>1 DEF SameWork, Hold, Covers
  <2>2. CASE NextWork(j, m)
    <3>1. PICK x \in j.todo : m.kind = j.kind /\ m.acc = x[1] /\ m.todo = j.todo \ {x}
        BY <2>2 DEF NextWork
    <3>2. {m.acc} \cup {y[1] : y \in m.todo} = {y[1] : y \in j.todo}
        BY <3>1
    <3> QED
        BY <1>0, <3>1, <3>2 DEF Hold, Covers
  <2>3. CASE NoWork(j, m)
    BY <1>0, <2>3 DEF NoWork, Hold, Covers
  <2> HIDE DEF j
  <2> QED
    BY <2>1, <2>2, <2>3 DEF j
<1>5. ASSUME Hold(a, j) PROVE Right(a, m, q \o p, t, n)
  <2>1. Right(a, j, q, t, n) /\ NoRef(q \o p, a)
    BY <1>2, <1>5 DEF Calm, Right
  <2>2. CASE SameWork(j, m)
    <3>1. \A x \in m.todo : x[1] = a => Ahead(a, m, x, q \o p, t, n)
        BY <1>2, <2>1, <2>2 DEF SameWork, Right, Ahead
    <3> QED
        BY <2>1, <2>2, <3>1 DEF SameWork, Right
  <2>3. CASE NextWork(j, m)
    <3>1. PICK x \in j.todo : /\ m.kind = j.kind /\ m.acc = x[1] /\ m.creds = x[2] /\ m.seed = x[2]
                              /\ m.todo = j.todo \ {x} /\ m.phase = "call"
        BY <2>3 DEF NextWork
    <3>2. CASE x[1] = a
      <4>1. x[2] = n /\ t = n /\ NoTok(q, a) /\ \A y \in j.todo : y[1] = a => y = x
        BY <2>1, <3>2 DEF Right, Ahead
      <4>2. Working(a, m, q \o p, t, n)
        BY <1>2, <3>1, <4>1 DEF Working, Gen
      <4>3. \A y \in m.todo : y[1] # a
        BY <3>1, <4>1
      <4> QED
        BY <2>1, <4>2, <4>3 DEF Right
    <3>3. CASE x[1] # a
      <4>1. ASSUME NEW y \in m.todo, y[1] = a PROVE Ahead(a, m, y, q \o p, t, n)
        BY <1>2, <2>1, <3>1, <3>3, <4>1 DEF Right, Ahead
      <4> QED
        BY <2>1, <3>1, <3>3, <4>1 DEF Right
    <3> QED
        BY <3>2, <3>3
  <2>4. CASE NoWork(j, m)
    BY <1>0, <1>5, <2>4 DEF NoWork, Hold, Covers
  <2> HIDE DEF j
  <2> QED
    BY <2>2, <2>3, <2>4 DEF j
<1>6. \A u, v \in Tasks : Hold(a, tl[u]) /\ Hold(a, tl[v]) => u = v
    BY <1>0, <1>4 DEF Calm
<1>7. \A v \in Tasks : Hold(a, tl[v]) => Right(a, tl[v], q \o p, t, n)
    BY <1>0, <1>3, <1>4, <1>5 DEF Calm
<1>8. (\A v \in Tasks : ~Hold(a, tl[v])) => Final(q \o p, a, t, n)
    BY <1>0, <1>2, <1>4 DEF Calm
<1>9. Refs(a, q \o p, t, n)
    BY <1>2 DEF Calm
<1> HIDE DEF tl
<1> QED
    BY <1>6, <1>7, <1>8, <1>9 DEF Calm, tl

\* The account's own task goes on with it.
LEMMA CalmGoesOn ==
    ASSUME NEW a \in Traders, NEW tk, tk \in [Tasks -> Chores \cup {FreeTask}], NEW w \in Tasks,
           NEW m, NEW q, NEW r, NEW t, NEW n, NEW t2, NEW n2,
           tk[w] \in Chores, tk[w].acc = a, SameWork(tk[w], m), NoRef(r, a),
           Working(a, m, r, t2, n2), Calm(a, tk, q, t, n)
    PROVE  Calm(a, [tk EXCEPT ![w] = m], r, t2, n2)
<1> DEFINE j == tk[w]
           tl == [tk EXCEPT ![w] = m]
<1>0. /\ tl[w] = m /\ \A v \in Tasks \ {w} : tl[v] = tk[v]
      /\ j \in Chores /\ j.kind # "none"
    BY DEF Chores, Jobs, SendKinds, OfferKinds, PlainKinds
<1>1. Hold(a, j) /\ Hold(a, m)
    BY <1>0 DEF SameWork, Hold, Covers
<1>2. \A v \in Tasks \ {w} : ~Hold(a, tl[v])
    BY <1>0, <1>1 DEF Calm
<1>3. \A x \in j.todo : x[1] # a
    BY <1>0, <1>1 DEF Calm, Right, Ahead
<1>4. Right(a, m, r, t2, n2)
    BY <1>3 DEF Right, SameWork
<1>5. Refs(a, r, t2, n2)
    BY DEF Refs, NoRef
<1> HIDE DEF tl
<1> QED
    BY <1>0, <1>1, <1>2, <1>4, <1>5 DEF Calm, tl

\* The account's own task leaves it, with the tokens on their way.
LEMMA CalmLeft ==
    ASSUME NEW a \in Traders, NEW tk, tk \in [Tasks -> Chores \cup {FreeTask}], NEW w \in Tasks,
           NEW m, NEW q, NEW r, NEW t, NEW n,
           tk[w] \in Chores, tk[w].acc = a, NextWork(tk[w], m) \/ NoWork(tk[w], m),
           Final(r, a, t, n), Refs(a, r, t, n), Calm(a, tk, q, t, n)
    PROVE  Calm(a, [tk EXCEPT ![w] = m], r, t, n)
<1> DEFINE j == tk[w]
           tl == [tk EXCEPT ![w] = m]
<1>0. /\ tl[w] = m /\ \A v \in Tasks \ {w} : tl[v] = tk[v]
      /\ j \in Chores /\ j.kind # "none" /\ FreeTask.kind = "none"
    BY DEF Chores, Jobs, SendKinds, OfferKinds, PlainKinds, FreeTask
<1>1. Hold(a, j)
    BY <1>0 DEF Hold, Covers
<1>2. \A v \in Tasks \ {w} : ~Hold(a, tl[v])
    BY <1>0, <1>1 DEF Calm
<1>3. \A x \in j.todo : x[1] # a
    BY <1>0, <1>1 DEF Calm, Right, Ahead
<1>4. ~Hold(a, m)
  <2>1. CASE NoWork(j, m)
    BY <1>0, <2>1 DEF NoWork, Hold
  <2>2. CASE NextWork(j, m)
    BY <1>3, <2>2 DEF NextWork, Hold, Covers
  <2> HIDE DEF j
  <2> QED
    BY <2>1, <2>2 DEF j
<1> HIDE DEF tl
<1> QED
    BY <1>0, <1>2, <1>4 DEF Calm, tl

\* A task is submitted with a copy of what the vault has; nothing else of the account is out.
LEMMA CalmQueued ==
    ASSUME NEW a \in Traders, NEW tk, tk \in [Tasks -> Chores \cup {FreeTask}], NEW w \in Tasks,
           NEW m \in Chores, NEW q, NEW t \in Gen, NEW n \in Gen,
           tk[w] = FreeTask, Calm(a, tk, q, t, n),
           Hold(a, m) => /\ \A v \in Tasks : ~Hold(a, tk[v])
                         /\ NoTok(q, a) /\ NoRef(q, a) /\ t = n /\ ~Twice(a, m)
                         /\ m.acc = a => m.creds = t /\ m.seed = t /\ m.phase = "call"
                         /\ \A x \in m.todo : x[1] = a => x[2] = t
    PROVE  Calm(a, [tk EXCEPT ![w] = m], q, t, n)
<1> DEFINE tl == [tk EXCEPT ![w] = m]
<1>0. tl[w] = m /\ (\A v \in Tasks \ {w} : tl[v] = tk[v]) /\ ~Hold(a, tk[w])
    BY DEF FreeTask, Hold
<1>1. CASE ~Hold(a, m)
  <2> HIDE DEF tl
  <2> QED
    BY <1>0, <1>1 DEF Calm, tl
<1>2. CASE Hold(a, m)
  <2>1. m.acc = a => Working(a, m, q, t, n)
    BY <1>2 DEF Working, Gen
  <2>2. \A x \in m.todo : x[1] = a => Ahead(a, m, x, q, t, n)
    BY <1>2 DEF Ahead, Twice
  <2>3. Right(a, m, q, t, n)
    BY <1>2, <2>1, <2>2 DEF Right
  <2>4. Refs(a, q, t, n)
    BY <1>2 DEF Refs, NoRef
  <2> HIDE DEF tl
  <2> QED
    BY <1>0, <1>2, <2>3, <2>4 DEF Calm, tl
<1> QED
    BY <1>1, <1>2
\* A callback is applied.
LEMMA CalmTail ==
    ASSUME NEW a \in Traders, NEW tk, NEW q \in Seq(CallBacks), q # <<>>, NEW t, NEW n, NEW t2,
           t2 = (IF IsTok(Head(q), a) THEN Head(q).gen ELSE t), Calm(a, tk, q, t, n)
    PROVE  Calm(a, tk, Tail(q), t2, n)
<1>1. /\ NoTok(q, a) => NoTok(Tail(q), a) /\ t2 = t
      /\ NoRef(q, a) => NoRef(Tail(q), a)
      /\ Final(q, a, t, n) => Final(Tail(q), a, t2, n)
    BY TailFinal
<1>2. ASSUME NEW j, Right(a, j, q, t, n) PROVE Right(a, j, Tail(q), t2, n)
  <2>1. NoRef(Tail(q), a)
    BY <1>1, <1>2 DEF Right
  <2>2. j.acc = a => Working(a, j, Tail(q), t2, n)
    BY <1>1, <1>2 DEF Right, Working
  <2>3. \A x \in j.todo : x[1] = a => Ahead(a, j, x, Tail(q), t2, n)
    BY <1>1, <1>2 DEF Right, Ahead
  <2> QED
    BY <2>1, <2>2, <2>3 DEF Right
<1>3. Refs(a, Tail(q), t2, n)
  <2>1. CASE IsTok(Head(q), a)
    <3>1. ~NoTok(q, a)
        BY <2>1, TailFinal
    <3>2. NoRef(q, a)
        BY <3>1 DEF Calm, Refs, NoRef
    <3> QED
        BY <1>1, <3>2 DEF Refs, NoRef
  <2>2. CASE ~IsTok(Head(q), a)
    BY <2>2, TailFinal DEF Calm
  <2> QED
    BY <2>1, <2>2
<1> QED
    BY <1>1, <1>2, <1>3 DEF Calm

\* A task is submitted.
LEMMA SettleQueue ==
    ASSUME TradeTypes, NEW j \in Chores, NEW q, Queue(j, q), NEW a \in Traders, ~mixed'[a],
           Calm(a, task, q, tok[a], newest[a]),
           j.acc = a => j.creds = tok[a] /\ j.seed = tok[a] /\ j.phase = "call",
           \A x \in j.todo : x[1] = a => x[2] = tok[a]
    PROVE  Calm(a, task', q, tok[a], newest[a])
<1>1. PICK w \in Tasks \ Busy : task' = [task EXCEPT ![w] = j]
    BY DEF Queue
<1>2. ~(a \in Covers(j) /\ (Outstanding(a, q) \/ Twice(a, j)))
    BY DEF Queue, TradeTypes, RestOK
<1>3. tok[a] \in Gen /\ newest[a] \in Gen /\ task[w] = FreeTask /\ task \in [Tasks -> Chores \cup {FreeTask}]
    BY <1>1, FreeIsFree DEF TradeTypes, Sessions, TasksOK
<1>4. ASSUME Hold(a, j)
      PROVE  /\ \A v \in Tasks : ~Hold(a, task[v])
             /\ NoTok(q, a) /\ NoRef(q, a) /\ tok[a] = newest[a] /\ ~Twice(a, j)
  <2>1. ~Outstanding(a, q) /\ ~Twice(a, j)
    BY <1>2, <1>4 DEF Hold
  <2>2. \A v \in Tasks : ~Hold(a, task[v])
    BY <2>1 DEF Outstanding, Hold, Busy
  <2>3. NoTok(q, a) /\ NoRef(q, a)
    BY <2>1 DEF Outstanding, NoTok, NoRef, IsTok, IsRef
  <2>4. Final(q, a, tok[a], newest[a])
    BY <2>2 DEF Calm
  <2>5. tok[a] = newest[a]
    BY <2>3, <2>4 DEF Final, LastTok, NoTok
  <2> QED
    BY <2>1, <2>2, <2>3, <2>5
<1> QED
    BY <1>1, <1>3, <1>4, CalmQueued

LEMMA SettlePress ==
    ASSUME TradeTypes, Settling,
           \/ \E a \in Traders : PressRefresh(a) \/ PressLoad(a)
           \/ \E o \in Offers : PressOffer(o)
           \/ PressRefreshAll \/ PressAcceptAll \/ PressSend \/ PressSendAll
    PROVE  Settling'
<1>0. UNCHANGED <<session, calls>>
    BY DEF PressRefresh, PressLoad, PressOffer, PressRefreshAll, PressAcceptAll, PressSend, PressSendAll
<1>1. ASSUME NEW j \in Chores, Queue(j, calls), j.creds = tok[j.acc], j.seed = tok[j.acc],
             j.phase = "call", \A x \in j.todo : x[2] = tok[x[1]]
      PROVE  Settling'
  <2> SUFFICES ASSUME NEW a \in Traders, ~mixed'[a] PROVE Calm(a, task', calls', tok'[a], newest'[a])
    BY DEF Settling
  <2>1. ~mixed[a]
    BY <1>1 DEF Queue, TradeTypes, RestOK
  <2>2. Calm(a, task, calls, tok[a], newest[a])
    BY <2>1 DEF Settling
  <2>3. Calm(a, task', calls, tok[a], newest[a])
    BY <1>1, <2>2, SettleQueue
  <2> QED
    BY <1>0, <2>3 DEF session
<1>2. ASSUME NEW k \in {"fetch", "inventory", "act", "send"}, NEW a \in Traders, NEW o,
             Task(k, <<a, tok[a], o>>, {}) \in Chores, Queue(Task(k, <<a, tok[a], o>>, {}), calls)
      PROVE  Settling'
  <2> DEFINE j == Task(k, <<a, tok[a], o>>, {})
  <2>1. j.acc = a /\ j.creds = tok[a] /\ j.seed = tok[a] /\ j.phase = "call" /\ j.todo = {}
    BY DEF Task
  <2> HIDE DEF j
  <2> QED
    BY <1>1, <1>2, <2>1 DEF j
<1>3. ASSUME NEW k \in {"sweep", "bulksend"}, NEW A \in SUBSET Traders, NEW x \in Copies(A),
             Task(k, x, Copies(A) \ {x}) \in Chores, Queue(Task(k, x, Copies(A) \ {x}), calls)
      PROVE  Settling'
  <2> DEFINE j == Task(k, x, Copies(A) \ {x})
  <2>1. \A y \in Copies(A) : y[2] = tok[y[1]]
    BY DEF Copies
  <2>2. j.acc = x[1] /\ j.creds = x[2] /\ j.seed = x[2] /\ j.phase = "call" /\ j.todo = Copies(A) \ {x}
    BY DEF Task
  <2> HIDE DEF j
  <2> QED
    BY <1>1, <1>3, <2>1, <2>2 DEF j
<1>4. ASSUME NEW a \in Traders, PressRefresh(a) PROVE Settling'
  <2>1. Queue(Task("fetch", <<a, tok[a], 0>>, {}), calls)
    BY <1>4 DEF PressRefresh, StartFetch
  <2>2. Task("fetch", <<a, tok[a], 0>>, {}) \in Chores
    BY ButtonTasks DEF TradeTypes, Sessions
  <2> QED
    BY <1>2, <2>1, <2>2
<1>5. ASSUME NEW a \in Traders, PressLoad(a) PROVE Settling'
  <2>1. Queue(Task("inventory", <<a, tok[a], 0>>, {}), calls)
    BY <1>5 DEF PressLoad, PressButton
  <2>2. Task("inventory", <<a, tok[a], 0>>, {}) \in Chores
    BY ButtonTasks DEF TradeTypes, Sessions
  <2> QED
    BY <1>2, <2>1, <2>2
<1>6. ASSUME NEW o \in Offers, PressOffer(o) PROVE Settling'
  <2> DEFINE a == OfferTo[o]
  <2>1. Queue(Task("act", <<a, tok[a], o>>, {}), calls) /\ a \in Traders
    BY <1>6, Numbers DEF PressOffer, PressButton
  <2>2. Task("act", <<a, tok[a], o>>, {}) \in Chores
    BY <2>1, ButtonTasks DEF TradeTypes
  <2> QED
    BY <1>2, <2>1, <2>2
<1>7. CASE PressSend
  <2>1. PICK a \in Traders : /\ Len(sends) < MaxSends
                             /\ PressButton(Task("send", <<a, tok[a], Len(sends) + 1>>, {}))
    BY <1>7 DEF PressSend
  <2>2. Len(sends) + 1 \in Send
    BY <2>1, LenProperties, Numbers DEF TradeTypes, SendsOK, Send
  <2>3. Task("send", <<a, tok[a], Len(sends) + 1>>, {}) \in Chores
    BY <2>2, ButtonTasks DEF TradeTypes
  <2>4. Queue(Task("send", <<a, tok[a], Len(sends) + 1>>, {}), calls)
    BY <2>1 DEF PressButton
  <2> QED
    BY <1>2, <2>3, <2>4
<1>8. CASE PressRefreshAll
  <2> DEFINE A == {a \in Traders : ~cool[a]}
  <2>1. PICK x \in Copies(A) : PressButton(Task("sweep", x, Copies(A) \ {x}))
    BY <1>8 DEF PressRefreshAll
  <2>2. Task("sweep", x, Copies(A) \ {x}) \in Chores
    BY ButtonTasks DEF TradeTypes
  <2>3. Queue(Task("sweep", x, Copies(A) \ {x}), calls)
    BY <2>1 DEF PressButton
  <2> QED
    BY <1>3, <2>2, <2>3
<1>9. CASE PressSendAll
  <2> DEFINE A == modal.accounts
  <2>0. A \in SUBSET Traders
    BY DEF TradeTypes, RestOK, Modals
  <2>1. PICK x \in Copies(A) : PressButton(Task("bulksend", x, Copies(A) \ {x}))
    BY <1>9 DEF PressSendAll
  <2> HIDE DEF A
  <2>2. Task("bulksend", x, Copies(A) \ {x}) \in Chores
    BY <2>0, ButtonTasks DEF TradeTypes
  <2>3. Queue(Task("bulksend", x, Copies(A) \ {x}), calls)
    BY <2>1 DEF PressButton
  <2> QED
    BY <1>3, <2>0, <2>2, <2>3
<1>10. CASE PressAcceptAll
  <2>1. PICK x \in AllOffers : PressButton(Task("bulkaccept", x, AllOffers \ {x}))
    BY <1>10 DEF PressAcceptAll, AllOffers
  <2> DEFINE j == Task("bulkaccept", x, AllOffers \ {x})
  <2>2. j \in Chores /\ \A y \in AllOffers : y[2] = tok[y[1]]
    BY AcceptTask DEF TradeTypes
  <2>3. Queue(j, calls)
    BY <2>1 DEF PressButton
  <2>4. j.acc = x[1] /\ j.creds = x[2] /\ j.seed = x[2] /\ j.phase = "call" /\ j.todo = AllOffers \ {x}
    BY DEF Task
  <2> HIDE DEF j
  <2> QED
    BY <1>1, <2>2, <2>3, <2>4
<1> QED
    BY <1>4, <1>5, <1>6, <1>7, <1>8, <1>9, <1>10

LEMMA SettleApply == ASSUME TradeTypes, Settling, Apply PROVE Settling'
<1> DEFINE c == Head(calls)
<1>0. /\ calls # <<>> /\ calls \in Seq(CallBacks) /\ calls' = Tail(calls) /\ c \in CallBacks
      /\ UNCHANGED newest
  <2>1. calls # <<>> /\ calls \in Seq(CallBacks) /\ calls' = Tail(calls) /\ c \in CallBacks
    BY HeadTypes DEF Apply, TradeTypes, CallsOK
  <2> HIDE DEF c
  <2>2. UNCHANGED newest
    BY DEF Apply, ApplyTokens, ApplyErase, ApplyRefresh, ApplySent, ApplyBulkDone, session, c
  <2> QED
    BY <2>1, <2>2
<1> SUFFICES ASSUME NEW a \in Traders, ~mixed'[a] PROVE Calm(a, task', calls', tok'[a], newest'[a])
    BY DEF Settling
<1> DEFINE t2 == IF IsTok(c, a) THEN c.gen ELSE tok[a]
<1>1. ~mixed[a] => Calm(a, task, Tail(calls), t2, newest[a])
    BY <1>0, CalmTail DEF Settling
<1> HIDE DEF c
<1>2. CASE ApplyTokens(c)
  <2>1. c.acc \in Traders /\ c.do = "tokens" /\ tok' = [tok EXCEPT ![c.acc] = c.gen]
        /\ UNCHANGED <<task, mixed>>
    BY <1>0, <1>2, CallFields DEF ApplyTokens
  <2>2. tok'[a] = t2
    BY <2>1 DEF IsTok, TradeTypes, Sessions
  <2> QED
    BY <1>0, <1>1, <2>1, <2>2
<1>3. ASSUME c.do # "tokens", UNCHANGED <<session, task, mixed>>
      PROVE  Calm(a, task', calls', tok'[a], newest'[a])
  <2>1. t2 = tok[a]
    BY <1>3 DEF IsTok
  <2> HIDE DEF t2
  <2> QED
    BY <1>0, <1>1, <1>3, <2>1 DEF session
<1>4. ASSUME c.do # "tokens", UNCHANGED session, NEW b \in Traders, NEW g \in Gen, StartFetch(b, g, Tail(calls)),
             b = a /\ ~mixed[a] /\ ~Outstanding(a, Tail(calls)) => g = tok[a]
      PROVE  Calm(a, task', calls', tok'[a], newest'[a])
  <2> DEFINE j == Task("fetch", <<b, g, 0>>, {})
  <2>0. t2 = tok[a]
    BY <1>4 DEF IsTok
  <2>1. j \in Chores /\ Queue(j, Tail(calls))
    BY <1>4, ButtonTasks DEF StartFetch, TradeTypes
  <2>2. j.acc = b /\ j.creds = g /\ j.seed = g /\ j.phase = "call" /\ j.todo = {} /\ Covers(j) = {b}
    BY DEF Task, Covers
  <2> HIDE DEF j, t2
  <2>3. ~mixed[a] /\ (a = b => ~Outstanding(a, Tail(calls)))
    BY <2>1, <2>2 DEF Queue, TradeTypes, RestOK
  <2>4. Calm(a, task', Tail(calls), tok[a], newest[a])
    BY <1>1, <1>4, <2>0, <2>1, <2>2, <2>3, SettleQueue
  <2> QED
    BY <1>0, <1>4, <2>4 DEF session
<1>5. CASE ApplyErase(c) \/ ApplyBulkDone(c)
    BY <1>3, <1>5 DEF ApplyErase, ApplyBulkDone
<1>6. CASE ApplyRefresh(c)
  <2>1. c.acc \in Traders /\ c.gen \in Gen /\ c.do = "refresh" /\ UNCHANGED session
    BY <1>0, <1>6, CallFields DEF ApplyRefresh
  <2>2. StartFetch(c.acc, c.gen, Tail(calls)) \/ UNCHANGED <<fetching, task, mixed>>
    BY <1>6 DEF ApplyRefresh
  <2>3. c.acc = a /\ ~mixed[a] => c.gen = tok[a]
    <3>1. ASSUME c.acc = a, ~mixed[a] PROVE c.gen = tok[a]
      <4>1. Refs(a, calls, tok[a], newest[a]) /\ IsRef(Head(calls), a)
        BY <2>1, <3>1 DEF Settling, Calm, IsRef, c
      <4> QED
        BY <1>0, <4>1, TailFinal DEF c
    <3> QED
        BY <3>1
  <2> QED
    BY <1>3, <1>4, <2>1, <2>2, <2>3
<1>7. CASE ApplySent(c)
  <2>1. c.acc \in Traders /\ c.do = "sent" /\ UNCHANGED session /\ tok[c.acc] \in Gen
    BY <1>0, <1>7, CallFields DEF ApplySent, TradeTypes, Sessions
  <2>2. StartFetch(c.acc, tok[c.acc], Tail(calls)) \/ UNCHANGED <<fetching, task, mixed>>
    BY <1>7 DEF ApplySent
  <2> QED
    BY <1>3, <1>4, <2>1, <2>2
<1> QED
    BY <1>2, <1>5, <1>6, <1>7 DEF Apply, c
\* A worker's step, from what becomes of the account it works on.
LEMMA SettleWorker ==
    ASSUME TradeTypes, Settling, NEW w \in Tasks, task[w] \in Chores, NEW m,
           NEW p \in Seq(CallBacks), task' = [task EXCEPT ![w] = m], calls' = calls \o p,
           Only(task[w].acc, p), UNCHANGED <<tok, mixed>>,
           SameWork(task[w], m) \/ NextWork(task[w], m) \/ NoWork(task[w], m),
           \A a \in Traders : a # task[w].acc => newest'[a] = newest[a],
           ~mixed[task[w].acc] =>
               Calm(task[w].acc, [task EXCEPT ![w] = m], calls \o p, tok[task[w].acc], newest'[task[w].acc])
    PROVE  Settling'
<1> DEFINE j == task[w]
<1> SUFFICES ASSUME NEW a \in Traders, ~mixed'[a] PROVE Calm(a, task', calls', tok'[a], newest'[a])
    BY DEF Settling
<1>1. CASE a = j.acc
    BY <1>1
<1>2. CASE a # j.acc
  <2>1. tok[a] \in Gen /\ newest[a] \in Gen /\ calls \in Seq(CallBacks)
        /\ task \in [Tasks -> Chores \cup {FreeTask}]
    BY DEF TradeTypes, Sessions, TasksOK, CallsOK
  <2>2. Calm(a, task, calls, tok[a], newest[a])
    BY DEF Settling
  <2>3. Calm(a, [task EXCEPT ![w] = m], calls \o p, tok[a], newest[a])
    BY <1>2, <2>1, <2>2, CalmElsewhere
  <2> QED
    BY <1>2, <2>3
<1> QED
    BY <1>1, <1>2

\* What the task that works on an account knows of it.
LEMMA SettleOwn ==
    ASSUME TradeTypes, Settling, NEW w \in Tasks, task[w] \in Chores, ~mixed[task[w].acc]
    PROVE  /\ Working(task[w].acc, task[w], calls, tok[task[w].acc], newest[task[w].acc])
           /\ NoRef(calls, task[w].acc)
           /\ Calm(task[w].acc, task, calls, tok[task[w].acc], newest[task[w].acc])
<1>1. task[w].acc \in Traders /\ Hold(task[w].acc, task[w])
    BY ChoreFields DEF Hold, Covers, Chores, Jobs, SendKinds, OfferKinds, PlainKinds
<1> QED
    BY <1>1 DEF Settling, Calm, Right

\* The account's task goes on.
LEMMA SettleGoesOn ==
    ASSUME TradeTypes, Settling, NEW w \in Tasks, task[w] \in Chores, NEW m,
           NEW p \in Seq(CallBacks), task' = [task EXCEPT ![w] = m], calls' = calls \o p,
           Only(task[w].acc, p), NoRef(p, task[w].acc), UNCHANGED <<tok, mixed>>, SameWork(task[w], m),
           \A a \in Traders : a # task[w].acc => newest'[a] = newest[a],
           Working(task[w].acc, task[w], calls, tok[task[w].acc], newest[task[w].acc]) =>
               Working(task[w].acc, m, calls \o p, tok[task[w].acc], newest'[task[w].acc])
    PROVE  Settling'
<1> DEFINE a == task[w].acc
<1>0. a \in Traders /\ calls \in Seq(CallBacks) /\ task \in [Tasks -> Chores \cup {FreeTask}]
    BY ChoreFields DEF TradeTypes, CallsOK, TasksOK
<1>1. ASSUME ~mixed[a] PROVE Calm(a, [task EXCEPT ![w] = m], calls \o p, tok[a], newest'[a])
  <2>1. /\ Working(a, task[w], calls, tok[a], newest[a]) /\ NoRef(calls, a)
        /\ Calm(a, task, calls, tok[a], newest[a])
    BY <1>1, SettleOwn
  <2>2. NoRef(calls \o p, a) /\ Working(a, m, calls \o p, tok[a], newest'[a])
    BY <1>0, <2>1, JoinQuiet
  <2> QED
    BY <1>0, <2>1, <2>2, CalmGoesOn
<1> QED
    BY <1>1, SettleWorker

\* The account's task leaves it.
LEMMA SettleLeft ==
    ASSUME TradeTypes, Settling, NEW w \in Tasks, task[w] \in Chores, NEW m,
           NEW p \in Seq(CallBacks), task' = [task EXCEPT ![w] = m], calls' = calls \o p,
           Only(task[w].acc, p), UNCHANGED <<tok, newest, mixed>>,
           NextWork(task[w], m) \/ NoWork(task[w], m),
           Working(task[w].acc, task[w], calls, tok[task[w].acc], newest[task[w].acc])
           /\ NoRef(calls, task[w].acc) =>
               /\ Final(calls \o p, task[w].acc, tok[task[w].acc], newest[task[w].acc])
               /\ Refs(task[w].acc, calls \o p, tok[task[w].acc], newest[task[w].acc])
    PROVE  Settling'
<1> DEFINE a == task[w].acc
<1>0. a \in Traders /\ task \in [Tasks -> Chores \cup {FreeTask}]
    BY ChoreFields DEF TradeTypes, TasksOK
<1>1. ASSUME ~mixed[a] PROVE Calm(a, [task EXCEPT ![w] = m], calls \o p, tok[a], newest[a])
  <2>1. /\ Working(a, task[w], calls, tok[a], newest[a]) /\ NoRef(calls, a)
        /\ Calm(a, task, calls, tok[a], newest[a])
    BY <1>1, SettleOwn
  <2>2. Final(calls \o p, a, tok[a], newest[a]) /\ Refs(a, calls \o p, tok[a], newest[a])
    BY <2>1
  <2> QED
    BY <1>0, <2>1, <2>2, CalmLeft
<1> QED
    BY <1>1, SettleWorker

\* The task leaves, having written its session back, or with nothing to write.
LEMMA SettleWrote ==
    ASSUME TradeTypes, Settling, NEW w \in Tasks, task[w] \in Chores, NEW m,
           NEW p \in Seq(CallBacks), task' = [task EXCEPT ![w] = m], calls' = calls \o p,
           Only(task[w].acc, p), NoRef(p, task[w].acc), UNCHANGED <<tok, newest, mixed>>,
           NextWork(task[w], m) \/ NoWork(task[w], m),
           \/ LastTok(p, task[w].acc, task[w].creds)
           \/ /\ NoTok(p, task[w].acc)
              /\ task[w].phase = "confirm" \/ task[w].creds = task[w].seed
    PROVE  Settling'
<1> DEFINE j == task[w]
           a == j.acc
           t == tok[a]
           n == newest[a]
<1>0. calls \in Seq(CallBacks)
    BY DEF TradeTypes, CallsOK
<1>1. ASSUME Working(a, j, calls, t, n), NoRef(calls, a)
      PROVE  Final(calls \o p, a, t, n) /\ Refs(a, calls \o p, t, n)
  <2>1. NoRef(calls \o p, a)
    BY <1>0, <1>1, JoinQuiet
  <2>2. Refs(a, calls \o p, t, n)
    BY <2>1 DEF Refs, NoRef
  <2>3. n = j.creds /\ (~LastTok(p, a, j.creds) => Final(calls, a, t, n))
    BY <1>1 DEF Working, Final
  <2>4. Final(calls \o p, a, t, n)
    BY <1>0, <2>3, JoinQuiet
  <2> QED
    BY <2>2, <2>4
<1> QED
    BY <1>1, SettleLeft
\* Worker w's task becomes m and p is posted.
Moves(w, m, p) ==
    task' = [task EXCEPT ![w] = m] /\ calls' = calls \o p /\ p \in Seq(CallBacks)

Keeps(j, m) == SameWork(j, m) /\ m.on = j.on /\ m.log = j.log

LEMMA NoPosts == ASSUME CallsOK PROVE calls \o <<>> = calls /\ <<>> \in Seq(CallBacks)
BY ConcatEmptySeq, EmptySeq DEF CallsOK

LEMMA OnePost ==
    ASSUME CallsOK, NEW c \in CallBacks PROVE Append(calls, c) = calls \o <<c>> /\ <<c>> \in Seq(CallBacks)
<1>1. Append(calls, c) = calls \o <<c>>
    BY AppendIsConcat, Zenon DEF CallsOK
<1> QED
    BY <1>1

LEMMA AnsweredShape ==
    ASSUME TradeTypes, NEW w \in Tasks, Answered(w)
    PROVE  \E m : \E r \in {"ok", "fail"} :
              /\ Moves(w, m, <<>>) /\ Keeps(task[w], m) /\ m.phase = "end" /\ m.result = r
              /\ m.creds \in {task[w].creds, newest[task[w].acc] + 1} /\ m.creds \in Gen
              /\ newest' = [newest EXCEPT ![task[w].acc] = IF m.creds = task[w].creds THEN @ ELSE m.creds]
              /\ Effect(task[w], r)
<1> DEFINE j == task[w]
<1>0. j \in Chores /\ TasksOK /\ CallsOK
    BY WhoSteps DEF TradeTypes, TaskStep
<1>1. PICK r \in {"ok", "fail"}, g \in {j.creds, newest[j.acc] + 1} \cap Gen :
          /\ Effect(j, r)
          /\ newest' = [newest EXCEPT ![j.acc] = IF g = j.creds THEN @ ELSE g]
          /\ task' = [task EXCEPT ![w].creds = g, ![w].result = r, ![w].phase = "end",
                                  ![w].got = IF j.kind = "fetch" /\ r = "ok"
                                             THEN FetchResult(j) ELSE {}]
    BY DEF Answered
<1> DEFINE G == IF j.kind = "fetch" /\ r = "ok" THEN FetchResult(j) ELSE {}
           m == [j EXCEPT !.creds = g, !.result = r, !.phase = "end", !.got = G]
<1>2. task' = [task EXCEPT ![w] = m]
    BY <1>0, <1>1 DEF TasksOK
<1>3. Keeps(j, m) /\ m.creds = g /\ m.result = r /\ m.phase = "end"
  <2> HIDE DEF j, G
  <2> QED
    BY <1>0 DEF Chores, Jobs, Keeps, SameWork
<1>4. calls' = calls \o <<>> /\ <<>> \in Seq(CallBacks)
    BY <1>0, NoPosts DEF Answered
<1> HIDE DEF m
<1> QED
    BY <1>1, <1>2, <1>3, <1>4 DEF Moves

LEMMA RefusedShape ==
    ASSUME TradeTypes, NEW w \in Tasks, Refused(w)
    PROVE  \E m : /\ Moves(w, m, <<>>) /\ Keeps(task[w], m) /\ m.phase \in {"login", "end"}
                  /\ m.result = "fail" /\ m.creds = task[w].creds
<1> DEFINE j == task[w]
           P == AfterRefusal(j)
           m == [j EXCEPT !.phase = P, !.result = "fail"]
<1>0. j \in Chores /\ TasksOK /\ CallsOK
    BY WhoSteps DEF TradeTypes, TaskStep
<1>1. task' = [task EXCEPT ![w] = m]
    BY <1>0 DEF Refused, TasksOK
<1>2. P \in {"login", "end"}
    BY DEF AfterRefusal
<1>3. Keeps(j, m) /\ m.phase = P /\ m.result = "fail" /\ m.creds = j.creds
  <2> HIDE DEF j, P
  <2> QED
    BY <1>0 DEF Chores, Jobs, Keeps, SameWork
<1>4. calls' = calls \o <<>> /\ <<>> \in Seq(CallBacks)
    BY <1>0, NoPosts DEF Refused
<1> HIDE DEF m, P
<1> QED
    BY <1>1, <1>2, <1>3, <1>4 DEF Moves

LEMMA MintShape ==
    ASSUME TradeTypes, NEW w \in Tasks, MintTokens(w)
    PROVE  \E m, p :
              /\ Moves(w, m, p) /\ Keeps(task[w], m) /\ m.result = task[w].result
              /\ \/ /\ m.phase = "again" /\ m.creds = newest[task[w].acc] + 1
                    /\ newest' = [newest EXCEPT ![task[w].acc] = @ + 1]
                    /\ m.creds \in Gen /\ p = <<Tok(task[w].acc, m.creds)>>
                 \/ m.phase = "end" /\ m.creds = task[w].creds /\ UNCHANGED newest /\ p = <<>>
<1> DEFINE j == task[w]
           a == j.acc
<1>0. j \in Chores /\ TasksOK /\ CallsOK /\ a \in Traders /\ newest[a] \in Gen
    BY WhoSteps, ChoreFields DEF TradeTypes, TaskStep, Sessions
<1>1. CASE /\ ~relogged[a] /\ newest[a] < MaxGen
           /\ newest' = [newest EXCEPT ![a] = @ + 1]
           /\ task' = [task EXCEPT ![w].creds = newest'[a], ![w].phase = "again"]
           /\ calls' = Append(calls, Tok(a, newest'[a]))
  <2> DEFINE g == newest'[a]
             m == [j EXCEPT !.creds = g, !.phase = "again"]
             p == <<Tok(a, g)>>
  <2>1. g = newest[a] + 1 /\ g \in Gen
    BY <1>0, <1>1, Numbers DEF TradeTypes, Sessions, Gen
  <2>2. task' = [task EXCEPT ![w] = m]
    <3>1. task' = [task EXCEPT ![w].creds = g, ![w].phase = "again"]
        BY <1>1
    <3> HIDE DEF g
    <3> QED
        BY <1>0, <3>1 DEF TasksOK
  <2>3. Keeps(j, m) /\ m.phase = "again" /\ m.result = j.result /\ m.creds = g
    <3> HIDE DEF j, g
    <3> QED
        BY <1>0 DEF Chores, Jobs, Keeps, SameWork
  <2>4. calls' = calls \o p /\ p \in Seq(CallBacks)
    <3>1. Tok(a, g) \in CallBacks /\ calls' = Append(calls, Tok(a, g))
        BY <1>0, <1>1, <2>1, CallKinds
    <3> QED
        BY <1>0, <3>1, OnePost
  <2>5. p = <<Tok(a, m.creds)>>
    BY <2>3
  <2> HIDE DEF m, p, g
  <2> QED
    BY <1>1, <2>1, <2>2, <2>3, <2>4, <2>5 DEF Moves
<1>2. CASE task' = [task EXCEPT ![w].phase = "end"] /\ UNCHANGED <<newest, calls>>
  <2> DEFINE m == [j EXCEPT !.phase = "end"]
  <2>1. task' = [task EXCEPT ![w] = m]
    BY <1>0, <1>2 DEF TasksOK
  <2>2. Keeps(j, m) /\ m.phase = "end" /\ m.result = j.result /\ m.creds = j.creds
    <3> HIDE DEF j
    <3> QED
        BY <1>0 DEF Chores, Jobs, Keeps, SameWork
  <2>3. calls' = calls \o <<>> /\ <<>> \in Seq(CallBacks)
    BY <1>0, <1>2, NoPosts
  <2> HIDE DEF m
  <2> QED
    BY <1>2, <2>1, <2>2, <2>3 DEF Moves
<1> QED
    BY <1>1, <1>2 DEF MintTokens

\* A bulk task's next piece of work, or the end of the task and its record.
LEMMA OnwardShape ==
    ASSUME TradeTypes, NEW w \in Tasks, task[w] \in Chores, task[w].kind \in {"bulkaccept", "bulksend"},
           NEW L \in SUBSET Entries, NEW p \in Seq(CallBacks), Onward(w, L, p)
    PROVE  \E m, d :
              /\ Moves(w, m, p \o d) /\ d \in Seq(CallBacks)
              /\ \/ /\ NextWork(task[w], m) /\ m.log = L /\ d = <<>> /\ m.on \in Offers \cup {0}
                    /\ m.result = "none" /\ (m.kind = "bulksend" => m.on = 0)
                 \/ NoWork(task[w], m) /\ d = <<[do |-> "bulkdone", log |-> L]>>
<1> DEFINE j == task[w]
<1>0. j.todo \subseteq Todo /\ (j.kind = "bulksend" => \A x \in j.todo : x[3] = 0) /\ CallsOK
    BY ChoreFields DEF KindOK, TradeTypes
<1>1. CASE j.todo # {}
  <2>1. PICK x \in j.todo :
            /\ task' = [task EXCEPT ![w] = [Task(j.kind, x, j.todo \ {x}) EXCEPT !.log = L]]
            /\ calls' = calls \o p
    BY <1>1 DEF Onward
  <2> DEFINE m == [Task(j.kind, x, j.todo \ {x}) EXCEPT !.log = L]
  <2>2. /\ m.kind = j.kind /\ m.acc = x[1] /\ m.creds = x[2] /\ m.seed = x[2] /\ m.todo = j.todo \ {x}
        /\ m.phase = "call" /\ m.log = L /\ m.on = x[3] /\ m.result = "none"
    BY DEF Task
  <2>3. x[3] \in Offers \cup {0} /\ (j.kind = "bulksend" => x[3] = 0)
    BY <1>0 DEF Todo
  <2>4. p \o <<>> = p /\ <<>> \in Seq(CallBacks)
    BY ConcatEmptySeq, EmptySeq
  <2>5. NextWork(j, m)
    BY <2>2 DEF NextWork
  <2>6. Moves(w, m, p \o <<>>)
    BY <2>1, <2>4 DEF Moves
  <2> HIDE DEF m
  <2> QED
    BY <2>2, <2>3, <2>4, <2>5, <2>6
<1>2. CASE j.todo = {}
  <2> DEFINE c == [do |-> "bulkdone", log |-> L]
  <2>1. task' = [task EXCEPT ![w] = FreeTask] /\ calls' = calls \o p \o <<c>>
    BY <1>2 DEF Onward, Leave
  <2>2. c \in CallBacks
    BY CallKinds
  <2> HIDE DEF c
  <2>3. <<c>> \in Seq(CallBacks) /\ (calls \o p) \o <<c>> = calls \o (p \o <<c>>)
        /\ p \o <<c>> \in Seq(CallBacks)
    BY <1>0, <2>2, ConcatAssociative, ConcatProperties DEF CallsOK
  <2>4. Moves(w, FreeTask, p \o <<c>>) /\ NoWork(j, FreeTask)
    BY <1>2, <2>1, <2>3 DEF Moves, NoWork
  <2> QED
    BY <2>3, <2>4 DEF c
<1> QED
    BY <1>1, <1>2

\* The end of a send: its entry is in what the task has left to say, or on its way.
LEMMA RecordedShape ==
    ASSUME TradeTypes, NEW w \in Tasks, task[w] \in Chores, task[w].kind \in SendKinds,
           task[w].on \in Send, NEW b \in BOOLEAN, NEW p \in Seq(CallBacks), Recorded(w, b, p)
    PROVE  \E m, d, L :
              /\ Moves(w, m, p \o d) /\ d \in Seq(CallBacks)
              /\ L = task[w].log \cup {<<task[w].on, Outcome(task[w], b)>>} /\ L \in SUBSET Entries
              /\ \/ /\ NextWork(task[w], m) /\ m.log = L /\ d = <<>> /\ m.kind = "bulksend" /\ m.on = 0
                    /\ m.result = "none"
                 \/ /\ NoWork(task[w], m)
                    /\ d \in {<<[do |-> "bulkdone", log |-> L]>>,
                              <<[do |-> "sent", acc |-> task[w].acc, log |-> L]>>}
<1> DEFINE j == task[w]
           e == <<j.on, Outcome(j, b)>>
           L == j.log \cup {e}
<1>0. e \in Entries /\ j.log \in SUBSET Entries /\ j.acc \in Traders /\ CallsOK
    BY OutcomeTypes, ChoreFields DEF TradeTypes
<1> HIDE DEF e
<1>1. L \in SUBSET Entries
    BY <1>0
<1> HIDE DEF L
<1>2. CASE j.kind = "bulksend"
  <2>1. Onward(w, L, p)
    BY <1>2 DEF Recorded, L, e
  <2>2. PICK m, d :
              /\ Moves(w, m, p \o d) /\ d \in Seq(CallBacks)
              /\ \/ /\ NextWork(task[w], m) /\ m.log = L /\ d = <<>> /\ m.on \in Offers \cup {0}
                    /\ m.result = "none" /\ (m.kind = "bulksend" => m.on = 0)
                 \/ NoWork(task[w], m) /\ d = <<[do |-> "bulkdone", log |-> L]>>
    BY <1>1, <1>2, <2>1, OnwardShape
  <2>3. NextWork(j, m) => m.kind = "bulksend"
    BY <1>2 DEF NextWork
  <2> QED
    BY <1>1, <2>2, <2>3 DEF L, e
<1>3. CASE j.kind # "bulksend"
  <2> DEFINE c == [do |-> "sent", acc |-> j.acc, log |-> L]
  <2>1. L = {e} /\ j.todo = {}
    BY <1>3, ChoreFields DEF L, KindOK, SendKinds
  <2>2. task' = [task EXCEPT ![w] = FreeTask] /\ calls' = calls \o p \o <<c>>
    BY <1>3, <2>1 DEF Recorded, Leave, e
  <2>3. c \in CallBacks
    BY <1>0, <1>1, CallKinds
  <2> HIDE DEF c
  <2>4. <<c>> \in Seq(CallBacks) /\ (calls \o p) \o <<c>> = calls \o (p \o <<c>>)
        /\ p \o <<c>> \in Seq(CallBacks)
    BY <1>0, <2>3, ConcatAssociative, ConcatProperties DEF CallsOK
  <2>5. Moves(w, FreeTask, p \o <<c>>) /\ NoWork(j, FreeTask)
    BY <2>1, <2>2, <2>4 DEF Moves, NoWork
  <2> QED
    BY <1>1, <2>4, <2>5 DEF c, L, e
<1> QED
    BY <1>2, <1>3
\* A fetch or an inventory load is over.
LEMMA LoadShape ==
    ASSUME TradeTypes, NEW w \in Tasks, EndFetch(w) \/ EndLoad(w)
    PROVE  Moves(w, FreeTask, TokensIfChanged(task[w])) /\ NoWork(task[w], FreeTask)
<1>0. task[w] \in Chores /\ CallsOK
    BY WhoSteps DEF TradeTypes, TaskStep
<1>1. TokensIfChanged(task[w]) \in Seq(CallBacks) /\ KindOK(task[w])
    BY <1>0, ChoreFields
<1>2. task[w].kind \in {"fetch", "inventory"} /\ calls' = calls \o TokensIfChanged(task[w])
      /\ task' = [task EXCEPT ![w] = FreeTask]
    BY DEF EndFetch, EndLoad, Leave
<1> QED
    BY <1>1, <1>2 DEF Moves, NoWork, KindOK

\* A verb is over.
LEMMA VerbsTail ==
    ASSUME NEW j \in Chores, j.kind \in OfferKinds
    PROVE  \E q \in Seq(CallBacks) :
              Verbs(j) = <<Tok(j.acc, j.creds)>> \o q /\ \A i \in DOMAIN q : q[i].do = "erase"
<1> DEFINE e == [do |-> "erase", acc |-> j.acc, on |-> j.on]
           q == IF j.result = "ok" THEN <<e>> ELSE <<>>
<1>1. e \in CallBacks
    BY ChoreFields, CallKinds
<1>2. e.do = "erase"
    OBVIOUS
<1>3. Verbs(j) = <<Tok(j.acc, j.creds)>> \o q
    BY DEF Verbs
<1> HIDE DEF e
<1>4. q \in Seq(CallBacks) /\ \A i \in DOMAIN q : q[i].do = "erase"
    BY <1>1, <1>2, CallKinds
<1> HIDE DEF q
<1> QED
    BY <1>3, <1>4

LEMMA ActShape ==
    ASSUME TradeTypes, NEW w \in Tasks, EndAct(w)
    PROVE  Moves(w, FreeTask, Verbs(task[w])) /\ NoWork(task[w], FreeTask)
<1> DEFINE j == task[w]
           p == <<Tok(j.acc, j.creds)>>
           q == IF j.result = "ok" THEN <<[do |-> "erase", acc |-> j.acc, on |-> j.on]>> ELSE <<>>
<1>0. j \in Chores /\ CallsOK /\ j.kind \in OfferKinds /\ KindOK(j)
    BY WhoSteps, ChoreFields DEF TradeTypes, TaskStep, EndAct, OfferKinds
<1>1. Verbs(j) \in Seq(CallBacks) /\ Verbs(j) = p \o q
    BY <1>0, VerbTypes DEF Verbs
<1>2. calls' = (calls \o p) \o q /\ task' = [task EXCEPT ![w] = FreeTask] /\ j.kind = "act"
    BY DEF EndAct, Leave
<1>3. p \in Seq(CallBacks) /\ q \in Seq(CallBacks) /\ calls \in Seq(CallBacks)
    BY <1>0, ChoreFields, CallKinds DEF CallsOK
<1> HIDE DEF p, q, j
<1>4. (calls \o p) \o q = calls \o (p \o q)
    BY <1>3, ConcatAssociative
<1> QED
    BY <1>0, <1>1, <1>2, <1>4 DEF Moves, NoWork, KindOK, j

LEMMA AcceptShape ==
    ASSUME TradeTypes, NEW w \in Tasks, EndAccept(w)
    PROVE  \E m, d : /\ Moves(w, m, Verbs(task[w]) \o d) /\ d \in Seq(CallBacks)
                     /\ \/ NextWork(task[w], m) /\ m.log = {} /\ d = <<>> /\ m.on \in Offers \cup {0}
                        \/ NoWork(task[w], m) /\ d = <<[do |-> "bulkdone", log |-> {}]>>
<1>0. task[w] \in Chores /\ task[w].kind = "bulkaccept" /\ task[w].kind \in OfferKinds
    BY WhoSteps DEF TradeTypes, TaskStep, EndAccept, OfferKinds
<1>1. Onward(w, {}, Verbs(task[w])) /\ Verbs(task[w]) \in Seq(CallBacks)
    BY <1>0, VerbTypes DEF EndAccept, Verbs
<1> QED
    BY <1>0, <1>1, OnwardShape

LEMMA SweepShape ==
    ASSUME TradeTypes, NEW w \in Tasks, Sweep(w)
    PROVE  /\ task[w].kind = "sweep"
           /\ \E m : /\ Moves(w, m, <<[do |-> "refresh", acc |-> task[w].acc, gen |-> task[w].creds]>>)
                     /\ \/ NextWork(task[w], m) /\ m.log = {} /\ m.kind = "sweep"
                        \/ NoWork(task[w], m)
<1> DEFINE j == task[w]
           c == [do |-> "refresh", acc |-> j.acc, gen |-> j.creds]
<1>1. j \in Chores /\ j.kind = "sweep" /\ CallsOK
    BY WhoSteps DEF Sweep, TradeTypes, TaskStep
<1>2. c \in CallBacks /\ calls' = Append(calls, c)
    BY <1>1, ChoreFields, CallKinds DEF Sweep
<1> HIDE DEF c
<1>3. calls' = calls \o <<c>> /\ <<c>> \in Seq(CallBacks)
    BY <1>1, <1>2, OnePost
<1>4. CASE j.todo = {}
  <2>1. task' = [task EXCEPT ![w] = FreeTask] /\ NoWork(j, FreeTask)
    BY <1>4 DEF Sweep, Leave, NoWork
  <2>2. Moves(w, FreeTask, <<c>>)
    BY <1>3, <2>1 DEF Moves
  <2> QED
    BY <1>1, <2>1, <2>2 DEF c
<1>5. CASE j.todo # {}
  <2>1. PICK x \in j.todo : task' = [task EXCEPT ![w] = Task("sweep", x, j.todo \ {x})]
    BY <1>5 DEF Sweep
  <2> DEFINE m == Task("sweep", x, j.todo \ {x})
  <2>2. NextWork(j, m) /\ m.log = {} /\ m.kind = "sweep"
    BY <1>1, <2>1 DEF NextWork, Task
  <2>3. Moves(w, m, <<c>>)
    BY <1>3, <2>1 DEF Moves
  <2> HIDE DEF m
  <2> QED
    BY <1>1, <2>2, <2>3 DEF c
<1> QED
    BY <1>4, <1>5

LEMMA GiftShape ==
    ASSUME TradeTypes, NEW w \in Tasks, EndBulkLoad(w)
    PROVE  /\ task[w].kind = "bulksend" /\ task[w].on = 0
           /\ \/ \E m, d :
                    /\ Moves(w, m, TokensIfChanged(task[w]) \o d) /\ d \in Seq(CallBacks) /\ UNCHANGED sends
                    /\ \/ /\ NextWork(task[w], m) /\ m.log = task[w].log /\ d = <<>> /\ m.kind = "bulksend"
                          /\ m.on = 0 /\ m.result = "none"
                       \/ NoWork(task[w], m) /\ d = <<[do |-> "bulkdone", log |-> task[w].log]>>
              \/ \E m : /\ Moves(w, m, TokensIfChanged(task[w])) /\ SameWork(task[w], m)
                        /\ m.log = task[w].log /\ m.on = Len(sends) + 1 /\ m.phase = "call"
                        /\ m.creds = task[w].creds /\ m.result = task[w].result
                        /\ Items[task[w].acc] # {} /\ Len(sends) < MaxSends
                        /\ sends' = Append(sends, [acc |-> task[w].acc, items |-> Items[task[w].acc]])
<1> DEFINE j == task[w]
           p == TokensIfChanged(j)
<1>0. /\ j \in Chores /\ j.kind = "bulksend" /\ j.on = 0 /\ TasksOK
      /\ j.log \in SUBSET Entries /\ p \in Seq(CallBacks)
    BY WhoSteps, ChoreFields DEF EndBulkLoad, TradeTypes, TaskStep
<1> HIDE DEF p
<1>1. CASE Onward(w, j.log, p) /\ UNCHANGED sends
  <2>1. PICK m, d :
              /\ Moves(w, m, p \o d) /\ d \in Seq(CallBacks)
              /\ \/ /\ NextWork(task[w], m) /\ m.log = j.log /\ d = <<>> /\ m.on \in Offers \cup {0}
                    /\ m.result = "none" /\ (m.kind = "bulksend" => m.on = 0)
                 \/ NoWork(task[w], m) /\ d = <<[do |-> "bulkdone", log |-> j.log]>>
    BY <1>0, <1>1, OnwardShape
  <2>2. NextWork(j, m) => m.kind = "bulksend"
    BY <1>0 DEF NextWork
  <2> QED
    BY <1>0, <1>1, <2>1, <2>2 DEF p
<1>2. CASE /\ j.result = "ok" /\ Items[j.acc] # {} /\ Len(sends) < MaxSends
           /\ sends' = Append(sends, [acc |-> j.acc, items |-> Items[j.acc]])
           /\ task' = [task EXCEPT ![w].on = Len(sends) + 1, ![w].phase = "call"]
           /\ calls' = calls \o p
  <2> DEFINE s == Len(sends) + 1
             m == [j EXCEPT !.on = s, !.phase = "call"]
  <2>1. task' = [task EXCEPT ![w] = m]
    BY <1>0, <1>2 DEF TasksOK
  <2>2. /\ SameWork(j, m) /\ m.log = j.log /\ m.on = s /\ m.phase = "call" /\ m.creds = j.creds
        /\ m.result = j.result
    <3> HIDE DEF j, s
    <3> QED
        BY <1>0 DEF Chores, Jobs, SameWork
  <2>3. Moves(w, m, p)
    BY <1>0, <1>2, <2>1 DEF Moves
  <2> HIDE DEF m
  <2> QED
    BY <1>0, <1>2, <2>2, <2>3 DEF p
<1> QED
    BY <1>1, <1>2 DEF EndBulkLoad, p

LEMMA SentShape ==
    ASSUME TradeTypes, NEW w \in Tasks, EndSend(w)
    PROVE  /\ task[w] \in Chores /\ task[w].kind \in SendKinds /\ task[w].on \in Send /\ task[w].phase = "end"
           /\ \/ \E m : /\ ToConfirm(task[w]) /\ Moves(w, m, <<Tok(task[w].acc, task[w].creds)>>)
                        /\ Keeps(task[w], m) /\ m.phase = "confirm" /\ m.creds = task[w].creds
                        /\ m.result = task[w].result
              \/ ~ToConfirm(task[w]) /\ Recorded(w, FALSE, <<Tok(task[w].acc, task[w].creds)>>)
<1> DEFINE j == task[w]
           c == Tok(j.acc, j.creds)
<1>0. j \in Chores /\ TasksOK /\ CallsOK
    BY WhoSteps DEF TradeTypes, TaskStep
<1>1. j.kind \in SendKinds /\ j.on \in Send /\ j.phase = "end" /\ c \in CallBacks
    BY <1>0, ChoreFields DEF EndSend, SendKinds
<1> HIDE DEF c
<1>2. CASE ToConfirm(j)
  <2> DEFINE m == [j EXCEPT !.phase = "confirm"]
  <2>1. task' = [task EXCEPT ![w].phase = "confirm"] /\ calls' = Append(calls, c)
    BY <1>2 DEF EndSend, c
  <2>2. task' = [task EXCEPT ![w] = m]
    BY <1>0, <2>1 DEF TasksOK
  <2>3. Keeps(j, m) /\ m.phase = "confirm" /\ m.creds = j.creds /\ m.result = j.result
    <3> HIDE DEF j
    <3> QED
        BY <1>0 DEF Chores, Jobs, Keeps, SameWork
  <2>4. calls' = calls \o <<c>> /\ <<c>> \in Seq(CallBacks)
    BY <1>0, <1>1, <2>1, OnePost
  <2>5. Moves(w, m, <<c>>)
    BY <2>2, <2>4 DEF Moves
  <2> HIDE DEF m
  <2> QED
    BY <1>0, <1>1, <1>2, <2>3, <2>5 DEF c
<1>3. CASE ~ToConfirm(j)
    BY <1>0, <1>1, <1>3 DEF EndSend, c
<1> QED
    BY <1>2, <1>3

LEMMA ConfirmShape ==
    ASSUME TradeTypes, NEW w \in Tasks, Confirm(w)
    PROVE  /\ task[w] \in Chores /\ task[w].kind \in SendKinds /\ task[w].on \in Send /\ task[w].phase = "confirm"
           /\ \/ /\ task[w].on \in Matching(task[w].on) /\ conf' = [conf EXCEPT ![task[w].on] = "confirmed"]
                 /\ \E b \in BOOLEAN : Recorded(w, b, <<>>)
              \/ Recorded(w, FALSE, <<>>) /\ UNCHANGED conf
              \/ \E m : /\ Moves(w, m, <<>>) /\ Keeps(task[w], m) /\ m.phase = "confirm"
                        /\ m.creds = task[w].creds /\ m.result = task[w].result /\ UNCHANGED conf
<1> DEFINE j == task[w]
<1>0. j \in Chores /\ TasksOK /\ CallsOK
    BY WhoSteps DEF TradeTypes, TaskStep
<1>1. j.kind \in SendKinds /\ j.on \in Send /\ j.phase = "confirm"
    BY <1>0, ChoreFields DEF Confirm, KindOK
<1>2. CASE task' = [task EXCEPT ![w].tries = @ + 1] /\ UNCHANGED calls /\ UNCHANGED conf
  <2> DEFINE m == [j EXCEPT !.tries = @ + 1]
  <2>1. task' = [task EXCEPT ![w] = m]
    BY <1>0, <1>2 DEF TasksOK
  <2>2. Keeps(j, m) /\ m.phase = "confirm" /\ m.creds = j.creds /\ m.result = j.result
    <3> HIDE DEF j
    <3> QED
        BY <1>0, <1>1 DEF Chores, Jobs, Keeps, SameWork
  <2>3. calls' = calls \o <<>> /\ <<>> \in Seq(CallBacks)
    BY <1>0, <1>2, NoPosts
  <2>4. Moves(w, m, <<>>)
    BY <2>1, <2>3 DEF Moves
  <2> HIDE DEF m
  <2> QED
    BY <1>0, <1>1, <1>2, <2>2, <2>4
<1>3. CASE \E s \in Matching(j.on) :
              /\ conf' = [conf EXCEPT ![s] = "confirmed"]
              /\ \E told \in BOOLEAN : Recorded(w, told, <<>>)
  <2>1. \A s \in Matching(j.on) : s = j.on
    BY DEF Matching
  <2> QED
    BY <1>0, <1>1, <1>3, <2>1
<1>4. CASE Recorded(w, FALSE, <<>>) /\ UNCHANGED conf
    BY <1>0, <1>1, <1>4
<1> QED
    BY <1>2, <1>3, <1>4 DEF Confirm
LEMMA QuietPosts == \A a : Only(a, <<>>) /\ NoRef(<<>>, a) /\ NoTok(<<>>, a)
BY DEF Only, NoRef, NoTok

LEMMA GenNumbers == \A g \in Gen : g \in Int
BY DEF Gen

\* A call was answered, refused, or a login was tried.
LEMMA SettleAnswered == ASSUME TradeTypes, Settling, NEW w \in Tasks, Answered(w) PROVE Settling'
<1> DEFINE j == task[w]
           a == j.acc
           n == newest[a]
<1>0. /\ j \in Chores /\ j.phase # "confirm" /\ j.kind # "sweep" /\ a \in Traders
      /\ j.creds \in Int /\ j.seed \in Int /\ n \in Int /\ CallsOK /\ newest \in [Traders -> Gen]
      /\ UNCHANGED <<tok, mixed>>
    BY WhoSteps, ChoreFields, GenNumbers DEF TradeTypes, TaskStep, Answered, Sessions
<1>1. PICK m : /\ Moves(w, m, <<>>) /\ Keeps(j, m) /\ m.phase = "end"
               /\ m.creds \in {j.creds, n + 1}
               /\ newest' = [newest EXCEPT ![a] = IF m.creds = j.creds THEN @ ELSE m.creds]
    BY AnsweredShape
<1>2. \A b \in Traders : b # a => newest'[b] = newest[b]
    BY <1>0, <1>1
<1>3. newest'[a] = IF m.creds = j.creds THEN n ELSE m.creds
    BY <1>0, <1>1
<1>4. ASSUME Working(a, j, calls, tok[a], n)
      PROVE  Working(a, m, calls \o <<>>, tok[a], newest'[a])
  <2>1. n = j.creds /\ j.seed <= j.creds /\ (j.creds = j.seed => tok[a] = n /\ NoTok(calls, a))
    BY <1>0, <1>4 DEF Working
  <2>2. m.seed = j.seed /\ m.kind = j.kind
    BY <1>1 DEF Keeps, SameWork
  <2>3. m.creds \in Int /\ newest'[a] = m.creds /\ m.seed <= m.creds
        /\ (m.creds = m.seed => j.creds = j.seed /\ m.creds = j.creds)
    BY <1>0, <1>1, <1>3, <2>1, <2>2
  <2>4. calls \o <<>> = calls
    BY <1>0, NoPosts
  <2> HIDE DEF j, n
  <2> QED
    BY <1>0, <1>1, <2>1, <2>2, <2>3, <2>4 DEF Working
<1>5. SameWork(j, m) /\ task' = [task EXCEPT ![w] = m] /\ calls' = calls \o <<>>
    BY <1>1 DEF Keeps, Moves
<1> HIDE DEF n
<1> QED
    BY <1>0, <1>2, <1>4, <1>5, QuietPosts, NoPosts, SettleGoesOn DEF n

LEMMA SettleRefused == ASSUME TradeTypes, Settling, NEW w \in Tasks, Refused(w) PROVE Settling'
<1> DEFINE j == task[w]
           a == j.acc
<1>0. /\ j \in Chores /\ j.phase # "confirm" /\ j.kind # "sweep" /\ CallsOK
      /\ UNCHANGED <<tok, mixed, newest>>
    BY WhoSteps DEF TradeTypes, TaskStep, Refused, session
<1>1. PICK m : /\ Moves(w, m, <<>>) /\ Keeps(j, m) /\ m.phase \in {"login", "end"} /\ m.creds = j.creds
    BY RefusedShape
<1>2. calls \o <<>> = calls
    BY <1>0, NoPosts
<1>3. ASSUME Working(a, j, calls, tok[a], newest[a])
      PROVE  Working(a, m, calls \o <<>>, tok[a], newest'[a])
    BY <1>0, <1>1, <1>2, <1>3 DEF Working, Keeps, SameWork
<1>4. SameWork(j, m) /\ task' = [task EXCEPT ![w] = m] /\ calls' = calls \o <<>>
    BY <1>1 DEF Keeps, Moves
<1> QED
    BY <1>0, <1>3, <1>4, QuietPosts, NoPosts, SettleGoesOn

LEMMA SettleMint == ASSUME TradeTypes, Settling, NEW w \in Tasks, MintTokens(w) PROVE Settling'
<1> DEFINE j == task[w]
           a == j.acc
           n == newest[a]
<1>0. /\ j \in Chores /\ j.phase = "login" /\ j.kind # "sweep" /\ a \in Traders
      /\ j.creds \in Int /\ j.seed \in Int /\ n \in Int /\ CallsOK /\ newest \in [Traders -> Gen]
      /\ UNCHANGED <<tok, mixed>>
    BY WhoSteps, ChoreFields, GenNumbers DEF TradeTypes, TaskStep, MintTokens, Sessions, KindOK
<1>1. PICK m, p :
          /\ Moves(w, m, p) /\ Keeps(j, m)
          /\ \/ /\ m.phase = "again" /\ m.creds = n + 1
                /\ newest' = [newest EXCEPT ![a] = @ + 1]
                /\ m.creds \in Gen /\ p = <<Tok(a, m.creds)>>
             \/ m.phase = "end" /\ m.creds = j.creds /\ UNCHANGED newest /\ p = <<>>
    BY MintShape
<1>2. \A b \in Traders : b # a => newest'[b] = newest[b]
    BY <1>0, <1>1
<1>3. SameWork(j, m) /\ task' = [task EXCEPT ![w] = m] /\ calls' = calls \o p /\ p \in Seq(CallBacks)
    BY <1>1 DEF Keeps, Moves
<1>4. CASE m.phase = "end" /\ m.creds = j.creds /\ UNCHANGED newest /\ p = <<>>
  <2>1. calls \o p = calls
    BY <1>0, <1>4, NoPosts
  <2>2. ASSUME Working(a, j, calls, tok[a], n) PROVE Working(a, m, calls \o p, tok[a], newest'[a])
    <3> HIDE DEF j
    <3> QED
        BY <1>0, <1>3, <1>4, <2>1, <2>2 DEF Working, SameWork
  <2> HIDE DEF n
  <2> QED
    BY <1>0, <1>2, <1>3, <1>4, <2>2, QuietPosts, SettleGoesOn DEF n
<1>5. CASE /\ m.phase = "again" /\ m.creds = n + 1
           /\ newest' = [newest EXCEPT ![a] = @ + 1]
           /\ m.creds \in Gen /\ p = <<Tok(a, m.creds)>>
  <2>1. newest'[a] = m.creds
    BY <1>0, <1>5
  <2>2. ASSUME Working(a, j, calls, tok[a], n) PROVE Working(a, m, calls \o p, tok[a], newest'[a])
    <3>1. n = j.creds /\ j.seed <= j.creds
        BY <2>2 DEF Working
    <3>2. m.seed = j.seed /\ m.seed <= m.creds /\ m.seed # m.creds /\ m.kind = j.kind
        BY <1>0, <1>3, <1>5, <3>1 DEF SameWork
    <3> HIDE DEF j, n
    <3> QED
        BY <1>0, <1>5, <2>1, <3>2 DEF Working
  <2>3. Only(a, p) /\ NoRef(p, a)
    <3>1. \A i \in DOMAIN p : p[i] = Tok(a, m.creds)
        BY <1>5
    <3> QED
        BY <3>1 DEF Only, NoRef, IsRef, Tok
  <2> HIDE DEF n
  <2> QED
    BY <1>0, <1>2, <1>3, <2>2, <2>3, SettleGoesOn DEF n
<1> QED
    BY <1>1, <1>4, <1>5
\* Callbacks that are about nobody's tokens.
Other(d) == \A i \in DOMAIN d : d[i].do \notin {"tokens", "refresh"}

LEMMA OtherIsQuiet ==
    /\ Other(<<>>) /\ (\A L : Other(<<[do |-> "bulkdone", log |-> L]>>))
    /\ \A a, L : Other(<<[do |-> "sent", acc |-> a, log |-> L]>>)
    /\ \A d : Other(d) => \A a : Only(a, d) /\ NoTok(d, a) /\ NoRef(d, a)
<1>1. Other(<<>>) /\ (\A L : Other(<<[do |-> "bulkdone", log |-> L]>>))
    BY DEF Other
<1>2. \A a, L : Other(<<[do |-> "sent", acc |-> a, log |-> L]>>)
    BY DEF Other
<1>3. \A d : Other(d) => \A a : Only(a, d) /\ NoTok(d, a) /\ NoRef(d, a)
    BY DEF Other, Only, NoTok, NoRef, IsTok, IsRef
<1> QED
    BY <1>1, <1>2, <1>3

\* The tokens, and then other callbacks.
LEMMA WrittenBack ==
    ASSUME NEW a \in Traders, NEW g \in Gen, NEW d \in Seq(CallBacks), Other(d)
    PROVE  /\ LastTok(<<Tok(a, g)>> \o d, a, g) /\ NoRef(<<Tok(a, g)>> \o d, a)
           /\ Only(a, <<Tok(a, g)>> \o d) /\ <<Tok(a, g)>> \o d \in Seq(CallBacks)
<1> DEFINE p == <<Tok(a, g)>>
<1>1. NoTok(d, a) /\ NoRef(d, a) /\ p \in Seq(CallBacks)
    BY OtherIsQuiet, Posts
<1>2. LastTok(p \o d, a, g) /\ NoRef(p \o d, a)
    BY <1>1, Posts
<1>3. \A i \in DOMAIN p : p[i].acc = a
    BY DEF Tok
<1> HIDE DEF p
<1>4. Only(a, p \o d)
  <2> SUFFICES ASSUME NEW i \in DOMAIN (p \o d), (p \o d)[i].do \in {"tokens", "refresh"}
               PROVE  (p \o d)[i].acc = a
    BY DEF Only
  <2>1. CASE i \in DOMAIN p
    BY <1>1, <1>3, <2>1, InJoin
  <2>2. CASE i \notin DOMAIN p
    BY <1>1, <2>2, InJoin DEF Other
  <2> QED
    BY <2>1, <2>2
<1>5. p \o d \in Seq(CallBacks)
    BY <1>1, ConcatProperties
<1> QED
    BY <1>2, <1>4, <1>5 DEF p

\* The tokens if they changed, and then other callbacks.
LEMMA WrittenIfChanged ==
    ASSUME NEW j \in Chores, NEW d \in Seq(CallBacks), Other(d)
    PROVE  /\ NoRef(TokensIfChanged(j) \o d, j.acc) /\ Only(j.acc, TokensIfChanged(j) \o d)
           /\ TokensIfChanged(j) \o d \in Seq(CallBacks)
           /\ \/ LastTok(TokensIfChanged(j) \o d, j.acc, j.creds)
              \/ NoTok(TokensIfChanged(j) \o d, j.acc) /\ j.creds = j.seed
<1>1. CASE j.creds # j.seed
    BY <1>1, ChoreFields, WrittenBack DEF TokensIfChanged
<1>2. CASE j.creds = j.seed
  <2>1. TokensIfChanged(j) = <<>> /\ <<>> \o d = d
    BY <1>2, ConcatEmptySeq DEF TokensIfChanged
  <2> QED
    BY <1>2, <2>1, OtherIsQuiet
<1> QED
    BY <1>1, <1>2

LEMMA OtherJoin ==
    ASSUME NEW q \in Seq(CallBacks), NEW d \in Seq(CallBacks), Other(q), Other(d)
    PROVE  Other(q \o d) /\ q \o d \in Seq(CallBacks)
<1>1. Other(q \o d)
    BY InJoin DEF Other
<1> QED
    BY <1>1, ConcatProperties

\* A verb's callbacks, and then other callbacks.
LEMMA VerbsWritten ==
    ASSUME NEW j \in Chores, j.kind \in OfferKinds, NEW d \in Seq(CallBacks), Other(d)
    PROVE  /\ NoRef(Verbs(j) \o d, j.acc) /\ Only(j.acc, Verbs(j) \o d)
           /\ Verbs(j) \o d \in Seq(CallBacks) /\ LastTok(Verbs(j) \o d, j.acc, j.creds)
<1>1. PICK q \in Seq(CallBacks) :
          Verbs(j) = <<Tok(j.acc, j.creds)>> \o q /\ \A i \in DOMAIN q : q[i].do = "erase"
    BY VerbsTail
<1>2. Other(q \o d) /\ q \o d \in Seq(CallBacks)
    BY <1>1, OtherJoin DEF Other
<1> DEFINE p == <<Tok(j.acc, j.creds)>>
<1>3. p \in Seq(CallBacks)
    BY ChoreFields
<1>4. Verbs(j) \o d = p \o (q \o d)
  <2> HIDE DEF p
  <2>1. (p \o q) \o d = p \o (q \o d)
    BY <1>3, ConcatAssociative
  <2> QED
    BY <1>1, <2>1 DEF p
<1> QED
    BY <1>2, <1>4, ChoreFields, WrittenBack

LEMMA SettleLoad == ASSUME TradeTypes, Settling, NEW w \in Tasks, EndFetch(w) \/ EndLoad(w) PROVE Settling'
<1> DEFINE j == task[w]
           p == TokensIfChanged(j)
<1>0. j \in Chores /\ UNCHANGED <<tok, newest, mixed>>
    BY WhoSteps DEF TradeTypes, TaskStep, EndFetch, EndLoad, session
<1>1. Moves(w, FreeTask, p) /\ NoWork(j, FreeTask)
    BY LoadShape
<1>2. p \in Seq(CallBacks) /\ p \o <<>> = p
    BY <1>0, ChoreFields, ConcatEmptySeq
<1>3. /\ NoRef(p, j.acc) /\ Only(j.acc, p)
      /\ LastTok(p, j.acc, j.creds) \/ (NoTok(p, j.acc) /\ j.creds = j.seed)
    BY <1>0, <1>2, WrittenIfChanged, OtherIsQuiet, CallKinds
<1> HIDE DEF p
<1> QED
    BY <1>0, <1>1, <1>2, <1>3, SettleWrote DEF Moves

LEMMA SettleAct == ASSUME TradeTypes, Settling, NEW w \in Tasks, EndAct(w) PROVE Settling'
<1> DEFINE j == task[w]
           p == Verbs(j)
<1>0. j \in Chores /\ j.kind \in OfferKinds /\ UNCHANGED <<tok, newest, mixed>>
    BY WhoSteps DEF TradeTypes, TaskStep, EndAct, session, OfferKinds
<1>1. Moves(w, FreeTask, p) /\ NoWork(j, FreeTask)
    BY ActShape
<1>2. p \in Seq(CallBacks) /\ p \o <<>> = p
    BY <1>0, VerbTypes, ConcatEmptySeq
<1>3. NoRef(p, j.acc) /\ Only(j.acc, p) /\ LastTok(p, j.acc, j.creds)
    BY <1>0, <1>2, VerbsWritten, OtherIsQuiet, CallKinds
<1> HIDE DEF p
<1> QED
    BY <1>0, <1>1, <1>2, <1>3, SettleWrote DEF Moves

LEMMA SettleAccept == ASSUME TradeTypes, Settling, NEW w \in Tasks, EndAccept(w) PROVE Settling'
<1> DEFINE j == task[w]
<1>0. j \in Chores /\ j.kind \in OfferKinds /\ UNCHANGED <<tok, newest, mixed>>
    BY WhoSteps DEF TradeTypes, TaskStep, EndAccept, session, OfferKinds
<1>1. PICK m, d : /\ Moves(w, m, Verbs(j) \o d) /\ d \in Seq(CallBacks)
                  /\ \/ NextWork(j, m) /\ d = <<>>
                     \/ NoWork(j, m) /\ d = <<[do |-> "bulkdone", log |-> {}]>>
    BY AcceptShape
<1>2. Other(d)
    BY <1>1, OtherIsQuiet
<1> DEFINE p == Verbs(j) \o d
<1>3. /\ NoRef(p, j.acc) /\ Only(j.acc, p) /\ p \in Seq(CallBacks) /\ LastTok(p, j.acc, j.creds)
    BY <1>0, <1>1, <1>2, VerbsWritten
<1>4. Moves(w, m, p)
    BY <1>1
<1> HIDE DEF p
<1> QED
    BY <1>0, <1>1, <1>3, <1>4, SettleWrote DEF Moves

LEMMA SettleGift == ASSUME TradeTypes, Settling, NEW w \in Tasks, EndBulkLoad(w) PROVE Settling'
<1> DEFINE j == task[w]
           a == j.acc
<1>0. j \in Chores /\ j.phase = "end" /\ j.kind = "bulksend" /\ UNCHANGED <<tok, newest, mixed>> /\ CallsOK
    BY WhoSteps DEF TradeTypes, TaskStep, EndBulkLoad, session
<1>1. ASSUME NEW m, NEW d, Moves(w, m, TokensIfChanged(j) \o d), d \in Seq(CallBacks),
             \/ NextWork(j, m) /\ d = <<>>
             \/ NoWork(j, m) /\ d = <<[do |-> "bulkdone", log |-> j.log]>>
      PROVE  Settling'
  <2>1. Other(d)
    BY <1>1, OtherIsQuiet
  <2> DEFINE p == TokensIfChanged(j) \o d
  <2>2. /\ NoRef(p, a) /\ Only(a, p) /\ p \in Seq(CallBacks)
        /\ LastTok(p, a, j.creds) \/ (NoTok(p, a) /\ j.creds = j.seed)
    BY <1>0, <1>1, <2>1, WrittenIfChanged
  <2>3. Moves(w, m, p)
    BY <1>1
  <2> HIDE DEF p
  <2> QED
    BY <1>0, <1>1, <2>2, <2>3, SettleWrote DEF Moves
<1>2. ASSUME NEW m, Moves(w, m, TokensIfChanged(j)), SameWork(j, m), m.phase = "call", m.creds = j.creds
      PROVE  Settling'
  <2> DEFINE p == TokensIfChanged(j)
  <2>1. p \in Seq(CallBacks) /\ p \o <<>> = p
    BY <1>0, ChoreFields, ConcatEmptySeq
  <2>2. NoRef(p, a) /\ Only(a, p)
    BY <1>0, <2>1, WrittenIfChanged, OtherIsQuiet, CallKinds
  <2>3. ASSUME Working(a, j, calls, tok[a], newest[a]) PROVE Working(a, m, calls \o p, tok[a], newest'[a])
    <3>1. /\ newest[a] = j.creds /\ j.seed <= j.creds
          /\ (j.creds = j.seed => tok[a] = newest[a] /\ NoTok(calls, a))
        BY <1>0, <2>3 DEF Working
    <3>2. j.creds = j.seed => calls \o p = calls
        BY <1>0, NoPosts DEF TokensIfChanged
    <3> HIDE DEF p, j
    <3> QED
        BY <1>0, <1>2, <3>1, <3>2 DEF Working, SameWork
  <2> HIDE DEF p
  <2> QED
    BY <1>0, <1>2, <2>1, <2>2, <2>3, SettleGoesOn DEF Moves, p
<1>3. \/ \E m, d :
            /\ Moves(w, m, TokensIfChanged(j) \o d) /\ d \in Seq(CallBacks)
            /\ \/ NextWork(j, m) /\ d = <<>>
               \/ NoWork(j, m) /\ d = <<[do |-> "bulkdone", log |-> j.log]>>
      \/ \E m : /\ Moves(w, m, TokensIfChanged(j)) /\ SameWork(j, m) /\ m.phase = "call"
                /\ m.creds = j.creds
    BY GiftShape, Zenon
<1> QED
  <2>1. CASE \E m : /\ Moves(w, m, TokensIfChanged(j)) /\ SameWork(j, m) /\ m.phase = "call"
                    /\ m.creds = j.creds
    BY <1>2, <2>1
  <2>2. CASE \E m, d :
            /\ Moves(w, m, TokensIfChanged(j) \o d) /\ d \in Seq(CallBacks)
            /\ \/ NextWork(j, m) /\ d = <<>>
               \/ NoWork(j, m) /\ d = <<[do |-> "bulkdone", log |-> j.log]>>
    <3>1. PICK m, d :
            /\ Moves(w, m, TokensIfChanged(j) \o d) /\ d \in Seq(CallBacks)
            /\ \/ NextWork(j, m) /\ d = <<>>
               \/ NoWork(j, m) /\ d = <<[do |-> "bulkdone", log |-> j.log]>>
        BY <2>2, Zenon
    <3> QED
        BY <1>1, <3>1
  <2> QED
    BY <1>3, <2>1, <2>2

\* The record of a send is made, after its tokens were posted.
LEMMA SettleRecorded ==
    ASSUME TradeTypes, Settling, NEW w \in Tasks, task[w] \in Chores, task[w].kind \in SendKinds,
           task[w].on \in Send, UNCHANGED <<tok, newest, mixed>>, NEW b \in BOOLEAN, NEW p,
           \/ p = <<Tok(task[w].acc, task[w].creds)>>
           \/ p = <<>> /\ task[w].phase = "confirm",
           Recorded(w, b, p)
    PROVE  Settling'
<1> DEFINE j == task[w]
           a == j.acc
<1>0. p \in Seq(CallBacks)
    BY ChoreFields, CallKinds
<1>1. PICK m, d, L :
              /\ Moves(w, m, p \o d) /\ d \in Seq(CallBacks)
              /\ L = task[w].log \cup {<<task[w].on, Outcome(task[w], b)>>} /\ L \in SUBSET Entries
              /\ \/ /\ NextWork(task[w], m) /\ m.log = L /\ d = <<>> /\ m.kind = "bulksend" /\ m.on = 0
                    /\ m.result = "none"
                 \/ /\ NoWork(task[w], m)
                    /\ d \in {<<[do |-> "bulkdone", log |-> L]>>,
                              <<[do |-> "sent", acc |-> task[w].acc, log |-> L]>>}
    BY <1>0, RecordedShape
<1>2. Other(d)
    BY <1>1, OtherIsQuiet
<1>3. /\ Only(a, p \o d) /\ NoRef(p \o d, a) /\ p \o d \in Seq(CallBacks)
      /\ \/ LastTok(p \o d, a, j.creds)
         \/ NoTok(p \o d, a) /\ j.phase = "confirm"
  <2>1. CASE p = <<Tok(a, j.creds)>>
    BY <1>1, <1>2, <2>1, ChoreFields, WrittenBack
  <2>2. CASE p = <<>> /\ j.phase = "confirm"
    <3>1. p \o d = d
        BY <1>1, <2>2, ConcatEmptySeq
    <3> QED
        BY <1>1, <1>2, <2>2, <3>1, OtherIsQuiet
  <2> QED
    BY <2>1, <2>2
<1> QED
    BY <1>1, <1>3, SettleWrote DEF Moves

LEMMA SettleSent == ASSUME TradeTypes, Settling, NEW w \in Tasks, EndSend(w) PROVE Settling'
<1> DEFINE j == task[w]
           a == j.acc
           p == <<Tok(a, j.creds)>>
<1>0. /\ UNCHANGED <<tok, newest, mixed>> /\ j \in Chores /\ j.kind \in SendKinds /\ j.on \in Send
      /\ j.phase = "end" /\ CallsOK
    BY SentShape DEF TradeTypes, EndSend, session
<1>1. ASSUME NEW m, Moves(w, m, p), Keeps(j, m), m.phase = "confirm", m.creds = j.creds PROVE Settling'
  <2>1. p \o <<>> = p /\ p \in Seq(CallBacks)
    BY <1>0, ChoreFields, ConcatEmptySeq
  <2>2. NoRef(p, a) /\ Only(a, p) /\ LastTok(p, a, j.creds)
    <3>1. Other(<<>>) /\ <<>> \in Seq(CallBacks) /\ a \in Traders /\ j.creds \in Gen
        BY <1>0, OtherIsQuiet, CallKinds, ChoreFields
    <3>2. NoRef(p \o <<>>, a) /\ Only(a, p \o <<>>) /\ LastTok(p \o <<>>, a, j.creds)
        BY <3>1, WrittenBack
    <3> QED
        BY <2>1, <3>2
  <2> HIDE DEF p
  <2>3. ASSUME Working(a, j, calls, tok[a], newest[a]) PROVE Working(a, m, calls \o p, tok[a], newest'[a])
    <3>1. newest[a] = j.creds /\ j.seed <= j.creds
        BY <2>3 DEF Working
    <3>2. Final(calls \o p, a, tok[a], newest[a])
        BY <1>0, <2>1, <2>2, <3>1, JoinQuiet DEF CallsOK
    <3>3. m.kind # "sweep" /\ m.seed = j.seed
        BY <1>0, <1>1 DEF Keeps, SameWork, SendKinds
    <3> HIDE DEF j
    <3> QED
        BY <1>0, <1>1, <3>1, <3>2, <3>3 DEF Working
  <2> QED
    BY <1>0, <1>1, <2>1, <2>2, <2>3, SettleGoesOn DEF Moves, Keeps
<1>2. CASE Recorded(w, FALSE, p)
  <2> HIDE DEF p
  <2> QED
    BY <1>0, <1>2, SettleRecorded DEF p
<1> QED
    BY <1>1, <1>2, SentShape

LEMMA SettleConfirm == ASSUME TradeTypes, Settling, NEW w \in Tasks, Confirm(w) PROVE Settling'
<1> DEFINE j == task[w]
           a == j.acc
<1>0. /\ UNCHANGED <<tok, newest, mixed>> /\ j \in Chores /\ j.kind \in SendKinds /\ j.on \in Send
      /\ j.phase = "confirm" /\ CallsOK
    BY ConfirmShape DEF TradeTypes, Confirm, session
<1>1. ASSUME NEW b \in BOOLEAN, Recorded(w, b, <<>>) PROVE Settling'
    BY <1>0, <1>1, SettleRecorded
<1>2. ASSUME NEW m, Moves(w, m, <<>>), Keeps(j, m), m.phase = "confirm", m.creds = j.creds PROVE Settling'
  <2>1. calls \o <<>> = calls
    BY <1>0, NoPosts
  <2>2. ASSUME Working(a, j, calls, tok[a], newest[a])
        PROVE  Working(a, m, calls \o <<>>, tok[a], newest'[a])
    BY <1>0, <1>2, <2>1, <2>2 DEF Working, Keeps, SameWork
  <2> QED
    BY <1>0, <1>2, <2>2, QuietPosts, NoPosts, SettleGoesOn DEF Moves, Keeps
<1> QED
    BY <1>1, <1>2, ConfirmShape

LEMMA SettleSweep == ASSUME TradeTypes, Settling, NEW w \in Tasks, Sweep(w) PROVE Settling'
<1> DEFINE j == task[w]
           a == j.acc
           c == [do |-> "refresh", acc |-> a, gen |-> j.creds]
           p == <<c>>
<1>0. /\ UNCHANGED <<tok, newest, mixed>> /\ j \in Chores /\ j.kind = "sweep" /\ j.phase # "confirm"
      /\ calls \in Seq(CallBacks)
    BY WhoSteps, ChoreFields DEF TradeTypes, TaskStep, Sweep, session, KindOK, CallsOK
<1>1. PICK m : Moves(w, m, p) /\ (NextWork(j, m) \/ NoWork(j, m))
    BY SweepShape
<1>2. DOMAIN p = {1} /\ p[1] = c /\ IsRef(c, a) /\ ~IsTok(c, a) /\ c.gen = j.creds /\ p \in Seq(CallBacks)
    BY <1>1 DEF IsRef, IsTok, Moves
<1> HIDE DEF c, p
<1>3. NoTok(p, a) /\ Only(a, p)
    BY <1>2 DEF NoTok, Only, IsRef
<1>4. ASSUME Working(a, j, calls, tok[a], newest[a]), NoRef(calls, a)
      PROVE  Final(calls \o p, a, tok[a], newest[a]) /\ Refs(a, calls \o p, tok[a], newest[a])
  <2>1. tok[a] = newest[a] /\ NoTok(calls, a) /\ newest[a] = j.creds
    BY <1>0, <1>4 DEF Working
  <2>2. NoTok(calls \o p, a)
    BY <1>0, <1>2, <1>3, <2>1, JoinQuiet
  <2>3. \A i \in DOMAIN (calls \o p) : IsRef((calls \o p)[i], a) => i = Len(calls) + 1 /\ (calls \o p)[i] = c
    BY <1>0, <1>2, <1>4, InJoin DEF NoRef
  <2> QED
    BY <1>2, <2>1, <2>2, <2>3 DEF Final, Refs
<1> QED
    BY <1>0, <1>1, <1>2, <1>3, <1>4, SettleLeft DEF Moves

LEMMA SettlingInit == ASSUME TradeInit PROVE Settling
<1>1. DOMAIN calls = {}
    BY DEF TradeInit
<1>2. \A a : \A w \in Tasks : ~Hold(a, task[w])
    BY DEF TradeInit, FreeTask, Hold
<1>3. \A a \in Traders : tok[a] = newest[a]
    BY DEF TradeInit
<1> QED
    BY <1>1, <1>2, <1>3 DEF Settling, Calm, Refs, Final, NoTok

LEMMA SettlingStep == ASSUME TradeTypes, Settling, [TradeNext]_trVars PROVE Settling'
<1>1. CASE UNCHANGED <<task, calls, tok, newest, mixed>>
    BY <1>1 DEF Settling, Calm
<1>2. ASSUME \/ \E A \in {{}} \cup {{a} : a \in Traders} : OpenModal(A)
             \/ CloseModal \/ (\E a \in Traders : ClickChip(a) \/ Expire(a) \/ TimePasses(a))
             \/ (\E i \in TraderItems : ClickItem(i)) \/ Acknowledge \/ (\E s \in Send : ShowConf(s))
             \/ UNCHANGED trVars
      PROVE  UNCHANGED <<task, calls, tok, newest, mixed>>
    BY <1>2 DEF OpenModal, CloseModal, ClickChip, ClickItem, Acknowledge, Expire, TimePasses, ShowConf,
                trVars, session
<1>3. ASSUME NEW w \in Tasks, TaskStep(w) PROVE Settling'
    BY <1>3, SettleAnswered, SettleRefused, SettleMint, SettleLoad, SettleAct, SettleAccept, SettleSweep,
       SettleGift, SettleSent, SettleConfirm DEF TaskStep
<1> QED
    BY <1>1, <1>2, <1>3, SettlePress, SettleApply DEF TradeNext, TraderItems

LEMMA SettlingSettles == ASSUME Settling PROVE TokensSettle
<1> SUFFICES ASSUME NEW a \in Traders, ~Outstanding(a, calls), ~mixed[a] PROVE tok[a] = newest[a]
    BY DEF TokensSettle
<1>1. Calm(a, task, calls, tok[a], newest[a])
    BY DEF Settling
<1>2. \A w \in Tasks : ~Hold(a, task[w])
    BY DEF Outstanding, Hold, Busy
<1>3. NoTok(calls, a)
    BY DEF Outstanding, NoTok, IsTok
<1> QED
    BY <1>1, <1>2, <1>3 DEF Calm, Final, LastTok, NoTok
(***************************************************************************)
(* Sends: every offer the user built is worked on by one task, or recorded *)
(* in one task's log, or in one callback, or in the history; and what is   *)
(* recorded of it stays true.                                              *)
(***************************************************************************)
Sending(j) == j.kind \in SendKinds /\ j.on # 0
Named(L) == {e[1] : e \in L}
LogOf(j) == IF j.kind \in SendKinds THEN j.log ELSE {}
Claims(j) == Named(LogOf(j)) \cup (IF Sending(j) THEN {j.on} ELSE {})
CallLog(c) == IF c.do \in {"sent", "bulkdone"} THEN c.log ELSE {}

Held == UNION {Claims(task[w]) : w \in Tasks}
ClaimsOf(q) == UNION {Named(CallLog(q[i])) : i \in DOMAIN q}
Claimed == Held \cup ClaimsOf(calls)

\* No send is claimed twice.
Spread(q) == \A i, k \in DOMAIN q : i # k => Named(CallLog(q[i])) \cap Named(CallLog(q[k])) = {}
Apart ==
    /\ \A v, w \in Tasks : v # w => Claims(task[v]) \cap Claims(task[w]) = {}
    /\ Spread(calls)
    /\ Held \cap ClaimsOf(calls) = {}
    /\ \A w \in Tasks : Sending(task[w]) => task[w].on \notin Named(LogOf(task[w]))

\* What an entry says of a send.
Says(s, out, md, cf) ==
    /\ out = "sent" => md[s] = 1 /\ cf[s] = "none"
    /\ out = "needs confirmation" => md[s] = 1 /\ cf[s] # "none"
    /\ out = "confirmed" => cf[s] = "confirmed"

TrueLog(L, md, cf) ==
    \A e \in L : Says(e[1], e[2], md, cf) /\ \A f \in L : f[1] = e[1] => f = e

Truthful ==
    /\ \A w \in Tasks : TrueLog(LogOf(task[w]), made, conf)
    /\ \A i \in DOMAIN calls : TrueLog(CallLog(calls[i]), made, conf)
    /\ \A s \in Send : \A i \in DOMAIN history[s] : Says(s, history[s][i], made, conf)

\* How far a send has come whose task is still out.
Progress(j, md, cf) ==
    /\ j.phase \in {"call", "again", "login"} => md[j.on] = 0 /\ cf[j.on] = "none"
    /\ j.phase = "login" => j.result = "fail"
    /\ j.phase = "end" => /\ j.result \in {"ok", "fail"} /\ md[j.on] <= 1
                          /\ j.result = "ok" => md[j.on] = 1
    /\ j.phase = "confirm" => j.result = "ok" /\ md[j.on] = 1 /\ cf[j.on] # "none" /\ AutoConfirm

Progressing == \A w \in Tasks : Sending(task[w]) => Progress(task[w], made, conf)

\* An offer gives away items of the account it is sent from.
Gives(n) == n.items \subseteq Items[n.acc] /\ n.items # {}
Sends ==
    /\ Claimed \subseteq DOMAIN sends
    /\ \A s \in DOMAIN sends : Gives(sends[s]) /\ Len(history[s]) = (IF s \in Claimed THEN 0 ELSE 1)
    /\ \A s \in Send \ DOMAIN sends : made[s] = 0 /\ conf[s] = "none" /\ history[s] = <<>>
    /\ \A s \in Send : made[s] <= 1 /\ (conf[s] = "confirmed" => AutoConfirm)

ItemsOfOne == \A a \in Traders : modal.accounts = {a} => modal.selected \subseteq Items[a]

Accounted == Apart /\ Truthful /\ Sends /\ Progressing /\ ItemsOfOne

\* A sequence of callbacks that claims what log L names, in one callback.
Carries(p, L) ==
    /\ Spread(p) /\ ClaimsOf(p) = Named(L)
    /\ \A i \in DOMAIN p : CallLog(p[i]) \in {{}, L}
Silent(q) == \A i \in DOMAIN q : CallLog(q[i]) = {}

LEMMA JoinClaims ==
    ASSUME NEW q \in Seq(CallBacks), NEW p \in Seq(CallBacks), Spread(q), Spread(p),
           ClaimsOf(q) \cap ClaimsOf(p) = {}
    PROVE  Spread(q \o p) /\ ClaimsOf(q \o p) = ClaimsOf(q) \cup ClaimsOf(p)
<1> DEFINE r == q \o p
           At(i, s) == s \in Named(CallLog(r[i]))
<1>1. \A i \in DOMAIN r : \/ i \in DOMAIN q /\ r[i] = q[i]
                          \/ i - Len(q) \in DOMAIN p /\ r[i] = p[i - Len(q)] /\ i = Len(q) + (i - Len(q))
    BY InJoin
<1>2. /\ \A i \in DOMAIN q : i \in DOMAIN r /\ r[i] = q[i]
      /\ \A i \in DOMAIN p : Len(q) + i \in DOMAIN r /\ r[Len(q) + i] = p[i]
    BY InJoin
<1> HIDE DEF r
<1>3. ClaimsOf(r) = ClaimsOf(q) \cup ClaimsOf(p)
  <2>1. ASSUME NEW s \in ClaimsOf(r) PROVE s \in ClaimsOf(q) \cup ClaimsOf(p)
    <3>1. PICK i \in DOMAIN r : s \in Named(CallLog(r[i]))
        BY <2>1 DEF ClaimsOf
    <3> QED
        BY <1>1, <3>1 DEF ClaimsOf
  <2>2. ASSUME NEW s \in ClaimsOf(q) PROVE s \in ClaimsOf(r)
    BY <1>2, <2>2 DEF ClaimsOf
  <2>3. ASSUME NEW s \in ClaimsOf(p) PROVE s \in ClaimsOf(r)
    BY <1>2, <2>3 DEF ClaimsOf
  <2> QED
    BY <2>1, <2>2, <2>3
<1>4. Spread(r)
  <2> SUFFICES ASSUME NEW i \in DOMAIN r, NEW k \in DOMAIN r, i # k, NEW s, At(i, s), At(k, s) PROVE FALSE
    BY DEF Spread
  <2>1. CASE i \in DOMAIN q /\ r[i] = q[i] /\ k \in DOMAIN q /\ r[k] = q[k]
    BY <2>1 DEF Spread
  <2>2. \A x \in DOMAIN q, y \in DOMAIN p :
            s \in Named(CallLog(q[x])) /\ s \in Named(CallLog(p[y])) => FALSE
    BY DEF ClaimsOf
  <2>3. CASE /\ i - Len(q) \in DOMAIN p /\ r[i] = p[i - Len(q)] /\ i = Len(q) + (i - Len(q))
             /\ k - Len(q) \in DOMAIN p /\ r[k] = p[k - Len(q)] /\ k = Len(q) + (k - Len(q))
    <3>1. i - Len(q) # k - Len(q)
        BY <2>3
    <3> HIDE DEF At
    <3>2. Named(CallLog(p[i - Len(q)])) \cap Named(CallLog(p[k - Len(q)])) = {}
        BY <2>3, <3>1 DEF Spread
    <3> QED
        BY <2>3, <3>2 DEF At
  <2> QED
    BY <1>1, <2>1, <2>2, <2>3
<1> QED
    BY <1>3, <1>4 DEF r

LEMMA SilentPosts ==
    /\ \A q : Silent(q) => Carries(q, {})
    /\ Silent(<<>>) /\ (\A a, g : Silent(<<Tok(a, g)>>)) /\ (\A j : Silent(TokensIfChanged(j)))
    /\ \A a, g : Silent(<<[do |-> "refresh", acc |-> a, gen |-> g]>>)
<1>1. ASSUME NEW q, Silent(q) PROVE Carries(q, {})
    BY <1>1 DEF Silent, Carries, Spread, ClaimsOf, Named
<1>2. Silent(<<>>) /\ (\A a, g : Silent(<<Tok(a, g)>>))
    BY DEF Silent, CallLog, Tok
<1>3. \A j : Silent(TokensIfChanged(j))
    BY <1>2 DEF TokensIfChanged
<1>4. \A a, g : Silent(<<[do |-> "refresh", acc |-> a, gen |-> g]>>)
    BY DEF Silent, CallLog
<1> QED
    BY <1>1, <1>2, <1>3, <1>4

\* A verb posts no record.
LEMMA SilentVerbs == ASSUME NEW j \in Chores, j.kind \in OfferKinds PROVE Silent(Verbs(j))
<1>1. PICK q \in Seq(CallBacks) :
          Verbs(j) = <<Tok(j.acc, j.creds)>> \o q /\ \A i \in DOMAIN q : q[i].do = "erase"
    BY VerbsTail
<1> DEFINE p == <<Tok(j.acc, j.creds)>>
<1>2. Silent(q) /\ Silent(p) /\ p \in Seq(CallBacks) /\ Verbs(j) = p \o q
    BY <1>1, SilentPosts, ChoreFields DEF Silent, CallLog
<1> HIDE DEF p
<1>3. \A i \in DOMAIN (p \o q) : CallLog((p \o q)[i]) = {}
    BY <1>2, InJoin DEF Silent
<1> QED
    BY <1>2, <1>3 DEF Silent

\* A record is posted after other callbacks, or none is.
LEMMA RecordPosts ==
    ASSUME NEW q \in Seq(CallBacks), Silent(q), NEW L \in SUBSET Entries, NEW a \in Traders
    PROVE  /\ \A d \in {<<[do |-> "bulkdone", log |-> L]>>, <<[do |-> "sent", acc |-> a, log |-> L]>>} :
                 Carries(q \o d, L)
           /\ Carries(q \o <<>>, {})
<1>1. ASSUME NEW c \in CallBacks, CallLog(c) = L PROVE Carries(q \o <<c>>, L)
  <2> DEFINE d == <<c>>
  <2>1. d \in Seq(CallBacks) /\ DOMAIN d = {1} /\ d[1] = c
    OBVIOUS
  <2> HIDE DEF d
  <2>2. Spread(d) /\ ClaimsOf(d) = Named(L) /\ \A i \in DOMAIN d : CallLog(d[i]) = L
    BY <1>1, <2>1 DEF Spread, ClaimsOf
  <2>3. Spread(q) /\ ClaimsOf(q) = {}
    BY SilentPosts DEF Carries, Named
  <2>4. Spread(q \o d) /\ ClaimsOf(q \o d) = Named(L)
    <3>1. ClaimsOf(q) \cap ClaimsOf(d) = {}
        BY <2>3
    <3>2. Spread(q \o d) /\ ClaimsOf(q \o d) = ClaimsOf(q) \cup ClaimsOf(d)
        BY <2>1, <2>2, <2>3, <3>1, JoinClaims
    <3> QED
        BY <2>2, <2>3, <3>2
  <2>5. \A i \in DOMAIN (q \o d) : CallLog((q \o d)[i]) \in {{}, L}
    BY <2>1, <2>2, InJoin DEF Silent
  <2> QED
    BY <2>4, <2>5 DEF Carries, d
<1>2. /\ [do |-> "bulkdone", log |-> L] \in CallBacks /\ CallLog([do |-> "bulkdone", log |-> L]) = L
      /\ [do |-> "sent", acc |-> a, log |-> L] \in CallBacks
      /\ CallLog([do |-> "sent", acc |-> a, log |-> L]) = L
    BY CallKinds DEF CallLog
<1>3. q \o <<>> = q
    BY ConcatEmptySeq
<1> QED
    BY <1>1, <1>2, <1>3, SilentPosts
\* One worker's task becomes m; what it claims goes with it, or into the callbacks posted.
LEMMA ClaimsMove ==
    ASSUME TasksOK, CallsOK, Apart, NEW w \in Tasks, NEW m, NEW p, NEW L, NEW N, Moves(w, m, p), Carries(p, L),
           Claims(m) \cap Named(L) = {}, Claims(m) \cup Named(L) = Claims(task[w]) \cup N,
           N \cap Claimed = {}, Sending(m) => m.on \notin Named(LogOf(m))
    PROVE  Apart' /\ Claimed' = Claimed \cup N
<1>1. task'[w] = m /\ \A v \in Tasks \ {w} : task'[v] = task[v]
    BY DEF TasksOK, Moves
<1>2. Claims(task[w]) \subseteq Held /\ \A v \in Tasks \ {w} : Claims(task[v]) \subseteq Held \ Claims(task[w])
    BY DEF Held, Apart
<1>3. Held' = (Held \ Claims(task[w])) \cup Claims(m)
  <2>1. ASSUME NEW s \in Held' PROVE s \in (Held \ Claims(task[w])) \cup Claims(m)
    <3>1. PICK v \in Tasks : s \in Claims(task'[v])
        BY <2>1 DEF Held
    <3> QED
        BY <1>1, <1>2, <3>1
  <2>2. ASSUME NEW s \in Held, s \notin Claims(task[w]) PROVE s \in Held'
    <3>1. PICK v \in Tasks : s \in Claims(task[v])
        BY <2>2 DEF Held
    <3> QED
        BY <1>1, <2>2, <3>1 DEF Held
  <2>3. Claims(m) \subseteq Held'
    BY <1>1 DEF Held
  <2> QED
    BY <2>1, <2>2, <2>3
<1>4. ClaimsOf(calls') = ClaimsOf(calls) \cup Named(L) /\ Spread(calls')
  <2>1. Named(L) \cap ClaimsOf(calls) = {}
    BY <1>2 DEF Apart, Claimed
  <2> QED
    BY <2>1, JoinClaims DEF Carries, Moves, CallsOK, Apart
<1>5. Claimed' = Claimed \cup N
    BY <1>2, <1>3, <1>4 DEF Claimed
<1>6. Held' \cap ClaimsOf(calls') = {}
  <2>1. Held \cap ClaimsOf(calls) = {} /\ N \cap Held = {} /\ N \cap ClaimsOf(calls) = {}
    BY DEF Apart, Claimed
  <2> QED
    BY <1>2, <1>3, <1>4, <2>1
<1>7. ASSUME NEW u \in Tasks, NEW v \in Tasks, u # v PROVE Claims(task'[u]) \cap Claims(task'[v]) = {}
  <2>1. \A x \in Tasks \ {w} : Claims(m) \cap Claims(task[x]) = {}
    BY <1>2 DEF Claimed
  <2>2. \A x, y \in Tasks : x # y => Claims(task[x]) \cap Claims(task[y]) = {}
    BY DEF Apart
  <2> QED
    BY <1>1, <1>7, <2>1, <2>2
<1>8. \A v \in Tasks : Sending(task'[v]) => task'[v].on \notin Named(LogOf(task'[v]))
    BY <1>1 DEF Apart
<1> QED
    BY <1>4, <1>5, <1>6, <1>7, <1>8 DEF Apart

\* Where send s stands is as it was.
Unmoved(s) == made'[s] = made[s] /\ conf'[s] = conf[s]

LEMMA SaysStays ==
    ASSUME NEW s, NEW out, Says(s, out, made, conf), Unmoved(s)
    PROVE  Says(s, out, made', conf')
BY Zenon DEF Says, Unmoved

\* What is recorded of sends that stand as they did is still true.
LEMMA LogsStay ==
    ASSUME NEW L, TrueLog(L, made, conf), \A s \in Named(L) : Unmoved(s)
    PROVE  TrueLog(L, made', conf')
<1>1. ASSUME NEW e \in L PROVE Says(e[1], e[2], made', conf') /\ \A f \in L : f[1] = e[1] => f = e
    BY <1>1, SaysStays DEF TrueLog, Named
<1> QED
    BY <1>1 DEF TrueLog

\* What a worker's step may change of the sends: where its own stands.
Own(w) == \A s \in Send : \/ Unmoved(s)
                          \/ /\ Sending(task[w]) /\ s = task[w].on
                             /\ made'[s] <= 1 /\ (conf'[s] = "confirmed" => AutoConfirm)

LEMMA OwnIsOwn ==
    ASSUME TradeTypes, Accounted, NEW w \in Tasks, task[w] \in Chores \cup {FreeTask}, Own(w)
    PROVE  /\ \A v \in Tasks \ {w} : \A s \in Claims(task[v]) : Unmoved(s)
           /\ \A s \in Named(LogOf(task[w])) : Unmoved(s)
           /\ \A i \in DOMAIN calls : \A s \in Named(CallLog(calls[i])) : Unmoved(s)
           /\ \A s \in Send : s \notin Claimed => Unmoved(s)
           /\ Claimed \subseteq Send
<1>1. Claimed \subseteq Send
    BY DEF Accounted, Sends, TradeTypes, SendsOK
<1>2. /\ \A v \in Tasks : Claims(task[v]) \subseteq Claimed /\ Named(LogOf(task[v])) \subseteq Claims(task[v])
      /\ \A i \in DOMAIN calls : Named(CallLog(calls[i])) \subseteq ClaimsOf(calls)
      /\ ClaimsOf(calls) \subseteq Claimed
    BY DEF Claimed, Held, ClaimsOf, Claims
<1>3. Sending(task[w]) => task[w].on \in Claims(task[w]) /\ task[w].on \notin Named(LogOf(task[w]))
    BY DEF Claims, Accounted, Apart
<1>4. /\ \A v \in Tasks \ {w} : Claims(task[v]) \cap Claims(task[w]) = {}
      /\ Claims(task[w]) \cap ClaimsOf(calls) = {}
    BY DEF Accounted, Apart, Held
<1> HIDE DEF Sending, Unmoved
<1> QED
    BY <1>1, <1>2, <1>3, <1>4 DEF Own

\* A worker's step, from what becomes of the sends its task claims and of fresh ones, N.
LEMMA WorkerAccounts ==
    ASSUME TradeTypes, Accounted, NEW w \in Tasks, task[w] \in Chores \cup {FreeTask}, NEW m, NEW p, NEW L, NEW N,
           Moves(w, m, p), Carries(p, L),
           Claims(m) \cap Named(L) = {}, Claims(m) \cup Named(L) = Claims(task[w]) \cup N,
           N \cap DOMAIN sends = {}, DOMAIN sends' = DOMAIN sends \cup N, N \subseteq Send,
           \A s \in DOMAIN sends : sends'[s] = sends[s], \A s \in N : Gives(sends'[s]),
           Sending(m) => m.on \notin Named(LogOf(m)) /\ Progress(m, made', conf'),
           TrueLog(LogOf(m), made', conf'), TrueLog(L, made', conf'), Own(w),
           UNCHANGED history, ItemsOfOne'
    PROVE  Accounted'
<1>0. N \cap Claimed = {} /\ Claimed \subseteq DOMAIN sends
    BY DEF Accounted, Sends
<1>1. Apart' /\ Claimed' = Claimed \cup N
    BY <1>0, ClaimsMove DEF Accounted, TradeTypes
<1>2. /\ \A v \in Tasks \ {w} : \A s \in Claims(task[v]) : Unmoved(s)
      /\ \A s \in Named(LogOf(task[w])) : Unmoved(s)
      /\ \A i \in DOMAIN calls : \A s \in Named(CallLog(calls[i])) : Unmoved(s)
      /\ \A s \in Send : s \notin Claimed => Unmoved(s)
      /\ Claimed \subseteq Send
    BY OwnIsOwn
<1>3. task'[w] = m /\ (\A v \in Tasks \ {w} : task'[v] = task[v]) /\ calls' = calls \o p /\ p \in Seq(CallBacks)
    BY DEF Moves, TradeTypes, TasksOK
<1>4. Truthful'
  <2>1. ASSUME NEW v \in Tasks PROVE TrueLog(LogOf(task'[v]), made', conf')
    <3>1. CASE v # w
      <4>1. \A s \in Named(LogOf(task[v])) : Unmoved(s)
        BY <1>2, <3>1 DEF Claims
      <4>2. TrueLog(LogOf(task[v]), made, conf)
        BY DEF Accounted, Truthful
      <4> QED
        BY <1>3, <3>1, <4>1, <4>2, LogsStay
    <3> QED
        BY <1>3, <3>1
  <2>2. ASSUME NEW i \in DOMAIN calls' PROVE TrueLog(CallLog(calls'[i]), made', conf')
    <3>0. TrueLog({}, made', conf')
        BY DEF TrueLog
    <3>1. ASSUME NEW k \in DOMAIN calls PROVE TrueLog(CallLog(calls[k]), made', conf')
      <4>1. TrueLog(CallLog(calls[k]), made, conf)
        BY DEF Accounted, Truthful
      <4> QED
        BY <1>2, <4>1, LogsStay
    <3>2. \A k \in DOMAIN p : TrueLog(CallLog(p[k]), made', conf')
        BY <3>0 DEF Carries
    <3>3. \/ i \in DOMAIN calls /\ calls'[i] = calls[i]
          \/ i - Len(calls) \in DOMAIN p /\ calls'[i] = p[i - Len(calls)]
        BY <1>3, InJoin DEF TradeTypes, CallsOK
    <3> QED
        BY <3>1, <3>2, <3>3
  <2>3. ASSUME NEW s \in Send, NEW i \in DOMAIN history'[s] PROVE Says(s, history'[s][i], made', conf')
    <3>1. s \notin Claimed
      <4> SUFFICES ASSUME s \in Claimed PROVE FALSE
        OBVIOUS
      <4>1. Len(history[s]) = 0 /\ history[s] \in Seq(Outcomes)
        BY <1>0 DEF Accounted, Sends, TradeTypes, SendsOK
      <4> QED
        BY <2>3, <4>1
    <3>2. Says(s, history[s][i], made, conf) /\ Unmoved(s)
        BY <1>2, <2>3, <3>1 DEF Accounted, Truthful
    <3> QED
        BY <1>3, <3>2, SaysStays
  <2> QED
    BY <2>1, <2>2, <2>3 DEF Truthful
<1>5. Progressing'
  <2>1. ASSUME NEW v \in Tasks \ {w}, Sending(task[v]) PROVE Progress(task[v], made', conf')
    <3>1. Unmoved(task[v].on)
        BY <1>2, <2>1 DEF Claims
    <3>2. Progress(task[v], made, conf)
        BY <2>1 DEF Accounted, Progressing
    <3> QED
        BY <3>1, <3>2 DEF Progress, Unmoved
  <2> QED
    BY <1>3, <2>1 DEF Progressing
<1>6. Sends'
  <2>1. Claimed' \subseteq DOMAIN sends'
    BY <1>0, <1>1
  <2>2. ASSUME NEW s \in DOMAIN sends'
        PROVE  Gives(sends'[s]) /\ Len(history'[s]) = (IF s \in Claimed' THEN 0 ELSE 1)
    <3>1. CASE s \in DOMAIN sends
        BY <1>1, <3>1 DEF Accounted, Sends
    <3>2. CASE s \in N
      <4>1. history[s] = <<>>
        BY <3>2 DEF Accounted, Sends
      <4> QED
        BY <1>1, <3>2, <4>1
    <3> QED
        BY <2>2, <3>1, <3>2
  <2>3. ASSUME NEW s \in Send \ DOMAIN sends' PROVE made'[s] = 0 /\ conf'[s] = "none" /\ history'[s] = <<>>
    BY <1>0, <1>2, <2>3 DEF Accounted, Sends, Unmoved
  <2>4. ASSUME NEW s \in Send PROVE made'[s] <= 1 /\ (conf'[s] = "confirmed" => AutoConfirm)
    BY DEF Accounted, Sends, Own, Unmoved
  <2> QED
    BY <2>1, <2>2, <2>3, <2>4 DEF Sends
<1> QED
    BY <1>1, <1>4, <1>5, <1>6 DEF Accounted
\* The task goes on with the same send, or with none.
LEMMA KeepsAccounts ==
    ASSUME TradeTypes, Accounted, NEW w \in Tasks, task[w] \in Chores, NEW m, NEW p, Moves(w, m, p), Silent(p),
           Keeps(task[w], m), Own(w), UNCHANGED <<sends, history, modal>>,
           Sending(task[w]) => Progress(m, made', conf')
    PROVE  Accounted'
<1>1. LogOf(m) = LogOf(task[w]) /\ (Sending(m) <=> Sending(task[w])) /\ m.on = task[w].on
    BY DEF Keeps, SameWork, LogOf, Sending
<1>2. Claims(m) = Claims(task[w]) /\ (Sending(m) => m.on \notin Named(LogOf(m)))
    BY <1>1 DEF Claims, Accounted, Apart
<1>3. Carries(p, {}) /\ Named({}) = {} /\ TrueLog({}, made', conf')
    BY SilentPosts DEF Named, TrueLog
<1>4. TrueLog(LogOf(m), made', conf')
  <2>1. TrueLog(LogOf(task[w]), made, conf)
    BY DEF Accounted, Truthful
  <2> QED
    BY <1>1, <2>1, OwnIsOwn, LogsStay
<1>5. ItemsOfOne'
    BY DEF ItemsOfOne, Accounted
<1> DEFINE N == {}
<1>6. /\ Claims(m) \cap Named({}) = {} /\ Claims(m) \cup Named({}) = Claims(task[w]) \cup N
      /\ N \cap DOMAIN sends = {} /\ DOMAIN sends' = DOMAIN sends \cup N /\ N \subseteq Send
      /\ (\A s \in DOMAIN sends : sends'[s] = sends[s]) /\ (\A s \in N : Gives(sends'[s]))
    BY <1>2, <1>3
<1> HIDE DEF N
<1> QED
    BY <1>1, <1>2, <1>3, <1>4, <1>5, <1>6, WorkerAccounts

\* A task with no send at hand leaves what it has in its log, or posts it.
LEMMA DropsAccounts ==
    ASSUME TradeTypes, Accounted, NEW w \in Tasks, task[w] \in Chores \cup {FreeTask}, NEW m, NEW p, NEW L,
           Moves(w, m, p), Carries(p, L), ~Sending(task[w]), ~Sending(m),
           UNCHANGED <<sends, history, made, conf>>, ItemsOfOne',
           \/ L = {} /\ LogOf(m) = LogOf(task[w])
           \/ L = LogOf(task[w]) /\ LogOf(m) = {}
    PROVE  Accounted'
<1>1. Claims(m) = Named(LogOf(m)) /\ Claims(task[w]) = Named(LogOf(task[w])) /\ Named({}) = {}
    BY DEF Claims, Named
<1>2. TrueLog(LogOf(m), made', conf') /\ TrueLog(L, made', conf')
  <2>1. TrueLog(LogOf(task[w]), made', conf') /\ TrueLog({}, made', conf')
    BY DEF Accounted, Truthful, TrueLog
  <2> QED
    BY <2>1
<1>3. Own(w)
    BY DEF Own, Unmoved
<1> DEFINE N == {}
<1>4. /\ Claims(m) \cap Named(L) = {} /\ Claims(m) \cup Named(L) = Claims(task[w]) \cup N
      /\ N \cap DOMAIN sends = {} /\ DOMAIN sends' = DOMAIN sends \cup N /\ N \subseteq Send
      /\ (\A s \in DOMAIN sends : sends'[s] = sends[s]) /\ (\A s \in N : Gives(sends'[s]))
    BY <1>1
<1> HIDE DEF N
<1> QED
    BY <1>2, <1>3, <1>4, WorkerAccounts

LEMMA OutcomeSays ==
    ASSUME NEW j, NEW b \in BOOLEAN, NEW md, NEW cf, j.result \in {"ok", "fail"}, j.result = "ok" => md[j.on] = 1,
           b => cf[j.on] = "confirmed", conf[j.on] = "none" => cf[j.on] = "none",
           conf[j.on] # "none" => cf[j.on] # "none"
    PROVE  Says(j.on, Outcome(j, b), md, cf)
<1>1. CASE j.result = "fail"
  <2>1. Outcome(j, b) = "failed"
    BY <1>1 DEF Outcome
  <2> QED
    BY <2>1, Zenon DEF Says
<1>2. CASE j.result = "ok" /\ conf[j.on] = "none"
  <2>1. Outcome(j, b) = "sent"
    BY <1>2, Zenon DEF Outcome
  <2> QED
    BY <1>2, <2>1, Zenon DEF Says
<1>3. CASE j.result = "ok" /\ conf[j.on] # "none"
  <2>1. Outcome(j, b) = IF b THEN "confirmed" ELSE "needs confirmation"
    BY <1>3, Zenon DEF Outcome
  <2> QED
    BY <1>3, <2>1, Zenon DEF Says
<1> QED
    BY <1>1, <1>2, <1>3

\* The same of a send that nobody confirmed.
Plainly(j) == Outcome(j, FALSE)
LEMMA OutcomeStill ==
    ASSUME NEW j, j.result \in {"ok", "fail"}, j.result = "ok" => made[j.on] = 1, made' = made, conf' = conf
    PROVE  Says(j.on, Plainly(j), made', conf')
<1> USE DEF Plainly
<1>1. CASE j.result = "fail"
  <2>1. Outcome(j, FALSE) = "failed"
    BY <1>1 DEF Outcome
  <2> QED
    BY <2>1, Zenon DEF Says
<1>2. CASE j.result = "ok" /\ conf[j.on] = "none"
  <2>1. Outcome(j, FALSE) = "sent"
    BY <1>2, Zenon DEF Outcome
  <2> QED
    BY <1>2, <2>1, Zenon DEF Says
<1>3. CASE j.result = "ok" /\ conf[j.on] # "none"
  <2>1. Outcome(j, FALSE) = "needs confirmation"
    BY <1>3, Zenon DEF Outcome
  <2> QED
    BY <1>3, <2>1, Zenon DEF Says
<1> QED
    BY <1>1, <1>2, <1>3

\* The end of a send: its entry, which is true, takes its place.
LEMMA RecordsAccounts ==
    ASSUME TradeTypes, Accounted, NEW w \in Tasks, task[w] \in Chores, task[w].kind \in SendKinds,
           task[w].on \in Send, NEW b \in BOOLEAN, NEW p \in Seq(CallBacks), Silent(p), Recorded(w, b, p),
           Own(w), UNCHANGED <<sends, history, modal>>,
           Says(task[w].on, Outcome(task[w], b), made', conf')
    PROVE  Accounted'
<1> DEFINE j == task[w]
           e == <<j.on, Outcome(j, b)>>
<1>1. PICK m, d, L :
              /\ Moves(w, m, p \o d) /\ d \in Seq(CallBacks)
              /\ L = task[w].log \cup {<<task[w].on, Outcome(task[w], b)>>} /\ L \in SUBSET Entries
              /\ \/ /\ NextWork(task[w], m) /\ m.log = L /\ d = <<>> /\ m.kind = "bulksend" /\ m.on = 0
                    /\ m.result = "none"
                 \/ /\ NoWork(task[w], m)
                    /\ d \in {<<[do |-> "bulkdone", log |-> L]>>,
                              <<[do |-> "sent", acc |-> task[w].acc, log |-> L]>>}
    BY RecordedShape
<1>2. LogOf(j) = j.log /\ Sending(j) /\ j.on \notin Named(j.log) /\ j.acc \in Traders
  <2>1. j.on # 0
    BY DEF Send
  <2>2. LogOf(j) = j.log /\ Sending(j)
    BY <2>1 DEF LogOf, Sending
  <2> QED
    BY <2>2, ChoreFields DEF Accounted, Apart
<1>3. Says(e[1], e[2], made', conf') /\ e[1] = j.on
    OBVIOUS
<1>4. L = j.log \cup {e}
    BY <1>1
<1> HIDE DEF e
<1>5. Named(L) = Named(j.log) \cup {j.on} /\ Claims(j) = Named(L)
    BY <1>2, <1>3, <1>4 DEF Named, Claims
<1>6. TrueLog(L, made', conf') /\ TrueLog({}, made', conf')
  <2>1. TrueLog(j.log, made, conf)
    BY <1>2 DEF Accounted, Truthful
  <2>2. TrueLog(j.log, made', conf')
    BY <1>2, <2>1, OwnIsOwn, LogsStay
  <2>3. \A f \in j.log : f[1] # e[1]
    BY <1>2, <1>3 DEF Named
  <2> QED
    BY <1>3, <1>4, <2>2, <2>3 DEF TrueLog
<1>7. ItemsOfOne'
    BY DEF ItemsOfOne, Accounted
<1> DEFINE N == {}
<1>8. /\ N \cap DOMAIN sends = {} /\ DOMAIN sends' = DOMAIN sends \cup N /\ N \subseteq Send
      /\ (\A s \in DOMAIN sends : sends'[s] = sends[s]) /\ (\A s \in N : Gives(sends'[s]))
      /\ Claims(j) \cup N = Named(L) /\ Named({}) = {}
    BY <1>5 DEF Named
<1> DEFINE q == p \o d
<1>0. Moves(w, m, q) /\ history' = history /\ task[w] \in Chores \cup {FreeTask}
    BY <1>1
<1> HIDE DEF N, j, q
<1>9. CASE m.log = L /\ d = <<>> /\ m.kind = "bulksend" /\ m.on = 0
  <2>1. ~Sending(m) /\ LogOf(m) = L /\ Claims(m) = Named(L)
    BY <1>9 DEF Sending, LogOf, SendKinds, Claims
  <2>2. Carries(q, {})
    BY <1>1, <1>2, <1>9, RecordPosts DEF q
  <2>3. Claims(m) \cap Named({}) = {} /\ Claims(m) \cup Named({}) = Claims(task[w]) \cup N
    BY <1>8, <2>1 DEF j
  <2> QED
    BY <1>0, <1>6, <1>7, <1>8, <2>1, <2>2, <2>3, WorkerAccounts
<1>10. CASE /\ NoWork(task[w], m)
            /\ d \in {<<[do |-> "bulkdone", log |-> L]>>, <<[do |-> "sent", acc |-> task[w].acc, log |-> L]>>}
  <2>1. ~Sending(m) /\ LogOf(m) = {} /\ Claims(m) = {}
    BY <1>10 DEF NoWork, FreeTask, Sending, LogOf, SendKinds, Claims, Named
  <2>2. Carries(q, L)
    BY <1>1, <1>2, <1>10, RecordPosts DEF j, q
  <2>3. Claims(m) \cap Named(L) = {} /\ Claims(m) \cup Named(L) = Claims(task[w]) \cup N
    BY <1>8, <2>1 DEF j
  <2> QED
    BY <1>0, <1>6, <1>7, <1>8, <2>1, <2>2, <2>3, WorkerAccounts
<1> QED
    BY <1>1, <1>9, <1>10
LEMMA OwnIfStill == ASSUME NEW w, UNCHANGED <<made, conf>> PROVE Own(w)
BY DEF Own, Unmoved

\* What a call may do to the task's own send.
LEMMA EffectSends ==
    ASSUME TradeTypes, Accounted, NEW w \in Tasks, task[w] \in Chores, NEW r \in {"ok", "fail"},
           Effect(task[w], r), task[w].phase \in {"call", "again"}
    PROVE  /\ Own(w)
           /\ Sending(task[w]) => /\ made'[task[w].on] <= 1
                                  /\ r = "ok" => made'[task[w].on] = 1
<1> DEFINE j == task[w]
<1>1. CASE Sending(j)
  <2>1. /\ j.kind \in {"send", "bulksend"} /\ j.on # 0 /\ j.on \in Send
        /\ made[j.on] = 0 /\ conf[j.on] = "none"
    BY <1>1, ChoreFields DEF Sending, SendKinds, Accounted, Progressing, Progress
  <2>2. \/ r = "fail" /\ UNCHANGED <<made, conf>>
        \/ /\ made' = [made EXCEPT ![j.on] = @ + 1]
           /\ \E c \in {"none", "waiting"} : conf' = [conf EXCEPT ![j.on] = c]
    BY <2>1, Zenon DEF Effect
  <2>3. CASE r = "fail" /\ UNCHANGED <<made, conf>>
    BY <1>1, <2>1, <2>3, OwnIfStill
  <2>4. CASE /\ made' = [made EXCEPT ![j.on] = @ + 1]
             /\ \E c \in {"none", "waiting"} : conf' = [conf EXCEPT ![j.on] = c]
    <3>1. made'[j.on] = 1 /\ conf'[j.on] # "confirmed"
        BY <2>1, <2>4 DEF TradeTypes, SteamOK
    <3>2. \A s \in Send : s # j.on => made'[s] = made[s] /\ conf'[s] = conf[s]
        BY <2>1, <2>4 DEF TradeTypes, SteamOK
    <3> HIDE DEF j
    <3> QED
        BY <1>1, <3>1, <3>2 DEF Own, Unmoved, j
  <2> QED
    BY <2>2, <2>3, <2>4
<1>2. CASE ~Sending(j)
  <2>1. j.kind \notin {"send", "bulksend"} \/ j.on = 0
    BY <1>2 DEF Sending, SendKinds
  <2>2. CASE j.kind \in {"act", "bulkaccept"}
    <3>1. UNCHANGED <<made, conf>>
        BY <2>2, <2>1, Zenon DEF Effect
    <3> QED
        BY <1>2, <3>1, OwnIfStill
  <2>3. CASE j.kind \notin {"act", "bulkaccept"}
    <3>1. UNCHANGED atSteam
        BY <2>3, <2>1, Zenon DEF Effect
    <3>2. UNCHANGED <<made, conf>>
        BY <3>1 DEF atSteam
    <3> QED
        BY <1>2, <3>2, OwnIfStill
  <2> QED
    BY <2>2, <2>3
<1> QED
    BY <1>1, <1>2

LEMMA SendAnswered == ASSUME TradeTypes, Accounted, NEW w \in Tasks, Answered(w) PROVE Accounted'
<1>0. /\ task[w] \in Chores /\ task[w].phase \in {"call", "again"} /\ UNCHANGED <<sends, history, modal>>
  <2>1. task[w] \in Chores
    BY WhoSteps DEF TradeTypes, TaskStep
  <2>2. task[w].phase \in {"call", "again"}
    BY DEF Answered
  <2>3. UNCHANGED <<sends, history, modal>>
    BY DEF Answered
  <2> QED
    BY <2>1, <2>2, <2>3
<1>1. PICK m : \E r \in {"ok", "fail"} :
              /\ Moves(w, m, <<>>) /\ Keeps(task[w], m) /\ m.phase = "end" /\ m.result = r
              /\ m.creds \in {task[w].creds, newest[task[w].acc] + 1} /\ m.creds \in Gen
              /\ newest' = [newest EXCEPT ![task[w].acc] = IF m.creds = task[w].creds THEN @ ELSE m.creds]
              /\ Effect(task[w], r)
    BY AnsweredShape
<1>2. m.result \in {"ok", "fail"} /\ Effect(task[w], m.result) /\ m.phase = "end" /\ m.on = task[w].on
      /\ Moves(w, m, <<>>) /\ Keeps(task[w], m)
    BY <1>1 DEF Keeps
<1>3. /\ Own(w)
      /\ Sending(task[w]) => made'[task[w].on] <= 1 /\ (m.result = "ok" => made'[task[w].on] = 1)
    BY <1>0, <1>2, EffectSends
<1>4. Sending(task[w]) => Progress(m, made', conf')
    BY <1>2, <1>3 DEF Progress
<1> QED
    BY <1>0, <1>2, <1>3, <1>4, SilentPosts, KeepsAccounts

LEMMA SendRefused == ASSUME TradeTypes, Accounted, NEW w \in Tasks, Refused(w) PROVE Accounted'
<1>0. /\ task[w] \in Chores /\ task[w].phase \in {"call", "again"} /\ UNCHANGED <<sends, history, modal>>
      /\ UNCHANGED <<made, conf>>
    BY WhoSteps DEF TradeTypes, TaskStep, Refused, atSteam
<1>1. PICK m : /\ Moves(w, m, <<>>) /\ Keeps(task[w], m) /\ m.phase \in {"login", "end"}
               /\ m.result = "fail" /\ m.creds = task[w].creds
    BY RefusedShape
<1>2. Sending(task[w]) => Progress(m, made', conf')
    BY <1>0, <1>1 DEF Accounted, Progressing, Progress, Keeps
<1> QED
    BY <1>0, <1>1, <1>2, OwnIfStill, SilentPosts, KeepsAccounts

LEMMA SendMint == ASSUME TradeTypes, Accounted, NEW w \in Tasks, MintTokens(w) PROVE Accounted'
<1>0. /\ task[w] \in Chores /\ task[w].phase = "login" /\ UNCHANGED <<sends, history, modal>>
      /\ UNCHANGED <<made, conf>>
    BY WhoSteps DEF TradeTypes, TaskStep, MintTokens, atSteam
<1>1. PICK m, p :
          /\ Moves(w, m, p) /\ Keeps(task[w], m) /\ m.result = task[w].result
          /\ \/ /\ m.phase = "again" /\ m.creds = newest[task[w].acc] + 1
                /\ newest' = [newest EXCEPT ![task[w].acc] = @ + 1]
                /\ m.creds \in Gen /\ p = <<Tok(task[w].acc, m.creds)>>
             \/ m.phase = "end" /\ m.creds = task[w].creds /\ UNCHANGED newest /\ p = <<>>
    BY MintShape
<1>2. Silent(p)
    BY <1>1, SilentPosts
<1>3. Sending(task[w]) => Progress(m, made', conf')
    BY <1>0, <1>1 DEF Accounted, Progressing, Progress, Keeps
<1> QED
    BY <1>0, <1>1, <1>2, <1>3, OwnIfStill, KeepsAccounts

\* A task that is about no send is over, or goes on.
LEMMA SendElsewhere ==
    ASSUME TradeTypes, Accounted, NEW w \in Tasks, task[w] \in Chores, task[w].kind \notin SendKinds,
           NEW m, NEW p, Moves(w, m, p), Carries(p, {}), m.kind \notin SendKinds,
           UNCHANGED <<sends, history, modal, made, conf>>
    PROVE  Accounted'
<1>1. ~Sending(task[w]) /\ ~Sending(m) /\ LogOf(task[w]) = {} /\ LogOf(m) = {}
    BY DEF Sending, LogOf
<1>2. ItemsOfOne'
    BY DEF Accounted, ItemsOfOne
<1> QED
    BY <1>1, <1>2, DropsAccounts

LEMMA SendLoad == ASSUME TradeTypes, Accounted, NEW w \in Tasks, EndFetch(w) \/ EndLoad(w) PROVE Accounted'
<1>1. /\ task[w] \in Chores /\ task[w].kind \notin SendKinds
      /\ UNCHANGED <<sends, history, modal, made, conf>>
    BY WhoSteps DEF TradeTypes, TaskStep, EndFetch, EndLoad, atSteam, SendKinds
<1>2. Moves(w, FreeTask, TokensIfChanged(task[w])) /\ Carries(TokensIfChanged(task[w]), {})
    BY LoadShape, SilentPosts
<1>3. FreeTask.kind \notin SendKinds
    BY DEF FreeTask, SendKinds
<1> QED
    BY <1>1, <1>2, <1>3, SendElsewhere

LEMMA SendAct == ASSUME TradeTypes, Accounted, NEW w \in Tasks, EndAct(w) PROVE Accounted'
<1>1. /\ task[w] \in Chores /\ task[w].kind \in OfferKinds /\ task[w].kind \notin SendKinds
      /\ UNCHANGED <<sends, history, modal, made, conf>>
    BY WhoSteps DEF TradeTypes, TaskStep, EndAct, atSteam, SendKinds, OfferKinds
<1>2. Moves(w, FreeTask, Verbs(task[w])) /\ Carries(Verbs(task[w]), {})
    BY <1>1, ActShape, SilentVerbs, SilentPosts
<1>3. FreeTask.kind \notin SendKinds
    BY DEF FreeTask, SendKinds
<1> QED
    BY <1>1, <1>2, <1>3, SendElsewhere

LEMMA SendAccept == ASSUME TradeTypes, Accounted, NEW w \in Tasks, EndAccept(w) PROVE Accounted'
<1>1. /\ task[w] \in Chores /\ task[w].kind \in OfferKinds /\ task[w].kind \notin SendKinds
      /\ UNCHANGED <<sends, history, modal, made, conf>>
    BY WhoSteps DEF TradeTypes, TaskStep, EndAccept, atSteam, SendKinds, OfferKinds
<1>2. PICK m, d : /\ Moves(w, m, Verbs(task[w]) \o d) /\ d \in Seq(CallBacks)
                  /\ \/ NextWork(task[w], m) /\ m.log = {} /\ d = <<>> /\ m.on \in Offers \cup {0}
                     \/ NoWork(task[w], m) /\ d = <<[do |-> "bulkdone", log |-> {}]>>
    BY AcceptShape
<1>3. Carries(Verbs(task[w]) \o d, {})
  <2>1. Silent(Verbs(task[w])) /\ Verbs(task[w]) \in Seq(CallBacks) /\ {} \in SUBSET Entries
        /\ task[w].acc \in Traders
    BY <1>1, SilentVerbs, VerbTypes, ChoreFields
  <2> QED
    BY <1>2, <2>1, RecordPosts
<1>4. m.kind \notin SendKinds
    BY <1>1, <1>2 DEF NextWork, NoWork, FreeTask, SendKinds
<1> QED
    BY <1>1, <1>2, <1>3, <1>4, SendElsewhere

LEMMA SendSweep == ASSUME TradeTypes, Accounted, NEW w \in Tasks, Sweep(w) PROVE Accounted'
<1> DEFINE p == <<[do |-> "refresh", acc |-> task[w].acc, gen |-> task[w].creds]>>
<1>1. /\ task[w] \in Chores /\ task[w].kind \notin SendKinds
      /\ UNCHANGED <<sends, history, modal, made, conf>>
    BY WhoSteps DEF TradeTypes, TaskStep, Sweep, atSteam, SendKinds
<1>2. PICK m : /\ Moves(w, m, p)
               /\ \/ NextWork(task[w], m) /\ m.log = {} /\ m.kind = "sweep"
                  \/ NoWork(task[w], m)
    BY SweepShape
<1>3. Carries(p, {})
    BY SilentPosts
<1>4. m.kind \notin SendKinds
    BY <1>2 DEF NoWork, FreeTask, SendKinds
<1> HIDE DEF p
<1> QED
    BY <1>1, <1>2, <1>3, <1>4, SendElsewhere
\* An offer built now has a number of its own.
LEMMA FreshSend ==
    ASSUME TradeTypes, Accounted, NEW n, Len(sends) < MaxSends, sends' = Append(sends, n), Gives(n),
           NEW s, s = Len(sends) + 1, n \in [acc : Traders, items : SUBSET TraderItems]
    PROVE  /\ s \in Send /\ s \notin DOMAIN sends /\ DOMAIN sends' = DOMAIN sends \cup {s}
           /\ \A x \in DOMAIN sends : sends'[x] = sends[x]
           /\ \A x \in {s} : Gives(sends'[x])
           /\ made[s] = 0 /\ conf[s] = "none" /\ s \notin Claimed
<1> DEFINE T == [acc : Traders, items : SUBSET TraderItems]
<1>0. sends \in Seq(T) /\ n \in T
    BY DEF TradeTypes, SendsOK
<1> HIDE DEF T
<1>1. Len(sends) \in Nat /\ DOMAIN sends = 1..Len(sends)
    BY <1>0, LenProperties
<1>2. s \in Send /\ s \notin DOMAIN sends
    BY <1>1, Numbers DEF Send
<1>3. /\ Append(sends, n) \in Seq(T) /\ Len(Append(sends, n)) = s
      /\ (\A i \in 1..Len(sends) : Append(sends, n)[i] = sends[i]) /\ Append(sends, n)[s] = n
    BY <1>0, AppendProperties
<1>4. DOMAIN sends' = 1..s
    BY <1>3, LenProperties
<1>5. DOMAIN sends' = DOMAIN sends \cup {s}
    BY <1>1, <1>4
<1>6. made[s] = 0 /\ conf[s] = "none" /\ s \notin Claimed
    BY <1>2 DEF Accounted, Sends
<1> QED
    BY <1>1, <1>2, <1>3, <1>5, <1>6

\* A worker starts with the offer just built.
LEMMA StartsSend ==
    ASSUME TradeTypes, Accounted, NEW w \in Tasks, task[w] \in Chores \cup {FreeTask}, ~Sending(task[w]),
           NEW m, NEW p, NEW n, Moves(w, m, p), Silent(p), m.kind \in SendKinds, m.on = Len(sends) + 1,
           LogOf(m) = LogOf(task[w]), m.phase = "call", Len(sends) < MaxSends, sends' = Append(sends, n),
           n \in [acc : Traders, items : SUBSET TraderItems], Gives(n),
           UNCHANGED <<history, made, conf>>, ItemsOfOne'
    PROVE  Accounted'
<1> DEFINE N == {m.on}
<1>1. /\ m.on \in Send /\ m.on \notin DOMAIN sends /\ DOMAIN sends' = DOMAIN sends \cup {m.on}
      /\ \A x \in DOMAIN sends : sends'[x] = sends[x]
      /\ \A x \in {m.on} : Gives(sends'[x])
      /\ made[m.on] = 0 /\ conf[m.on] = "none" /\ m.on \notin Claimed
    BY FreshSend
<1>2. Sending(m) /\ Claims(m) = Named(LogOf(task[w])) \cup N /\ Claims(task[w]) = Named(LogOf(task[w]))
  <2>1. m.on # 0
    BY <1>1 DEF Send
  <2> QED
    BY <2>1 DEF Sending, Claims
<1>3. Named({}) = {} /\ TrueLog({}, made', conf') /\ Carries(p, {})
    BY SilentPosts DEF Named, TrueLog
<1>4. m.on \notin Named(LogOf(m))
    BY <1>1, <1>2 DEF Claimed, Held
<1>5. Progress(m, made', conf')
    BY <1>1 DEF Progress
<1>6. TrueLog(LogOf(m), made', conf')
    BY DEF Accounted, Truthful
<1>7. Own(w)
    BY OwnIfStill
<1>8. /\ Claims(m) \cap Named({}) = {} /\ Claims(m) \cup Named({}) = Claims(task[w]) \cup N
      /\ N \cap DOMAIN sends = {} /\ DOMAIN sends' = DOMAIN sends \cup N /\ N \subseteq Send
      /\ (\A s \in DOMAIN sends : sends'[s] = sends[s]) /\ (\A s \in N : Gives(sends'[s]))
    BY <1>1, <1>2, <1>3
<1> HIDE DEF N
<1> QED
    BY <1>3, <1>4, <1>5, <1>6, <1>7, <1>8, WorkerAccounts

LEMMA SendGift == ASSUME TradeTypes, Accounted, NEW w \in Tasks, EndBulkLoad(w) PROVE Accounted'
<1> DEFINE q == TokensIfChanged(task[w])
<1>0. /\ task[w] \in Chores /\ task[w].kind = "bulksend" /\ task[w].on = 0
      /\ UNCHANGED <<history, modal, made, conf>> /\ q \in Seq(CallBacks) /\ Silent(q)
      /\ task[w].log \in SUBSET Entries /\ task[w].acc \in Traders
    BY WhoSteps, ChoreFields, SilentPosts DEF TradeTypes, TaskStep, EndBulkLoad, atSteam
<1>1. ~Sending(task[w]) /\ LogOf(task[w]) = task[w].log /\ ItemsOfOne'
    BY <1>0 DEF Sending, LogOf, SendKinds, Accounted, ItemsOfOne
<1>2. ASSUME NEW m, NEW d, Moves(w, m, q \o d), d \in Seq(CallBacks), UNCHANGED sends,
             \/ /\ NextWork(task[w], m) /\ m.log = task[w].log /\ d = <<>> /\ m.kind = "bulksend"
                /\ m.on = 0 /\ m.result = "none"
             \/ NoWork(task[w], m) /\ d = <<[do |-> "bulkdone", log |-> task[w].log]>>
      PROVE  Accounted'
  <2> DEFINE p == q \o d
  <2>1. CASE m.log = task[w].log /\ d = <<>> /\ m.kind = "bulksend" /\ m.on = 0
    <3>1. ~Sending(m) /\ LogOf(m) = LogOf(task[w])
        BY <1>1, <2>1 DEF Sending, LogOf, SendKinds
    <3>2. Carries(p, {})
        BY <1>0, <2>1, RecordPosts
    <3> HIDE DEF p
    <3> QED
        BY <1>0, <1>1, <1>2, <3>1, <3>2, DropsAccounts DEF p
  <2>2. CASE NoWork(task[w], m) /\ d = <<[do |-> "bulkdone", log |-> task[w].log]>>
    <3>1. ~Sending(m) /\ LogOf(m) = {}
        BY <2>2 DEF NoWork, FreeTask, Sending, LogOf, SendKinds
    <3>2. Carries(p, task[w].log)
        BY <1>0, <2>2, RecordPosts
    <3> HIDE DEF p
    <3> QED
        BY <1>0, <1>1, <1>2, <3>1, <3>2, DropsAccounts DEF p
  <2> QED
    BY <1>2, <2>1, <2>2
<1>3. ASSUME NEW m, Moves(w, m, q), SameWork(task[w], m), m.log = task[w].log, m.on = Len(sends) + 1,
             m.phase = "call", Items[task[w].acc] # {}, Len(sends) < MaxSends,
             sends' = Append(sends, [acc |-> task[w].acc, items |-> Items[task[w].acc]])
      PROVE  Accounted'
  <2> DEFINE n == [acc |-> task[w].acc, items |-> Items[task[w].acc]]
  <2>1. n \in [acc : Traders, items : SUBSET TraderItems] /\ Gives(n)
    BY <1>0, <1>3, Numbers DEF Gives
  <2>2. m.kind \in SendKinds /\ LogOf(m) = LogOf(task[w])
    BY <1>0, <1>1, <1>3 DEF SameWork, LogOf, SendKinds
  <2> HIDE DEF n, q
  <2> QED
    BY <1>0, <1>1, <1>3, <2>1, <2>2, StartsSend DEF n
<1> QED
    BY <1>2, <1>3, GiftShape

LEMMA SendSent == ASSUME TradeTypes, Accounted, NEW w \in Tasks, EndSend(w) PROVE Accounted'
<1> DEFINE j == task[w]
           p == <<Tok(j.acc, j.creds)>>
<1>0. /\ UNCHANGED <<sends, history, modal, made, conf>> /\ j \in Chores /\ j.kind \in SendKinds /\ j.on \in Send
      /\ j.phase = "end"
    BY SentShape DEF EndSend, atSteam
<1>1. p \in Seq(CallBacks) /\ Silent(p) /\ Own(w) /\ UNCHANGED <<sends, history, modal>>
    BY <1>0, ChoreFields, SilentPosts, OwnIfStill
<1>2. Sending(j) /\ j.result \in {"ok", "fail"} /\ (j.result = "ok" => made[j.on] = 1)
  <2>1. j.on # 0
    BY <1>0 DEF Send
  <2> QED
    BY <1>0, <2>1 DEF Sending, Accounted, Progressing, Progress
<1>3. ASSUME NEW m, ToConfirm(j), Moves(w, m, p), Keeps(j, m), m.phase = "confirm", m.result = j.result
      PROVE  Accounted'
  <2>1. Progress(m, made', conf')
    BY <1>0, <1>2, <1>3 DEF ToConfirm, Progress, Keeps
  <2> HIDE DEF p, j
  <2> QED
    BY <1>0, <1>1, <1>3, <2>1, KeepsAccounts DEF j
<1>4. CASE Recorded(w, FALSE, p)
  <2>1. Says(j.on, Outcome(j, FALSE), made', conf')
    <3>1. made' = made /\ conf' = conf
        BY <1>0
    <3>2. Says(j.on, Plainly(j), made', conf')
        BY <1>2, <3>1, OutcomeStill
    <3> QED
        BY <3>2 DEF Plainly
  <2> HIDE DEF p
  <2> QED
    BY <1>0, <1>1, <1>4, <2>1, RecordsAccounts
<1> QED
    BY <1>3, <1>4, SentShape

LEMMA SendConfirm == ASSUME TradeTypes, Accounted, NEW w \in Tasks, Confirm(w) PROVE Accounted'
<1> DEFINE j == task[w]
<1>0. /\ UNCHANGED <<sends, history, modal>> /\ UNCHANGED made /\ j \in Chores /\ j.kind \in SendKinds
      /\ j.on \in Send /\ j.phase = "confirm" /\ <<>> \in Seq(CallBacks) /\ Silent(<<>>)
    BY ConfirmShape, CallKinds, SilentPosts DEF Confirm
<1>1. Sending(j) /\ j.result = "ok" /\ made[j.on] = 1 /\ conf[j.on] # "none" /\ AutoConfirm
  <2>1. j.on # 0
    BY <1>0 DEF Send
  <2> QED
    BY <1>0, <2>1 DEF Sending, Accounted, Progressing, Progress
<1>2. ASSUME conf' = [conf EXCEPT ![j.on] = "confirmed"], NEW b \in BOOLEAN, Recorded(w, b, <<>>)
      PROVE  Accounted'
  <2>1. conf'[j.on] = "confirmed" /\ \A s \in Send : s # j.on => conf'[s] = conf[s]
    BY <1>0, <1>2 DEF TradeTypes, SteamOK
  <2> HIDE DEF j
  <2>2. Own(w)
    BY <1>0, <1>1, <2>1 DEF Own, Unmoved, j
  <2>3. Says(j.on, Outcome(j, b), made', conf')
    BY <1>0, <1>1, <2>1, OutcomeSays
  <2> QED
    BY <1>0, <1>2, <2>2, <2>3, RecordsAccounts DEF j
<1>3. CASE Recorded(w, FALSE, <<>>) /\ UNCHANGED conf
  <2>1. Own(w)
    BY <1>0, <1>3, OwnIfStill
  <2>2. Says(j.on, Outcome(j, FALSE), made', conf')
    <3>1. made' = made /\ conf' = conf /\ j.result \in {"ok", "fail"}
        BY <1>0, <1>1, <1>3
    <3>2. Says(j.on, Plainly(j), made', conf')
        BY <1>1, <3>1, OutcomeStill
    <3> QED
        BY <3>2 DEF Plainly
  <2> QED
    BY <1>0, <1>3, <2>1, <2>2, RecordsAccounts
<1>4. ASSUME NEW m, Moves(w, m, <<>>), Keeps(j, m), m.phase = "confirm", m.result = j.result, UNCHANGED conf
      PROVE  Accounted'
  <2>1. Own(w)
    BY <1>0, <1>4, OwnIfStill
  <2>2. Progress(m, made', conf')
    BY <1>0, <1>1, <1>4 DEF Progress, Keeps
  <2> HIDE DEF j
  <2> QED
    BY <1>0, <1>4, <2>1, <2>2, KeepsAccounts DEF j
<1> QED
    BY <1>2, <1>3, <1>4, ConfirmShape
\* A task that is about no send is submitted.
LEMMA QueueAccounts ==
    ASSUME TradeTypes, Accounted, NEW j \in Chores, NEW q, Queue(j, q), ~Sending(j), LogOf(j) = {},
           UNCHANGED <<calls, sends, history, made, conf>>, ItemsOfOne'
    PROVE  Accounted'
<1>1. PICK w \in Tasks \ Busy : task' = [task EXCEPT ![w] = j]
    BY DEF Queue
<1>2. task[w] = FreeTask
    BY <1>1, FreeIsFree DEF TradeTypes
<1>3. ~Sending(task[w]) /\ LogOf(task[w]) = {}
    BY <1>2 DEF FreeTask, Sending, LogOf, SendKinds
<1>4. Moves(w, j, <<>>) /\ Carries(<<>>, {})
    BY <1>1, NoPosts, SilentPosts DEF Moves, TradeTypes
<1> QED
    BY <1>2, <1>3, <1>4, DropsAccounts

\* A task the user starts that is about no send.
LEMMA PressAccounts ==
    ASSUME TradeTypes, Accounted, NEW k \in {"fetch", "inventory", "sweep", "act", "bulkaccept", "bulksend"},
           NEW x, NEW S, NEW q, Queue(Task(k, x, S), q), Task(k, x, S) \in Chores, k = "bulksend" => x[3] = 0,
           UNCHANGED <<calls, sends, history, made, conf>>, ItemsOfOne'
    PROVE  Accounted'
<1> DEFINE j == Task(k, x, S)
<1>1. j.kind = k /\ j.on = x[3] /\ j.log = {}
    BY DEF Task
<1> HIDE DEF j
<1>2. ~Sending(j) /\ LogOf(j) = {}
    BY <1>1 DEF Sending, LogOf, SendKinds
<1> QED
    BY <1>2, QueueAccounts DEF j

LEMMA SendPress ==
    ASSUME TradeTypes, Accounted,
           \/ \E a \in Traders : PressRefresh(a) \/ PressLoad(a)
           \/ \E o \in Offers : PressOffer(o)
           \/ PressRefreshAll \/ PressAcceptAll \/ PressSendAll
    PROVE  Accounted'
<1>0. UNCHANGED <<calls, sends, history, made, conf>> /\ (UNCHANGED modal \/ modal' = Closed)
    BY DEF PressRefresh, PressLoad, PressOffer, PressRefreshAll, PressAcceptAll, PressSendAll, atSteam
<1>1. ItemsOfOne'
  <2>1. UNCHANGED modal => ItemsOfOne'
    BY DEF Accounted, ItemsOfOne
  <2>2. modal' = Closed => ItemsOfOne'
    BY DEF ItemsOfOne, Closed
  <2> QED
    BY <1>0, <2>1, <2>2
<1>2. Lists /\ Sessions
    BY DEF TradeTypes
<1>3. ASSUME NEW a \in Traders, PressRefresh(a) PROVE Accounted'
  <2>1. Queue(Task("fetch", <<a, tok[a], 0>>, {}), calls) /\ Task("fetch", <<a, tok[a], 0>>, {}) \in Chores
    BY <1>2, <1>3, ButtonTasks DEF PressRefresh, StartFetch, Sessions
  <2> QED
    BY <1>0, <1>1, <2>1, PressAccounts
<1>4. ASSUME NEW a \in Traders, PressLoad(a) PROVE Accounted'
  <2>1. Queue(Task("inventory", <<a, tok[a], 0>>, {}), calls)
        /\ Task("inventory", <<a, tok[a], 0>>, {}) \in Chores
    BY <1>2, <1>4, ButtonTasks DEF PressLoad, PressButton, Sessions
  <2> QED
    BY <1>0, <1>1, <2>1, PressAccounts
<1>5. ASSUME NEW o \in Offers, PressOffer(o) PROVE Accounted'
  <2> DEFINE a == OfferTo[o]
  <2>1. a \in Traders /\ Queue(Task("act", <<a, tok[a], o>>, {}), calls)
    BY <1>5, Numbers DEF PressOffer, PressButton
  <2> HIDE DEF a
  <2>2. Task("act", <<a, tok[a], o>>, {}) \in Chores
    BY <1>2, <2>1, ButtonTasks
  <2> QED
    BY <1>0, <1>1, <2>1, <2>2, PressAccounts
<1>6. CASE PressRefreshAll
  <2> DEFINE A == {a \in Traders : ~cool[a]}
  <2>1. PICK x \in Copies(A) : Queue(Task("sweep", x, Copies(A) \ {x}), calls)
    BY <1>6 DEF PressRefreshAll, PressButton
  <2>2. Task("sweep", x, Copies(A) \ {x}) \in Chores
    BY <1>2, ButtonTasks
  <2> QED
    BY <1>0, <1>1, <2>1, <2>2, PressAccounts
<1>7. CASE PressAcceptAll
  <2>1. PICK x \in AllOffers : Queue(Task("bulkaccept", x, AllOffers \ {x}), calls)
    BY <1>7 DEF PressAcceptAll, PressButton, AllOffers
  <2>2. Task("bulkaccept", x, AllOffers \ {x}) \in Chores
    BY <1>2, AcceptTask
  <2> QED
    BY <1>0, <1>1, <2>1, <2>2, PressAccounts
<1>8. CASE PressSendAll
  <2> DEFINE A == modal.accounts
  <2>1. PICK x \in Copies(A) : Queue(Task("bulksend", x, Copies(A) \ {x}), calls)
    BY <1>8 DEF PressSendAll, PressButton
  <2>2. A \in SUBSET Traders
    BY DEF TradeTypes, RestOK, Modals
  <2> HIDE DEF A
  <2>3. Task("bulksend", x, Copies(A) \ {x}) \in Chores /\ x[3] = 0
    BY <1>2, <2>1, <2>2, ButtonTasks DEF Copies
  <2> QED
    BY <1>0, <1>1, <2>1, <2>3, PressAccounts
<1> QED
    BY <1>3, <1>4, <1>5, <1>6, <1>7, <1>8

LEMMA SendBuilt == ASSUME TradeTypes, Accounted, PressSend PROVE Accounted'
<1>1. PICK a \in Traders :
        /\ modal.open /\ modal.accounts = {a} /\ modal.selected # {}
        /\ Len(sends) < MaxSends
        /\ sends' = Append(sends, [acc |-> a, items |-> modal.selected])
        /\ PressButton(Task("send", <<a, tok[a], Len(sends) + 1>>, {}))
        /\ modal' = Closed
        /\ UNCHANGED <<lists, session, calls, atSteam, history>>
    BY DEF PressSend
<1> DEFINE j == Task("send", <<a, tok[a], Len(sends) + 1>>, {})
           n == [acc |-> a, items |-> modal.selected]
<1>2. PICK w \in Tasks \ Busy : task' = [task EXCEPT ![w] = j]
    BY <1>1 DEF PressButton, Queue
<1>3. task[w] = FreeTask
    BY <1>2, FreeIsFree DEF TradeTypes
<1>4. ~Sending(task[w]) /\ LogOf(task[w]) = {}
    BY <1>3 DEF FreeTask, Sending, LogOf, SendKinds
<1>5. j.kind \in SendKinds /\ j.on = Len(sends) + 1 /\ LogOf(j) = {} /\ j.phase = "call"
    BY DEF Task, LogOf, SendKinds
<1>6. n \in [acc : Traders, items : SUBSET TraderItems] /\ Gives(n)
    BY <1>1 DEF Gives, TradeTypes, RestOK, Modals, Accounted, ItemsOfOne
<1> HIDE DEF j
<1>7. Moves(w, j, <<>>) /\ Silent(<<>>) /\ UNCHANGED <<history, made, conf>>
    BY <1>1, <1>2, NoPosts, SilentPosts DEF Moves, TradeTypes, atSteam
<1>8. ItemsOfOne'
    BY <1>1 DEF ItemsOfOne, Closed
<1>9. sends' = Append(sends, n) /\ Len(sends) < MaxSends
    BY <1>1
<1> HIDE DEF n
<1> QED
    BY <1>2, <1>3, <1>4, <1>5, <1>6, <1>7, <1>8, <1>9, StartsSend

\* Nothing of the sends changes, but perhaps the dialog.
LEMMA SendStill ==
    ASSUME Accounted, UNCHANGED <<task, calls, sends, history, made, conf>>, ItemsOfOne'
    PROVE  Accounted'
<1>1. Held' = Held /\ Claimed' = Claimed
    BY DEF Held, Claimed
<1>2. Apart'
    BY <1>1 DEF Accounted, Apart
<1>3. Truthful' /\ Progressing'
    BY DEF Accounted, Truthful, Progressing
<1>4. Sends'
    BY <1>1 DEF Accounted, Sends
<1> QED
    BY <1>2, <1>3, <1>4 DEF Accounted

LEMMA ItemsKept == /\ UNCHANGED modal /\ ItemsOfOne => ItemsOfOne'
                   /\ modal'.selected = {} => ItemsOfOne'
BY DEF ItemsOfOne

LEMMA SendOpened == ASSUME TradeTypes, Accounted, NEW A, OpenModal(A) PROVE Accounted'
<1>1. UNCHANGED <<task, calls, sends, history, made, conf>> /\ modal' = [Closed EXCEPT !.open = TRUE, !.accounts = A]
    BY DEF OpenModal, atSteam
<1>2. modal'.selected = {}
    BY <1>1 DEF Closed
<1> QED
    BY <1>1, <1>2, ItemsKept, SendStill

LEMMA SendClosed == ASSUME TradeTypes, Accounted, CloseModal PROVE Accounted'
<1>1. UNCHANGED <<task, calls, sends, history, made, conf>> /\ modal'.selected = {}
    BY DEF CloseModal, Closed, atSteam
<1> QED
    BY <1>1, ItemsKept, SendStill

LEMMA SendChip == ASSUME TradeTypes, Accounted, NEW a \in Traders, ClickChip(a) PROVE Accounted'
<1>1. UNCHANGED <<task, calls, sends, history, made, conf>> /\ modal' = ToggleAccount(modal, a) /\ modal \in Modals
    BY DEF ClickChip, atSteam, TradeTypes, RestOK
<1> DEFINE B == (modal.accounts \ {a}) \cup ({a} \ modal.accounts)
<1>2. modal' = [[modal EXCEPT !.accounts = B] EXCEPT !.selected = {}]
    BY <1>1 DEF ToggleAccount
<1> HIDE DEF B
<1>3. modal'.selected = {}
    BY <1>1, <1>2 DEF Modals
<1> QED
    BY <1>1, <1>3, ItemsKept, SendStill

LEMMA SendClicked == ASSUME TradeTypes, Accounted, NEW i, ClickItem(i) PROVE Accounted'
<1>1. PICK a \in Traders : /\ modal.accounts = {a} /\ i \in Items[a]
                           /\ modal' = [modal EXCEPT !.selected = (@ \ {i}) \cup ({i} \ @)]
    BY DEF ClickItem
<1>2. UNCHANGED <<task, calls, sends, history, made, conf>> /\ modal \in Modals
    BY DEF ClickItem, atSteam, TradeTypes, RestOK
<1>3. modal'.accounts = {a} /\ modal'.selected = (modal.selected \ {i}) \cup ({i} \ modal.selected)
    BY <1>1, <1>2 DEF Modals
<1>4. modal.selected \subseteq Items[a]
    BY <1>1 DEF Accounted, ItemsOfOne
<1>5. ItemsOfOne'
    BY <1>1, <1>3, <1>4 DEF ItemsOfOne
<1> QED
    BY <1>2, <1>5, SendStill

\* The acknowledgement, time and Steam's sessions have nothing to do with the sends.
LEMMA SendElse ==
    ASSUME TradeTypes, Accounted,
           Acknowledge \/ (\E a \in Traders : Expire(a) \/ TimePasses(a)) \/ UNCHANGED trVars
    PROVE  Accounted'
<1>1. UNCHANGED <<task, calls, sends, history, made, conf>>
    BY DEF Acknowledge, Expire, TimePasses, trVars, atSteam
<1>2. modal \in Modals /\ ItemsOfOne
    BY DEF Accounted, TradeTypes, RestOK
<1>3. modal'.accounts = modal.accounts /\ modal'.selected = modal.selected
    BY <1>2 DEF Acknowledge, Expire, TimePasses, trVars, Modals
<1>4. ItemsOfOne'
    BY <1>2, <1>3 DEF ItemsOfOne
<1> QED
    BY <1>1, <1>4, SendStill

\* A confirmation appears in the list: what was said of its send is still true.
LEMMA SendShown == ASSUME TradeTypes, Accounted, NEW s \in Send, ShowConf(s) PROVE Accounted'
<1>1. /\ UNCHANGED <<task, calls, sends, history, made>> /\ conf[s] = "waiting" /\ conf'[s] = "listed"
      /\ (\A x \in Send : x # s => conf'[x] = conf[x]) /\ ItemsOfOne'
    BY DEF ShowConf, TradeTypes, SteamOK, Accounted, ItemsOfOne
<1>2. Held' = Held /\ Claimed' = Claimed
    BY <1>1 DEF Held, Claimed
<1>3. ASSUME NEW x \in Send
      PROVE  /\ conf[x] = "none" <=> conf'[x] = "none"
             /\ conf[x] = "confirmed" <=> conf'[x] = "confirmed"
    BY <1>1
<1>4. ASSUME NEW x \in Send, NEW out, Says(x, out, made, conf) PROVE Says(x, out, made', conf')
  <2>1. made' = made
    BY <1>1
  <2> QED
    BY <1>3, <1>4, <2>1, Zenon DEF Says
<1>5. ASSUME NEW L \in SUBSET Entries, TrueLog(L, made, conf) PROVE TrueLog(L, made', conf')
  <2>1. ASSUME NEW e \in L PROVE Says(e[1], e[2], made', conf') /\ \A f \in L : f[1] = e[1] => f = e
    <3>1. e[1] \in Send
        BY DEF Entries
    <3> QED
        BY <1>4, <1>5, <3>1 DEF TrueLog
  <2> QED
    BY <2>1 DEF TrueLog
<1>6. Truthful'
  <2>1. ASSUME NEW w \in Tasks PROVE TrueLog(LogOf(task[w]), made', conf')
    <3>1. LogOf(task[w]) \in SUBSET Entries
      <4>1. task[w] \in Chores \/ task[w] = FreeTask
        BY DEF TradeTypes, TasksOK
      <4> QED
        BY <4>1, ChoreFields DEF LogOf, FreeTask, SendKinds
    <3> QED
        BY <1>5, <3>1 DEF Accounted, Truthful
  <2>2. ASSUME NEW i \in DOMAIN calls PROVE TrueLog(CallLog(calls[i]), made', conf')
    <3>1. CallLog(calls[i]) \in SUBSET Entries
      <4>1. calls[i] \in CallBacks
        BY DEF TradeTypes, CallsOK
      <4> QED
        BY <4>1, CallFields DEF CallLog
    <3> QED
        BY <1>5, <3>1 DEF Accounted, Truthful
  <2>3. \A x \in Send : \A i \in DOMAIN history[x] : Says(x, history[x][i], made', conf')
    BY <1>4 DEF Accounted, Truthful
  <2> QED
    BY <1>1, <2>1, <2>2, <2>3 DEF Truthful
<1>7. Progressing'
  <2>1. ASSUME NEW w \in Tasks, Sending(task[w]) PROVE Progress(task[w], made, conf')
    <3>1. task[w].on \in Send
      <4>1. task[w] \in Chores
        BY <2>1 DEF TradeTypes, TasksOK, FreeTask, Sending, SendKinds
      <4> QED
        BY <2>1, <4>1, ChoreFields DEF Sending
    <3>2. Progress(task[w], made, conf)
        BY <2>1 DEF Accounted, Progressing
    <3> QED
        BY <1>3, <3>1, <3>2 DEF Progress
  <2> QED
    BY <1>1, <2>1 DEF Progressing
<1>8. Sends'
    BY <1>1, <1>2, <1>3 DEF Accounted, Sends
<1>9. Apart'
    BY <1>1, <1>2 DEF Accounted, Apart
<1> QED
    BY <1>1, <1>6, <1>7, <1>8, <1>9 DEF Accounted
\* The first callback's claims leave the others'.
LEMMA TailClaims ==
    ASSUME NEW q \in Seq(CallBacks), q # <<>>, Spread(q)
    PROVE  /\ Spread(Tail(q)) /\ ClaimsOf(Tail(q)) = ClaimsOf(q) \ Named(CallLog(Head(q)))
           /\ Named(CallLog(Head(q))) \subseteq ClaimsOf(q)
           /\ \A i \in DOMAIN Tail(q) : i + 1 \in DOMAIN q /\ Tail(q)[i] = q[i + 1]
           /\ 1 \in DOMAIN q /\ Head(q) = q[1]
<1> DEFINE r == Tail(q)
           c == Head(q)
<1>1. /\ c = q[1] /\ 1 \in DOMAIN q
      /\ \A i \in DOMAIN r : i \in Nat /\ i >= 1 /\ i + 1 \in DOMAIN q /\ r[i] = q[i + 1]
      /\ \A k \in DOMAIN q : k \in Nat /\ (k = 1 \/ (k - 1 \in DOMAIN r /\ r[k - 1] = q[k] /\ k > 1))
    BY HeadTailProperties, LenProperties
<1> HIDE DEF r, c
<1>2. ASSUME NEW s, NEW i \in DOMAIN r, s \in Named(CallLog(r[i]))
      PROVE  s \in ClaimsOf(q) /\ s \notin Named(CallLog(c))
  <2>1. i + 1 \in DOMAIN q /\ r[i] = q[i + 1] /\ i + 1 # 1
    BY <1>1
  <2>2. Named(CallLog(q[i + 1])) \cap Named(CallLog(q[1])) = {}
    BY <1>1, <2>1 DEF Spread
  <2> QED
    BY <1>1, <1>2, <2>1, <2>2 DEF ClaimsOf
<1>3. ASSUME NEW s \in ClaimsOf(q), s \notin Named(CallLog(c)) PROVE s \in ClaimsOf(r)
  <2>1. PICK k \in DOMAIN q : s \in Named(CallLog(q[k]))
    BY <1>3 DEF ClaimsOf
  <2>2. k # 1
    BY <1>1, <1>3, <2>1
  <2> QED
    BY <1>1, <2>1, <2>2 DEF ClaimsOf
<1>4. Spread(r)
  <2> SUFFICES ASSUME NEW i \in DOMAIN r, NEW k \in DOMAIN r, i # k
               PROVE  Named(CallLog(r[i])) \cap Named(CallLog(r[k])) = {}
    BY DEF Spread
  <2>1. i + 1 \in DOMAIN q /\ k + 1 \in DOMAIN q /\ i + 1 # k + 1 /\ r[i] = q[i + 1] /\ r[k] = q[k + 1]
    BY <1>1
  <2> QED
    BY <2>1 DEF Spread
<1>5. ClaimsOf(r) = ClaimsOf(q) \ Named(CallLog(c)) /\ Named(CallLog(c)) \subseteq ClaimsOf(q)
  <2>1. ClaimsOf(r) \subseteq ClaimsOf(q) \ Named(CallLog(c))
    BY <1>2 DEF ClaimsOf
  <2>2. Named(CallLog(c)) \subseteq ClaimsOf(q)
    BY <1>1 DEF ClaimsOf
  <2> QED
    BY <1>3, <2>1, <2>2
<1> QED
    BY <1>1, <1>4, <1>5 DEF r, c

\* The tasks are as they were, but perhaps for a new one that is about no send.
SameTasks ==
    \A v \in Tasks : \/ task'[v] = task[v]
                     \/ /\ ~Sending(task[v]) /\ LogOf(task[v]) = {}
                        /\ ~Sending(task'[v]) /\ LogOf(task'[v]) = {}

\* The history after a callback: what its log says of a send is appended.
LEMMA ApplyAccounts ==
    ASSUME TradeTypes, Accounted, SameTasks, calls # <<>>, calls' = Tail(calls),
           UNCHANGED <<sends, made, conf, modal>>, NEW L, L = CallLog(Head(calls)),
           \/ L = {} /\ UNCHANGED history
           \/ L \in SUBSET Entries /\ history' = WithLog(L)
    PROVE  Accounted'
<1>0. sends' = sends /\ made' = made /\ conf' = conf /\ modal' = modal
    OBVIOUS
<1>1. /\ Spread(calls') /\ ClaimsOf(calls') = ClaimsOf(calls) \ Named(L) /\ Named(L) \subseteq ClaimsOf(calls)
      /\ \A i \in DOMAIN calls' : i + 1 \in DOMAIN calls /\ calls'[i] = calls[i + 1]
      /\ 1 \in DOMAIN calls /\ Head(calls) = calls[1]
    BY TailClaims DEF Accounted, Apart, TradeTypes, CallsOK
<1>2. \A v \in Tasks : /\ Claims(task'[v]) = Claims(task[v]) /\ LogOf(task'[v]) = LogOf(task[v])
                       /\ Sending(task'[v]) => task'[v] = task[v]
    BY DEF SameTasks, Claims
<1>3. Held' = Held
    BY <1>2 DEF Held
<1>4. Claimed' = Claimed \ Named(L) /\ Named(L) \subseteq Claimed
    BY <1>1, <1>3 DEF Accounted, Apart, Claimed
<1>5. Apart'
    BY <1>1, <1>2, <1>3 DEF Accounted, Apart
<1>6. TrueLog(L, made, conf)
    BY <1>1 DEF Accounted, Truthful
<1>7. ASSUME NEW s \in Send
      PROVE  \/ s \notin Named(L) /\ history'[s] = history[s]
             \/ /\ s \in Named(L) /\ Len(history'[s]) = 1
                /\ \A i \in DOMAIN history'[s] : Says(s, history'[s][i], made, conf)
  <2>1. CASE s \notin Named(L)
    <3>1. CASE L = {} /\ UNCHANGED history
        BY <2>1, <3>1
    <3>2. CASE L \in SUBSET Entries /\ history' = WithLog(L)
        BY <2>1, <3>2, LogTypes DEF TradeTypes, Named
    <3> QED
        BY <3>1, <3>2
  <2>2. CASE s \in Named(L)
    <3>1. PICK e \in L : e[1] = s
        BY <2>2 DEF Named
    <3>2. L \in SUBSET Entries /\ history' = WithLog(L)
        BY <3>1
    <3>3. Says(s, e[2], made, conf) /\ \A f \in L : f[1] = s => f = e
        BY <1>6, <3>1 DEF TrueLog
    <3>4. history'[s] = history[s] \o <<e[2]>>
        BY <3>1, <3>2, <3>3, LogTypes DEF TradeTypes
    <3>5. Len(history[s]) = 0 /\ history[s] \in Seq(Outcomes) /\ e[2] \in Outcomes
        BY <1>4, <2>2, <3>1, <3>2 DEF Accounted, Sends, TradeTypes, SendsOK, Entries
    <3>6. history[s] = <<>>
        BY <3>5, EmptySeq
    <3>7. <<e[2]>> \in Seq(Outcomes) /\ <<>> \o <<e[2]>> = <<e[2]>>
        BY <3>5, ConcatEmptySeq
    <3>8. history'[s] = <<e[2]>>
        BY <3>4, <3>6, <3>7
    <3>9. Len(history'[s]) = 1 /\ \A i \in DOMAIN history'[s] : history'[s][i] = e[2]
      <4>1. ASSUME NEW h, NEW x, h = <<x>> PROVE Len(h) = 1 /\ \A i \in DOMAIN h : h[i] = x
        BY <4>1
      <4> QED
        BY <3>8, <4>1
    <3> QED
        BY <2>2, <3>3, <3>9
  <2> QED
    BY <2>1, <2>2
<1>8. Truthful'
  <2>1. \A s \in Send : \A i \in DOMAIN history'[s] : Says(s, history'[s][i], made, conf)
    BY <1>7 DEF Accounted, Truthful
  <2>2. \A i \in DOMAIN calls' : TrueLog(CallLog(calls'[i]), made, conf)
    BY <1>1 DEF Accounted, Truthful
  <2>3. \A w \in Tasks : TrueLog(LogOf(task'[w]), made, conf)
    BY <1>2 DEF Accounted, Truthful
  <2> QED
    BY <1>0, <2>1, <2>2, <2>3 DEF Truthful
<1>9. Progressing'
    BY <1>0, <1>2 DEF Accounted, Progressing
<1>10. Sends'
  <2>1. \A s \in DOMAIN sends : Gives(sends[s]) /\ Len(history'[s]) = (IF s \in Claimed' THEN 0 ELSE 1)
    BY <1>4, <1>7 DEF Accounted, Sends, TradeTypes, SendsOK
  <2>2. \A s \in Send \ DOMAIN sends : made[s] = 0 /\ conf[s] = "none" /\ history'[s] = <<>>
    BY <1>4, <1>7 DEF Accounted, Sends
  <2>3. \A s \in Send : made[s] <= 1 /\ (conf[s] = "confirmed" => AutoConfirm)
    BY DEF Accounted, Sends
  <2>4. Claimed' \subseteq DOMAIN sends
    BY <1>4 DEF Accounted, Sends
  <2> QED
    BY <1>0, <2>1, <2>2, <2>3, <2>4 DEF Sends
<1>11. ItemsOfOne'
    BY <1>0 DEF Accounted, ItemsOfOne
<1> QED
    BY <1>5, <1>8, <1>9, <1>10, <1>11 DEF Accounted

\* A fetch that a callback starts.
LEMMA FetchQueued ==
    ASSUME TradeTypes, NEW a \in Traders, NEW g, NEW q, StartFetch(a, g, q)
    PROVE  SameTasks
<1> DEFINE j == Task("fetch", <<a, g, 0>>, {})
<1>1. ~Sending(j) /\ LogOf(j) = {}
    BY DEF Task, Sending, LogOf, SendKinds
<1>2. PICK w \in Tasks \ Busy : task' = [task EXCEPT ![w] = j]
    BY DEF StartFetch, Queue
<1> HIDE DEF j
<1>3. task[w] = FreeTask
    BY <1>2, FreeIsFree DEF TradeTypes
<1>4. ~Sending(task[w]) /\ LogOf(task[w]) = {}
    BY <1>3 DEF FreeTask, Sending, LogOf, SendKinds
<1>5. task'[w] = j /\ \A v \in Tasks \ {w} : task'[v] = task[v]
    BY <1>2 DEF TradeTypes, TasksOK
<1> QED
    BY <1>1, <1>4, <1>5 DEF SameTasks

LEMMA SendApply == ASSUME TradeTypes, Accounted, Apply PROVE Accounted'
<1> DEFINE c == Head(calls)
<1>0. calls # <<>> /\ calls' = Tail(calls) /\ c \in CallBacks /\ UNCHANGED <<sends, made, conf, modal>>
    BY HeadTypes DEF Apply, TradeTypes, atSteam
<1>1. UNCHANGED task => SameTasks
    BY DEF SameTasks
<1> HIDE DEF c
<1>2. CASE ApplyTokens(c) \/ ApplyErase(c)
  <2>1. c.do \in {"tokens", "erase"} /\ UNCHANGED <<task, history>>
    BY <1>2 DEF ApplyTokens, ApplyErase
  <2>2. CallLog(c) = {}
    BY <2>1 DEF CallLog
  <2> QED
    BY <1>0, <1>1, <2>1, <2>2, ApplyAccounts DEF c
<1>3. CASE ApplyRefresh(c)
  <2>1. c.do = "refresh" /\ c.acc \in Traders /\ UNCHANGED history
        /\ (StartFetch(c.acc, c.gen, Tail(calls)) \/ UNCHANGED task)
    BY <1>0, <1>3, CallFields DEF ApplyRefresh
  <2>2. CallLog(c) = {} /\ SameTasks
    BY <1>1, <2>1, FetchQueued DEF CallLog
  <2> QED
    BY <1>0, <2>1, <2>2, ApplyAccounts DEF c
<1>4. CASE ApplySent(c)
  <2>1. c.do = "sent" /\ c.acc \in Traders /\ c.log \in SUBSET Entries /\ history' = WithLog(c.log)
        /\ (StartFetch(c.acc, tok[c.acc], Tail(calls)) \/ UNCHANGED task)
    BY <1>0, <1>4, CallFields DEF ApplySent
  <2>2. CallLog(c) = c.log /\ SameTasks
    BY <1>1, <2>1, FetchQueued DEF CallLog
  <2> QED
    BY <1>0, <2>1, <2>2, ApplyAccounts DEF c
<1>5. CASE ApplyBulkDone(c)
  <2>1. c.do = "bulkdone" /\ c.log \in SUBSET Entries /\ history' = WithLog(c.log) /\ UNCHANGED task
    BY <1>0, <1>5, CallFields DEF ApplyBulkDone
  <2>2. CallLog(c) = c.log
    BY <2>1 DEF CallLog
  <2> QED
    BY <1>0, <1>1, <2>1, <2>2, ApplyAccounts DEF c
<1> QED
    BY <1>2, <1>3, <1>4, <1>5 DEF Apply, c

LEMMA AccountedInit == ASSUME TradeInit PROVE Accounted
<1>1. /\ calls = <<>> /\ DOMAIN calls = {} /\ DOMAIN sends = {}
      /\ modal.selected = {} /\ \A s \in Send : made[s] = 0 /\ conf[s] = "none" /\ history[s] = <<>>
    BY DEF TradeInit, Closed
<1>2. \A w \in Tasks : ~Sending(task[w]) /\ LogOf(task[w]) = {} /\ Claims(task[w]) = {}
    BY DEF TradeInit, FreeTask, Sending, LogOf, SendKinds, Claims, Named
<1>3. Claimed = {} /\ Held = {} /\ ClaimsOf(calls) = {}
    BY <1>1, <1>2 DEF Claimed, Held, ClaimsOf
<1>4. Apart
    BY <1>1, <1>2, <1>3 DEF Apart, Spread
<1>5. Truthful
    BY <1>1, <1>2 DEF Truthful, TrueLog
<1>6. Sends
    BY <1>1, <1>3 DEF Sends
<1>7. Progressing /\ ItemsOfOne
    BY <1>1, <1>2 DEF Progressing, ItemsOfOne
<1> QED
    BY <1>4, <1>5, <1>6, <1>7 DEF Accounted

LEMMA AccountedStep == ASSUME TradeTypes, Accounted, [TradeNext]_trVars PROVE Accounted'
<1>1. ASSUME NEW w \in Tasks, TaskStep(w) PROVE Accounted'
    BY <1>1, SendAnswered, SendRefused, SendMint, SendLoad, SendAct, SendAccept, SendSweep,
       SendGift, SendSent, SendConfirm DEF TaskStep
<1>2. ASSUME NEW a \in Traders, PressRefresh(a) \/ PressLoad(a) \/ ClickChip(a) \/ Expire(a) \/ TimePasses(a)
      PROVE  Accounted'
    BY <1>2, SendPress, SendChip, SendElse
<1>3. CASE PressRefreshAll \/ PressAcceptAll \/ PressSendAll \/ PressSend
    BY <1>3, SendPress, SendBuilt
<1>4. CASE CloseModal \/ Acknowledge \/ Apply \/ UNCHANGED trVars
    BY <1>4, SendClosed, SendElse, SendApply
<1>5. ASSUME NEW o \in Offers, PressOffer(o) PROVE Accounted'
    BY <1>5, SendPress
<1> QED
    BY <1>1, <1>2, <1>3, <1>4, <1>5, SendOpened, SendClicked, SendShown DEF TradeNext

\* What a task or a callback claims is on its way.
LEMMA AccountedSends == ASSUME TradeTypes, Accounted PROVE EverySendAccounted
<1> SUFFICES ASSUME NEW s \in DOMAIN sends
             PROVE  /\ sends[s].items \subseteq Items[sends[s].acc] /\ sends[s].items # {}
                    /\ made[s] <= 1
                    /\ Len(history[s]) = (IF OnItsWay(s) THEN 0 ELSE 1)
                    /\ history[s] = <<"sent">> => made[s] = 1 /\ conf[s] = "none"
                    /\ history[s] = <<"needs confirmation">> => made[s] = 1 /\ conf[s] # "none"
                    /\ history[s] = <<"confirmed">> => conf[s] = "confirmed"
                    /\ conf[s] = "confirmed" => AutoConfirm
    BY Zenon DEF EverySendAccounted
<1>1. s \in Send /\ s # 0
    BY DEF TradeTypes, SendsOK, Send
<1>2. Gives(sends[s]) /\ made[s] <= 1 /\ (conf[s] = "confirmed" => AutoConfirm)
      /\ Len(history[s]) = (IF s \in Claimed THEN 0 ELSE 1)
    BY <1>1 DEF Accounted, Sends
<1>3. OnItsWay(s) <=> s \in Claimed
  <2>1. ASSUME NEW w \in Tasks
        PROVE  s \in Claims(task[w]) <=> /\ w \in Busy
                                         /\ \/ task[w].kind \in {"send", "bulksend"} /\ task[w].on = s
                                            \/ \E e \in task[w].log : e[1] = s
    <3>1. CASE task[w] = FreeTask
        BY <3>1, FreeIsFree DEF TradeTypes, Claims, LogOf, Named, Sending, FreeTask, SendKinds
    <3>2. CASE task[w] \in Chores
      <4>1. w \in Busy /\ (task[w].kind \notin SendKinds => task[w].log = {})
        BY <3>2, FreeIsFree, ChoreFields DEF TradeTypes, SendKinds
      <4> QED
        BY <1>1, <4>1 DEF Claims, LogOf, Named, Sending, SendKinds
    <3> QED
        BY <3>1, <3>2 DEF TradeTypes, TasksOK
  <2>2. ASSUME NEW i \in DOMAIN calls
        PROVE  s \in Named(CallLog(calls[i])) <=>
                   calls[i].do \in {"sent", "bulkdone"} /\ \E e \in calls[i].log : e[1] = s
    BY DEF Named, CallLog
  <2>3. s \in Held <=> \E w \in Busy : \/ task[w].kind \in {"send", "bulksend"} /\ task[w].on = s
                                       \/ \E e \in task[w].log : e[1] = s
    BY <2>1, FreeIsFree DEF Held, TradeTypes
  <2>4. s \in ClaimsOf(calls) <=>
            \E i \in DOMAIN calls : calls[i].do \in {"sent", "bulkdone"} /\ \E e \in calls[i].log : e[1] = s
    BY <2>2 DEF ClaimsOf
  <2> QED
    BY <2>3, <2>4 DEF OnItsWay, Claimed
<1>4. ASSUME NEW x, history[s] = <<x>> PROVE Says(s, x, made, conf)
  <2>1. 1 \in DOMAIN history[s] /\ history[s][1] = x
    BY <1>4
  <2> QED
    BY <1>1, <2>1 DEF Accounted, Truthful
<1>5. history[s] = <<"sent">> => made[s] = 1 /\ conf[s] = "none"
    BY <1>4, Zenon DEF Says
<1>6. history[s] = <<"needs confirmation">> => made[s] = 1 /\ conf[s] # "none"
    BY <1>4, Zenon DEF Says
<1>7. history[s] = <<"confirmed">> => conf[s] = "confirmed"
    BY <1>4, Zenon DEF Says
<1>8. sends[s].items \subseteq Items[sends[s].acc] /\ sends[s].items # {}
    BY <1>2 DEF Gives
<1>9. Len(history[s]) = (IF OnItsWay(s) THEN 0 ELSE 1)
    BY <1>2, <1>3
<1> HIDE DEF OnItsWay
<1> QED
    BY <1>2, <1>5, <1>6, <1>7, <1>8, <1>9, Zenon

\* The types TLC checks, among them that an offer is made twice at most.
LEMMA TypesTrade == ASSUME TradeTypes, Accounted PROVE TypeOfTrade
<1>1. made \in [Send -> 0..2]
    BY DEF TradeTypes, SteamOK, Accounted, Sends
<1>2. \A w \in Busy : task[w].creds \in Gen /\ task[w].tries \in 0..3
    BY FreeIsFree, ChoreFields DEF TradeTypes
<1>3. modal \in [open : BOOLEAN, accounts : SUBSET Traders, ack : BOOLEAN,
                 selected : SUBSET UNION {Items[a] : a \in Traders}]
    BY DEF TradeTypes, RestOK, Modals, TraderItems
<1>4. /\ {fetching, cool, invLoading, invLoaded, relogged, mixed} \subseteq [Traders -> BOOLEAN]
      /\ {tok, newest} \subseteq [Traders -> Gen]
    BY DEF TradeTypes, Lists, Sessions, RestOK
<1> QED
    BY <1>1, <1>2, <1>3, <1>4 DEF TypeOfTrade, TradeTypes, Lists, Sessions, SteamOK, SendsOK, RestOK

\* The invariant of the trade offers: the types, the flags and their tasks, where each
\* account's session stands, and where each send stands.
TradeInd == TradeTypes /\ Flagged /\ Settling /\ Accounted

\* TradeInd holds always, for all accounts, offers, items and bounds: every button, worker's
\* step, callback and change at Steam keeps it (trade_offers_*.cpp).
THEOREM TradeAlways == TradeSpec => []TradeInd
<1>1. TradeInit => TradeInd
    BY TypesInit, FlaggedInit, SettlingInit, AccountedInit DEF TradeInd
<1>2. TradeInd /\ [TradeNext]_trVars => TradeInd'
    BY TypesStep, FlaggedStep, SettlingStep, AccountedStep DEF TradeInd
<1> QED
    BY <1>1, <1>2, PTL DEF TradeSpec

\* The types, and that the flags the buttons ask (g_in_flight, fetching, the inventory's
\* loading) are up exactly while one task does what they say.
THEOREM TradeSafe == TradeSpec => []TradeInv
<1>1. TradeInd => TradeInv
    BY TypesTrade, FlagsAreTasks DEF TradeInd, TradeInv
<1> QED
    BY <1>1, TradeAlways, PTL

\* Every offer the user builds (send_offer, bulk_send_all) is made at most once, from the items
\* of its account, and ends in one entry of the history, which is true.
THEOREM SendsAccounted == TradeSpec => []EverySendAccounted
<1>1. TradeInd => EverySendAccounted
    BY AccountedSends DEF TradeInd
<1> QED
    BY <1>1, TradeAlways, PTL

\* When no copy of an account is out, the vault holds the newest session made for it
\* (apply_refreshed_tokens), unless two copies were out at once.
THEOREM SessionsSettle == TradeSpec => []TokensSettle
<1>1. TradeInd => TokensSettle
    BY SettlingSettles DEF TradeInd
<1> QED
    BY <1>1, TradeAlways, PTL
===============================================================================
