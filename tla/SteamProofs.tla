------------------------------ MODULE SteamProofs ------------------------------
(***************************************************************************)
(* What uses Steam, for any number of accounts, clients and launches.      *)
(*                                                                         *)
(* The CS2 client: every step of its thread leaves the owner's fields      *)
(* alone and tells only what is true when it is told.  From this, the      *)
(* screen never shows one unit's items as another's and forgets no claim,  *)
(* and the sweeps leave no client running that neither of them holds.      *)
(*                                                                         *)
(* Launching: Steam is never restarted in a circle, and a token is read    *)
(* back only after the reapply of its launch.                              *)
(*                                                                         *)
(* The trace cleaner: a run that went through its plan spared the accounts *)
(* of the keep list and took the rest, whatever happened meanwhile.        *)
(***************************************************************************)
EXTENDS Launch, Cleaner, Cs2Screen, GcSweep, FiniteSetTheorems, SequenceTheorems, TLAPS

-------------------------------------------------------------------------------
(* The client of the CS2 game coordinator. *)

\* A client that is still signing in has an attempt left; a callback has a handler.
GcInd ==
    /\ GcTypeOK
    /\ \A c \in DOMAIN clients : clients[c].pc = "signin" => clients[c].tries < kMaxAttempts
    /\ \A i \in DOMAIN posts : posts[i].kind \in Handlers(posts[i].to)

\* What a client tells its owner is of its account and true when it is told.
Tells(c, new) ==
    /\ new \in Seq(Callbacks)
    /\ \A i \in DOMAIN new :
          /\ new[i].to = clients[c].owner /\ new[i].acct = clients[c].acct
          /\ new[i].kind \in Handlers(clients[c].owner)
          /\ new[i].drop = drop'[clients[c].acct]
          /\ new[i].kind = "claimed" => drop'[clients[c].acct] = "claimed"
          /\ new[i].kind = "contents" =>
                \A x \in new[i].items : x[1] = clients[c].acct /\ x[2] = new[i].unit

\* A client's thread leaves whose it is, and the flag of its owner, alone; it
\* queues no command.
Becomes(c, r) ==
    /\ r \in Client /\ clients' = [clients EXCEPT ![c] = r]
    /\ r.acct = clients[c].acct /\ r.owner = clients[c].owner /\ r.stop = clients[c].stop
    /\ r.pc = "signin" => r.tries < kMaxAttempts
    /\ \A i \in DOMAIN r.cmds : \E j \in DOMAIN clients[c].cmds : r.cmds[i] = clients[c].cmds[j]

\* A claim that was heard is told to the screen.
Heard(c, r, new) ==
    r.redeemed =>
        \/ clients[c].redeemed
        \/ clients[c].owner = "screen" => \E i \in DOMAIN new : new[i].kind = "claimed"

\* What is on Steam: a claimed drop stays claimed.
SteamKeeps ==
    /\ where' \in [GAcct -> [Item -> Place]]
    /\ drop' \in [GAcct -> {"locked", "ready", "claimed"}]
    /\ \A a \in GAcct : drop[a] = "claimed" => drop'[a] = "claimed"

ThreadEffect(c) ==
    \E r \in Client, new \in Seq(Callbacks) :
        /\ Becomes(c, r) /\ Tells(c, new) /\ posts' = posts \o new
        /\ Heard(c, r, new) /\ SteamKeeps

LEMMA NamedIsFinite == IsFiniteSet(Named)
  <1>. DEFINE A == {<<a>> : a \in GAcct}
              P == GAcct \X (Unit \cup {Inv})
              Q == P \X Item
              T == GAcct \X Place \X Item
              f == [a \in GAcct |-> <<a>>]
              g == [q \in Q |-> <<q[1][1], q[1][2], q[2]>>]
  <1>1. IsFiniteSet(A)
    <2>1. f \in Surjection(GAcct, A)
      BY DEF Surjection
    <2>. QED
      BY <2>1, GcAssumption, FS_Surjection
  <1>2. IsFiniteSet(Q)
    <2>1. IsFiniteSet(Unit \cup {Inv})
      BY GcAssumption, FS_Singleton, FS_Union
    <2>2. IsFiniteSet(P)
      BY <2>1, GcAssumption, FS_Product
    <2>. QED
      BY <2>2, GcAssumption, FS_Product
  <1>3. IsFiniteSet(T)
    <2>1. g \in [Q -> T]
      BY DEF Place
    <2>2. ASSUME NEW t \in T PROVE \E q \in Q : g[q] = t
      <3>1. PICK a \in GAcct, p \in Place, i \in Item : t = <<a, p, i>>
        OBVIOUS
      <3>2. <<<<a, p>>, i>> \in Q
        BY DEF Place
      <3>3. g[<<<<a, p>>, i>>] = t
        BY <3>1, <3>2
      <3>. QED
        BY <3>2, <3>3
    <2>3. g \in Surjection(Q, T)
      BY <2>1, <2>2 DEF Surjection
    <2>. QED
      BY <2>3, <1>2, FS_Surjection
  <1>. QED
    BY <1>1, <1>3, FS_Union DEF Named

\* An order of a finite set is a sequence of its elements.
LEMMA OrderIsSequence ==
    ASSUME NEW S, IsFiniteSet(S), NEW s \in Orders(S)
    PROVE  s \in Seq(S) /\ Len(s) = Cardinality(S) /\ (S # {} => s # <<>>)
  <1>1. Cardinality(S) \in Nat /\ s \in [1..Cardinality(S) -> S]
    BY FS_CardinalityType DEF Orders
  <1>2. s \in Seq(S) /\ Len(s) = Cardinality(S)
    BY <1>1, SeqDef, LenProperties
  <1>3. S # {} => Cardinality(S) # 0
    BY FS_EmptySet
  <1>. QED
    BY <1>1, <1>2, <1>3

\* The threads' steps, from what they do to the client and what they tell.
LEMMA CallbackTells ==
    ASSUME GcInd, NEW c \in DOMAIN clients, SteamKeeps,
           NEW kind, NEW unit \in Place, NEW items \in SUBSET Named,
           kind = "claimed" => drop'[clients[c].acct] = "claimed",
           kind = "contents" => \A x \in items : x[1] = clients[c].acct /\ x[2] = unit
    PROVE  /\ Tells(c, Callback(c, kind, unit, items))
           /\ kind \in Handlers(clients[c].owner) =>
                 /\ Len(Callback(c, kind, unit, items)) = 1
                 /\ Callback(c, kind, unit, items)[1].kind = kind
  <1>1. clients[c] \in Client
    BY ElementOfSeq, LenProperties DEF GcInd, GcTypeOK
  <1>2. CASE kind \notin Handlers(clients[c].owner)
    <2>1. Callback(c, kind, unit, items) = <<>> /\ <<>> \in Seq(Callbacks) /\ DOMAIN <<>> = {}
      BY <1>2, EmptySeq DEF Callback
    <2>. QED
      BY <1>2, <2>1 DEF Tells
  <1>3. CASE kind \in Handlers(clients[c].owner)
    <2>. DEFINE p == [to |-> clients[c].owner, acct |-> clients[c].acct, kind |-> kind, unit |-> unit,
                      items |-> items, drop |-> drop'[clients[c].acct], logon |-> clients[c].logon]
    <2>1. Callback(c, kind, unit, items) = <<p>>
      BY <1>3 DEF Callback
    <2>2. kind \in UNION {Handlers(o) : o \in Owner}
      BY <1>1, <1>3 DEF Client
    <2>3. p \in Callbacks
      BY <1>1, <2>2 DEF Callbacks, Client, SteamKeeps
    <2>4. <<p>> \in Seq(Callbacks) /\ Len(<<p>>) = 1 /\ DOMAIN <<p>> = {1} /\ <<p>>[1] = p
      BY <2>3
    <2>5. p.to = clients[c].owner /\ p.acct = clients[c].acct /\ p.kind = kind /\ p.unit = unit
          /\ p.items = items /\ p.drop = drop'[clients[c].acct]
      OBVIOUS
    <2>. HIDE DEF p
    <2>6. Tells(c, <<p>>)
      BY <1>3, <2>4, <2>5 DEF Tells
    <2>. QED
      BY <2>1, <2>4, <2>5, <2>6
  <1>. QED
    BY <1>2, <1>3

LEMMA NothingTells == ASSUME NEW c PROVE Tells(c, <<>>)
  <1>1. <<>> \in Seq(Callbacks) /\ DOMAIN <<>> = {}
    BY EmptySeq
  <1>. QED
    BY <1>1 DEF Tells

LEMMA BothTell ==
    ASSUME NEW c, NEW s, NEW t, Tells(c, s), Tells(c, t)
    PROVE  /\ Tells(c, s \o t)
           /\ \A i \in DOMAIN s : i \in DOMAIN (s \o t) /\ (s \o t)[i] = s[i]
  <1>1. /\ s \in Seq(Callbacks) /\ t \in Seq(Callbacks) /\ s \o t \in Seq(Callbacks)
        /\ DOMAIN s = 1..Len(s) /\ DOMAIN t = 1..Len(t) /\ DOMAIN (s \o t) = 1..Len(s \o t)
        /\ Len(s) \in Nat /\ Len(t) \in Nat /\ Len(s \o t) = Len(s) + Len(t)
    BY ConcatProperties, LenProperties DEF Tells
  <1>2. ASSUME NEW i \in DOMAIN (s \o t)
        PROVE  (\E j \in DOMAIN s : (s \o t)[i] = s[j]) \/ (\E j \in DOMAIN t : (s \o t)[i] = t[j])
    <2>1. i \in 1..(Len(s) + Len(t))
      BY <1>1
    <2>2. (s \o t)[i] = IF i <= Len(s) THEN s[i] ELSE t[i - Len(s)]
      BY <1>1, <2>1, ConcatProperties
    <2>3. CASE i <= Len(s)
      BY <1>1, <2>1, <2>2, <2>3
    <2>4. CASE ~(i <= Len(s))
      <3>1. i - Len(s) \in 1..Len(t)
        BY <1>1, <2>1, <2>4
      <3>. QED
        BY <1>1, <2>2, <2>4, <3>1
    <2>. QED
      BY <2>3, <2>4
  <1>3. \A i \in DOMAIN s : i \in DOMAIN (s \o t) /\ (s \o t)[i] = s[i]
    <2>. TAKE i \in DOMAIN s
    <2>1. i \in 1..(Len(s) + Len(t)) /\ i <= Len(s)
      BY <1>1
    <2>2. (s \o t)[i] = IF i <= Len(s) THEN s[i] ELSE t[i - Len(s)]
      BY <1>1, <2>1, ConcatProperties
    <2>. QED
      BY <1>1, <2>1, <2>2
  <1>. DEFINE P(p) == /\ p.to = clients[c].owner /\ p.acct = clients[c].acct
                      /\ p.kind \in Handlers(clients[c].owner)
                      /\ p.drop = drop'[clients[c].acct]
                      /\ p.kind = "claimed" => drop'[clients[c].acct] = "claimed"
                      /\ p.kind = "contents" =>
                            \A x \in p.items : x[1] = clients[c].acct /\ x[2] = p.unit
  <1>4. (\A i \in DOMAIN s : P(s[i])) /\ (\A i \in DOMAIN t : P(t[i]))
    BY DEF Tells
  <1>5. (\A i \in DOMAIN (s \o t) : P((s \o t)[i])) => Tells(c, s \o t)
    BY <1>1 DEF Tells
  <1>. HIDE DEF P
  <1>6. \A i \in DOMAIN (s \o t) : P((s \o t)[i])
    BY <1>2, <1>4
  <1>. QED
    BY <1>3, <1>5, <1>6

\* What the steps have in common.
LEMMA ClientTyped ==
    ASSUME GcInd, NEW c \in DOMAIN clients
    PROVE  /\ clients[c] \in Client /\ clients[c].cmds \in Seq(Commands)
           /\ clients[c].acct \in GAcct /\ Inv \in Place
           /\ clients[c].pc = "signin" => clients[c].tries < kMaxAttempts
  <1>1. clients[c] \in Client
    BY ElementOfSeq, LenProperties DEF GcInd, GcTypeOK
  <1>. QED
    BY <1>1 DEF Client, Place, GcInd

LEMMA PlainTells ==
    ASSUME GcInd, NEW c \in DOMAIN clients, SteamKeeps, NEW kind, kind # "claimed", kind # "contents"
    PROVE  Tells(c, Plain(c, kind))
  BY ClientTyped, CallbackTells DEF Plain

LEMMA SnapshotTells ==
    ASSUME GcInd, NEW c \in DOMAIN clients, SteamKeeps
    PROVE  Tells(c, Snapshot(c))
  <1>1. ListedNext(clients[c].acct, Inv) \in SUBSET Named
    BY ClientTyped DEF ListedNext, Named
  <1>. QED
    BY <1>1, ClientTyped, CallbackTells DEF Snapshot

LEMMA UnchangedKeeps ==
    ASSUME GcInd, UNCHANGED <<where, drop>> PROVE SteamKeeps
  BY DEF GcInd, GcTypeOK, SteamKeeps

\* A step that leaves the claim alone.
LEMMA StepIsEffect ==
    ASSUME GcInd, NEW c \in DOMAIN clients, SteamKeeps, NEW r \in Client, NEW new,
           Becomes(c, r), Tells(c, new), posts' = posts \o new, r.redeemed = clients[c].redeemed
    PROVE  ThreadEffect(c)
  BY DEF ThreadEffect, Heard, Tells

\* The commands that are left.
LEMMA TakenGoes ==
    ASSUME GcInd, NEW c \in DOMAIN clients, clients[c].cmds # <<>>, NEW heard \in BOOLEAN,
           clients' = [clients EXCEPT ![c].cmds = Tail(@), ![c].redeemed = @ \/ heard]
    PROVE  \E r \in Client : Becomes(c, r) /\ r.redeemed = (clients[c].redeemed \/ heard)
  <1>. DEFINE me == clients[c]
              r == [me EXCEPT !.cmds = Tail(@), !.redeemed = @ \/ heard]
  <1>1. me \in Client /\ me.cmds \in Seq(Commands)
    BY ClientTyped
  <1>2. /\ Tail(me.cmds) \in Seq(Commands) /\ Len(Tail(me.cmds)) = Len(me.cmds) - 1
        /\ \A i \in 1..Len(Tail(me.cmds)) : Tail(me.cmds)[i] = me.cmds[i + 1]
    BY <1>1, HeadTailProperties
  <1>3. /\ DOMAIN Tail(me.cmds) = 1..Len(Tail(me.cmds)) /\ DOMAIN me.cmds = 1..Len(me.cmds)
        /\ Len(me.cmds) \in Nat
    BY <1>1, <1>2, LenProperties
  <1>4. \A i \in DOMAIN Tail(me.cmds) : \E j \in DOMAIN me.cmds : Tail(me.cmds)[i] = me.cmds[j]
    <2>. TAKE i \in DOMAIN Tail(me.cmds)
    <2>1. i + 1 \in DOMAIN me.cmds
      BY <1>2, <1>3
    <2>. QED
      BY <1>2, <1>3, <2>1
  <1>5. /\ r.cmds = Tail(me.cmds) /\ r.redeemed = (me.redeemed \/ heard)
        /\ r.acct = me.acct /\ r.owner = me.owner /\ r.stop = me.stop
        /\ r.pc = me.pc /\ r.tries = me.tries
    BY <1>1 DEF Client
  <1>6. r \in Client
    BY <1>1, <1>2 DEF Client
  <1>7. clients' = [clients EXCEPT ![c] = r]
    OBVIOUS
  <1>. HIDE DEF r
  <1>8. r.pc = "signin" => r.tries < kMaxAttempts
    BY <1>5, ClientTyped
  <1>9. \A i \in DOMAIN r.cmds : \E j \in DOMAIN clients[c].cmds : r.cmds[i] = clients[c].cmds[j]
    BY <1>4, <1>5
  <1>10. Becomes(c, r)
    BY <1>5, <1>6, <1>7, <1>8, <1>9 DEF Becomes
  <1>. QED
    BY <1>5, <1>6, <1>10

LEMMA TakenStep ==
    ASSUME GcInd, NEW c \in DOMAIN clients, NEW op, Taken(c, op), SteamKeeps,
           NEW new, Tells(c, new), posts' = posts \o new
    PROVE  ThreadEffect(c)
  <1>1. clients[c] \in Client /\ clients[c].redeemed \in BOOLEAN
    BY ClientTyped DEF Client
  <1>2. clients' = [clients EXCEPT ![c].cmds = Tail(@), ![c].redeemed = @ \/ FALSE]
    BY <1>1 DEF Taken, Client
  <1>3. clients[c].cmds # <<>>
    BY DEF Taken, Due
  <1>4. PICK r \in Client : Becomes(c, r) /\ r.redeemed = (clients[c].redeemed \/ FALSE)
    BY <1>2, <1>3, TakenGoes
  <1>5. r.redeemed = clients[c].redeemed
    BY <1>1, <1>4
  <1>. QED
    BY <1>4, <1>5, StepIsEffect

LEMMA AttemptEffect == ASSUME GcInd, NEW c \in DOMAIN clients, Attempt(c) PROVE ThreadEffect(c)
  <1>. DEFINE me == clients[c]
  <1>1. me \in Client /\ SteamKeeps
    BY ClientTyped, UnchangedKeeps DEF Attempt
  <1>a. PICK answer \in LogonResult, up \in BOOLEAN, retry \in BOOLEAN :
          /\ retry => me.tries + 1 < kMaxAttempts
          /\ clients' = [clients EXCEPT ![c].tries = me.tries + 1, ![c].up = up,
                              ![c].logon = IF me.owner = "val" THEN answer ELSE "none",
                              ![c].pc = IF retry THEN "signin" ELSE "logon"]
    <2>1. PICK answer \in LogonResult, gc \in LaunchResult, loggedOff \in BOOLEAN :
            LET u == answer = "ok" /\ gc = "welcome"
                again == ~u /\ (loggedOff \/ (answer = "ok" /\ gc = "dropped")) /\ me.tries + 1 < kMaxAttempts
            IN  /\ loggedOff => ~u
                /\ clients' = [clients EXCEPT ![c].tries = @ + 1, ![c].up = u, ![c].logon = IF me.owner = "val" THEN answer ELSE "none",
                                              ![c].pc = IF again THEN "signin" ELSE "logon"]
      BY Zenon DEF Attempt
    <2>. DEFINE up == answer = "ok" /\ gc = "welcome"
                retry == ~up /\ (loggedOff \/ (answer = "ok" /\ gc = "dropped")) /\ me.tries + 1 < kMaxAttempts
    <2>2. up \in BOOLEAN /\ retry \in BOOLEAN /\ (retry => me.tries + 1 < kMaxAttempts)
      OBVIOUS
    <2>3. clients' = [clients EXCEPT ![c].tries = me.tries + 1, ![c].up = up,
                        ![c].logon = IF me.owner = "val" THEN answer ELSE "none",
                        ![c].pc = IF retry THEN "signin" ELSE "logon"]
      BY <2>1
    <2>. HIDE DEF up, retry
    <2>. USE <2>2
    <2>. WITNESS answer \in LogonResult, up \in BOOLEAN, retry \in BOOLEAN
    <2>. QED
      BY <2>3
  <1>b. PICK logon, pc : logon = (IF me.owner = "val" THEN answer ELSE "none") /\ pc = (IF retry THEN "signin" ELSE "logon")
    OBVIOUS
  <1>2. clients' = [clients EXCEPT ![c].tries = me.tries + 1, ![c].up = up, ![c].logon = logon, ![c].pc = pc]
    BY <1>a, <1>b
  <1>. DEFINE r == [me EXCEPT !.tries = me.tries + 1, !.up = up, !.logon = logon, !.pc = pc]
  <1>3. clients' = [clients EXCEPT ![c] = r]
    BY <1>2
  <1>4. /\ r.tries = me.tries + 1 /\ r.up = up /\ r.pc = pc
        /\ r.acct = me.acct /\ r.owner = me.owner /\ r.stop = me.stop /\ r.cmds = me.cmds
        /\ r.redeemed = me.redeemed
    BY <1>1 DEF Client
  <1>5. me.tries \in 0..kMaxAttempts /\ me.tries < kMaxAttempts
    BY <1>1, ClientTyped DEF Attempt, Client
  <1>6. r \in Client
    <2>1. me.tries + 1 \in 0..kMaxAttempts
      BY <1>5 DEF kMaxAttempts
    <2>2. logon \in LogonResult /\ pc \in {"signin", "logon"}
      BY <1>b DEF LogonResult
    <2>. QED
      BY <1>1, <2>1, <2>2 DEF Client
  <1>. HIDE DEF r
  <1>7. Becomes(c, r)
    BY <1>a, <1>b, <1>3, <1>4, <1>5, <1>6 DEF Becomes
  <1>8. Tells(c, Plain(c, "status")) /\ posts' = posts \o Plain(c, "status")
    BY <1>1, PlainTells DEF Attempt, Post
  <1>. QED
    BY <1>1, <1>4, <1>6, <1>7, <1>8, StepIsEffect

\* The thread is up or at its end.
LEMMA SettledTyped ==
    ASSUME NEW me \in Client, me.cmds \in Seq(Commands)
    PROVE  /\ InState(me, "ready") \in Client /\ InState(me, "ready").cmds = me.cmds
           /\ Ended(me) \in Client /\ Ended(me).cmds = <<>>
           /\ \A r \in {InState(me, "ready"), Ended(me)} :
                 /\ r.acct = me.acct /\ r.owner = me.owner /\ r.stop = me.stop
                 /\ r.pc # "signin" /\ r.redeemed = me.redeemed
  <1>1. <<>> \in Seq(Commands) /\ 0 \in 0..kMaxAttempts /\ "none" \in LogonResult
    BY EmptySeq DEF kMaxAttempts, LogonResult
  <1>2. InState(me, "ready") \in Client /\ InState(me, "gone") \in Client
    BY <1>1 DEF InState, Client
  <1>3. Ended(me) \in Client
    BY <1>1, <1>2 DEF Ended, Client
  <1>. QED
    BY <1>2, <1>3 DEF InState, Ended, Client

LEMMA SettledGoes ==
    ASSUME GcInd, NEW c \in DOMAIN clients, NEW r \in {InState(clients[c], "ready"), Ended(clients[c])},
           clients' = [clients EXCEPT ![c] = r]
    PROVE  r \in Client /\ Becomes(c, r) /\ r.redeemed = clients[c].redeemed
  <1>1. clients[c] \in Client /\ clients[c].cmds \in Seq(Commands)
    BY ClientTyped
  <1>2. /\ r \in Client /\ r.acct = clients[c].acct /\ r.owner = clients[c].owner
        /\ r.stop = clients[c].stop /\ r.pc # "signin" /\ r.redeemed = clients[c].redeemed
        /\ r.cmds = clients[c].cmds \/ r.cmds = <<>>
    BY <1>1, SettledTyped
  <1>3. DOMAIN <<>> = {}
    BY EmptySeq
  <1>. QED
    BY <1>2, <1>3 DEF Becomes

LEMMA LoggedOnEffect == ASSUME GcInd, NEW c \in DOMAIN clients, LoggedOn(c) PROVE ThreadEffect(c)
  <1>. DEFINE me == clients[c]
              logon == IF me.tries > 0 THEN Plain(c, "logon") ELSE <<>>
              told == CASE me.stop -> <<>>
                        [] ~me.stop /\ ~me.up -> Plain(c, "error")
                        [] OTHER -> Snapshot(c) \o Plain(c, "Ready")
  <1>1. SteamKeeps
    BY UnchangedKeeps DEF LoggedOn
  <1>2. PICK r \in {InState(me, "ready"), Ended(me)} : clients' = [clients EXCEPT ![c] = r]
    BY DEF LoggedOn
  <1>3. r \in Client /\ Becomes(c, r) /\ r.redeemed = me.redeemed
    BY <1>2, SettledGoes
  <1>4. Tells(c, logon)
    BY <1>1, PlainTells, NothingTells
  <1>5. Tells(c, Snapshot(c) \o Plain(c, "Ready"))
    BY <1>1, PlainTells, SnapshotTells, BothTell
  <1>6. Tells(c, told)
    BY <1>1, <1>5, PlainTells, NothingTells
  <1>7. posts' = posts \o (logon \o told)
    BY DEF LoggedOn, PostLast
  <1>. HIDE DEF logon, told
  <1>8. Tells(c, logon \o told)
    BY <1>4, <1>6, BothTell
  <1>. QED
    BY <1>1, <1>3, <1>7, <1>8, StepIsEffect

LEMMA LeaveEffect == ASSUME GcInd, NEW c \in DOMAIN clients, Leave(c) PROVE ThreadEffect(c)
  <1>. DEFINE r == Ended(clients[c])
  <1>1. SteamKeeps
    BY UnchangedKeeps DEF Leave
  <1>2. r \in Client /\ Becomes(c, r) /\ r.redeemed = clients[c].redeemed
    BY SettledGoes DEF Leave
  <1>3. Tells(c, Plain(c, "error")) /\ Tells(c, Plain(c, "status"))
    BY <1>1, PlainTells
  <1>4. Tells(c, Plain(c, "error") \o Plain(c, "status"))
    BY <1>3, BothTell
  <1>. HIDE DEF r
  <1>5. CASE posts' = posts \o Plain(c, "status")
    BY <1>1, <1>2, <1>3, <1>5, StepIsEffect
  <1>6. CASE posts' = posts \o (Plain(c, "error") \o Plain(c, "status"))
    BY <1>1, <1>2, <1>4, <1>6, StepIsEffect
  <1>. QED
    BY <1>5, <1>6 DEF Leave, PostLast

LEMMA ChangedEffect == ASSUME GcInd, NEW c \in DOMAIN clients, Changed(c) PROVE ThreadEffect(c)
  <1>. DEFINE me == clients[c]
              r == [me EXCEPT !.behind = FALSE]
  <1>1. SteamKeeps /\ me \in Client
    BY UnchangedKeeps, ClientTyped DEF Changed
  <1>2. /\ r \in Client /\ r.redeemed = me.redeemed /\ r.acct = me.acct /\ r.owner = me.owner
        /\ r.stop = me.stop /\ r.pc = "ready" /\ r.cmds = me.cmds
    BY <1>1 DEF Client, Changed
  <1>3. clients' = [clients EXCEPT ![c] = r]
    BY DEF Changed
  <1>4. Becomes(c, r)
    BY <1>2, <1>3 DEF Becomes
  <1>5. Tells(c, Snapshot(c)) /\ posts' = posts \o Snapshot(c)
    BY <1>1, SnapshotTells DEF Changed, Post
  <1>. HIDE DEF r
  <1>. QED
    BY <1>1, <1>2, <1>4, <1>5, StepIsEffect

\* The command at the head of the queue.
LEMMA HeadTyped ==
    ASSUME GcInd, NEW c \in DOMAIN clients, clients[c].cmds # <<>>
    PROVE  /\ Head(clients[c].cmds) \in Commands
           /\ Head(clients[c].cmds).unit \in Place /\ Head(clients[c].cmds).items \in SUBSET Named
  <1>1. Head(clients[c].cmds) \in Commands
    BY ClientTyped, HeadTailProperties
  <1>. QED
    BY <1>1 DEF Commands

LEMMA LoadUnitEffect == ASSUME GcInd, NEW c \in DOMAIN clients, LoadUnit(c) PROVE ThreadEffect(c)
  <1>. DEFINE unit == Head(clients[c].cmds).unit
              a == clients[c].acct
  <1>1. SteamKeeps /\ a \in GAcct /\ unit \in Place
    BY UnchangedKeeps, ClientTyped, HeadTyped DEF LoadUnit, Taken, Due
  <1>2. CASE Post(Plain(c, "error"))
    BY <1>1, <1>2, PlainTells, TakenStep DEF LoadUnit, Post
  <1>3. ASSUME NEW got \in SUBSET Listed(a, unit), Post(Callback(c, "contents", unit, got))
        PROVE  ThreadEffect(c)
    <2>1. Listed(a, unit) \in SUBSET Named /\ \A x \in Listed(a, unit) : x[1] = a /\ x[2] = unit
      BY <1>1 DEF Listed, Named
    <2>2. Tells(c, Callback(c, "contents", unit, got))
      BY <1>1, <2>1, CallbackTells
    <2>. QED
      BY <1>1, <1>3, <2>2, TakenStep DEF LoadUnit, Post
  <1>. QED
    BY <1>2, <1>3 DEF LoadUnit

LEMMA MoveEffect ==
    ASSUME GcInd, NEW c \in DOMAIN clients, NEW op, Taken(c, op), NEW from, NEW to \in Place,
           MoveTo(c, from, to)
    PROVE  ThreadEffect(c)
  <1>. DEFINE a == clients[c].acct
  <1>1. a \in GAcct
    BY ClientTyped
  <1>2. SteamKeeps
    <2>1. PICK moved \in SUBSET Item :
            where' = [where EXCEPT ![a] = [i \in Item |-> IF i \in moved THEN to ELSE @[i]]]
      BY DEF MoveTo
    <2>2. where \in [GAcct -> [Item -> Place]] /\ drop \in [GAcct -> {"locked", "ready", "claimed"}]
      BY DEF GcInd, GcTypeOK
    <2>3. [i \in Item |-> IF i \in moved THEN to ELSE where[a][i]] \in [Item -> Place]
      BY <1>1, <2>2
    <2>4. where' \in [GAcct -> [Item -> Place]]
      BY <1>1, <2>1, <2>2, <2>3
    <2>. QED
      BY <2>2, <2>4 DEF SteamKeeps, MoveTo
  <1>3. Tells(c, Snapshot(c) \o Plain(c, "done"))
    BY <1>2, SnapshotTells, PlainTells, BothTell
  <1>. QED
    BY <1>2, <1>3, TakenStep DEF MoveTo, Post

LEMMA ClaimEffect == ASSUME GcInd, NEW c \in DOMAIN clients, ClaimReward(c) PROVE ThreadEffect(c)
  <1>. DEFINE a == clients[c].acct
  <1>1. a \in GAcct /\ clients[c] \in Client /\ drop \in [GAcct -> {"locked", "ready", "claimed"}]
    BY ClientTyped DEF GcInd, GcTypeOK
  <1>2. PICK taken \in BOOLEAN, heard \in BOOLEAN :
          /\ heard => taken
          /\ drop' = IF taken THEN [drop EXCEPT ![a] = "claimed"] ELSE drop
          /\ clients' = [clients EXCEPT ![c].cmds = Tail(@), ![c].redeemed = @ \/ heard]
          /\ Post((IF heard THEN Plain(c, "claimed") \o Plain(c, "done") ELSE Plain(c, "error"))
                  \o Snapshot(c))
    BY DEF ClaimReward
  <1>3. SteamKeeps /\ (heard => drop'[a] = "claimed")
    BY <1>1, <1>2 DEF SteamKeeps, GcInd, GcTypeOK, ClaimReward
  <1>4. PICK r \in Client : Becomes(c, r) /\ r.redeemed = (clients[c].redeemed \/ heard)
    BY <1>2, TakenGoes DEF ClaimReward, Due
  <1>. DEFINE s == Plain(c, "claimed")
              t == Plain(c, "done")
              e == Plain(c, "error")
              u == Snapshot(c)
  <1>5. Tells(c, u) /\ Tells(c, t) /\ Tells(c, e)
    BY <1>3, SnapshotTells, PlainTells
  <1>6. CASE heard
    <2>1. /\ Tells(c, s)
          /\ "claimed" \in Handlers(clients[c].owner) => Len(s) = 1 /\ s[1].kind = "claimed"
      BY <1>1, <1>3, <1>6, ClientTyped, CallbackTells DEF Plain
    <2>2. posts' = posts \o ((s \o t) \o u)
      BY <1>2, <1>6 DEF Post
    <2>. HIDE DEF s, t, e, u
    <2>. PICK s0, t0, u0 : s0 = s /\ t0 = t /\ u0 = u
      OBVIOUS
    <2>3. /\ Tells(c, s0 \o t0)
          /\ \A i \in DOMAIN s0 : i \in DOMAIN (s0 \o t0) /\ (s0 \o t0)[i] = s0[i]
      <3>1. Tells(c, s0) /\ Tells(c, t0)
        BY <1>5, <2>1
      <3>. QED
        BY <3>1, BothTell
    <2>4. /\ Tells(c, (s0 \o t0) \o u0)
          /\ \A i \in DOMAIN (s0 \o t0) :
                i \in DOMAIN ((s0 \o t0) \o u0) /\ ((s0 \o t0) \o u0)[i] = (s0 \o t0)[i]
      <3>1. Tells(c, u0)
        BY <1>5
      <3>. QED
        BY <2>3, <3>1, BothTell
    <2>. DEFINE new == (s0 \o t0) \o u0
    <2>5. ASSUME clients[c].owner = "screen" PROVE \E i \in DOMAIN new : new[i].kind = "claimed"
      <3>1. Len(s) = 1 /\ s[1].kind = "claimed"
        BY <2>1, <2>5 DEF Handlers
      <3>2. 1 \in DOMAIN s
        BY <2>1, <3>1, LenProperties DEF Tells
      <3>3. 1 \in DOMAIN new /\ new[1] = s[1]
        BY <2>3, <2>4, <3>2
      <3>. QED
        BY <3>1, <3>3
    <2>. HIDE DEF new
    <2>6. Tells(c, new) /\ new \in Seq(Callbacks) /\ posts' = posts \o new
      BY <2>2, <2>4 DEF Tells, new
    <2>7. Heard(c, r, new)
      BY <2>5 DEF Heard
    <2>. QED
      BY <1>3, <1>4, <2>6, <2>7 DEF ThreadEffect
  <1>7. CASE ~heard
    <2>1. posts' = posts \o (e \o u)
      BY <1>2, <1>7 DEF Post
    <2>. HIDE DEF s, t, e, u
    <2>2. Tells(c, e \o u)
      BY <1>5, BothTell
    <2>3. r.redeemed = clients[c].redeemed
      BY <1>1, <1>4, <1>7 DEF Client
    <2>. QED
      BY <1>3, <1>4, <2>1, <2>2, <2>3, StepIsEffect
  <1>. QED
    BY <1>6, <1>7

LEMMA PullEffect == ASSUME GcInd, NEW c \in DOMAIN clients, PullProfiles(c) PROVE ThreadEffect(c)
  <1>1. SteamKeeps /\ clients[c] \in Client
    BY UnchangedKeeps, ClientTyped DEF PullProfiles
  <1>0. PICK got \in SUBSET Head(clients[c].cmds).items : \E order \in Orders(got) :
          posts' = posts \o ((IF "profile" \in Handlers(clients[c].owner)
                              THEN [i \in DOMAIN order |-> Callback(c, "profile", Inv, {order[i]})[1]]
                              ELSE <<>>) \o Plain(c, "profiles done"))
    BY DEF PullProfiles, Post
  <1>2. PICK order \in Orders(got) :
          posts' = posts \o ((IF "profile" \in Handlers(clients[c].owner)
                              THEN [i \in DOMAIN order |-> Callback(c, "profile", Inv, {order[i]})[1]]
                              ELSE <<>>) \o Plain(c, "profiles done"))
    BY <1>0
  <1>. DEFINE told == IF "profile" \in Handlers(clients[c].owner)
                      THEN [i \in DOMAIN order |-> Callback(c, "profile", Inv, {order[i]})[1]]
                      ELSE <<>>
  <1>3. Tells(c, told)
    <2>1. CASE "profile" \notin Handlers(clients[c].owner)
      BY <2>1, NothingTells
    <2>2. CASE "profile" \in Handlers(clients[c].owner)
      <3>1. got \in SUBSET Named
        BY HeadTyped DEF PullProfiles, Taken, Due
      <3>2. IsFiniteSet(got)
        BY <3>1, NamedIsFinite, FS_Subset
      <3>3. order \in Seq(got) /\ DOMAIN order = 1..Len(order) /\ Len(order) \in Nat
        BY <3>2, OrderIsSequence, LenProperties
      <3>4. \A i \in DOMAIN order : order[i] \in Named
        BY <3>1, <3>3, ElementOfSeq
      <3>. DEFINE p(i) == Callback(c, "profile", Inv, {order[i]})[1]
      <3>5. ASSUME NEW i \in DOMAIN order
            PROVE  /\ p(i) \in Callbacks
                   /\ p(i).to = clients[c].owner /\ p(i).acct = clients[c].acct
                   /\ p(i).kind = "profile" /\ p(i).drop = drop'[clients[c].acct]
        <4>. DEFINE s == Callback(c, "profile", Inv, {order[i]})
        <4>1. Tells(c, s) /\ Len(s) = 1 /\ s[1].kind = "profile"
          BY <1>1, <2>2, <3>4, ClientTyped, CallbackTells
        <4>. HIDE DEF s
        <4>2. 1 \in DOMAIN s /\ s[1] \in Callbacks
          BY <4>1, LenProperties, ElementOfSeq DEF Tells
        <4>3. s[1].to = clients[c].owner /\ s[1].acct = clients[c].acct /\ s[1].drop = drop'[clients[c].acct]
          BY <4>1, <4>2 DEF Tells
        <4>. QED
          BY <4>1, <4>2, <4>3 DEF s
      <3>. HIDE DEF p
      <3>6. told = [i \in 1..Len(order) |-> p(i)]
        BY <2>2, <3>3 DEF p
      <3>7. told \in Seq(Callbacks) /\ DOMAIN told = 1..Len(order)
        <4>1. told \in [1..Len(order) -> Callbacks]
          BY <3>3, <3>5, <3>6
        <4>2. DOMAIN told = 1..Len(order)
          BY <3>6
        <4>3. told \in UNION {[1..n -> Callbacks] : n \in Nat}
          BY <3>3, <4>1
        <4>. QED
          BY <4>2, <4>3, SeqDef
      <3>8. \A i \in DOMAIN told : told[i] = p(i) /\ i \in DOMAIN order
        BY <3>3, <3>6, <3>7
      <3>. HIDE DEF told
      <3>. QED
        BY <2>2, <3>5, <3>7, <3>8 DEF Tells
    <2>. QED
      BY <2>1, <2>2
  <1>4. Tells(c, Plain(c, "profiles done"))
    BY <1>1, PlainTells
  <1>. HIDE DEF told
  <1>5. Tells(c, told \o Plain(c, "profiles done"))
    BY <1>3, <1>4, BothTell
  <1>6. posts' = posts \o (told \o Plain(c, "profiles done"))
    BY <1>2 DEF told
  <1>7. Taken(c, "pull")
    BY DEF PullProfiles
  <1>. QED
    BY <1>1, <1>5, <1>6, <1>7, TakenStep

LEMMA ThreadSteps == ASSUME GcInd, NEW c \in DOMAIN clients, Thread(c) PROVE ThreadEffect(c)
  <1>1. CASE MoveIn(c)
    BY <1>1, MoveEffect, HeadTyped DEF MoveIn, Taken, Due
  <1>2. CASE MoveOut(c)
    BY <1>2, MoveEffect, ClientTyped DEF MoveOut
  <1>3. CASE Refresh(c)
    <2>1. SteamKeeps /\ Tells(c, Snapshot(c)) /\ posts' = posts \o Snapshot(c) /\ Taken(c, "refresh")
      BY <1>3, UnchangedKeeps, SnapshotTells DEF Refresh, Post
    <2>. QED
      BY <2>1, TakenStep
  <1>. QED
    BY <1>1, <1>2, <1>3, AttemptEffect, LoggedOnEffect, LeaveEffect, ChangedEffect, LoadUnitEffect,
       ClaimEffect, PullEffect DEF Thread

\* What a thread's step leaves to its owner.
SameOwners ==
    /\ Len(clients') = Len(clients) /\ DOMAIN clients' = DOMAIN clients
    /\ \A d \in DOMAIN clients :
          /\ clients'[d].acct = clients[d].acct /\ clients'[d].owner = clients[d].owner
          /\ clients'[d].stop = clients[d].stop
          /\ \A i \in DOMAIN clients'[d].cmds :
                \E j \in DOMAIN clients[d].cmds : clients'[d].cmds[i] = clients[d].cmds[j]

\* What is posted is added to what is waiting.
Added(new) ==
    /\ \A i \in DOMAIN posts' : \/ \E j \in DOMAIN posts : posts'[i] = posts[j]
                                \/ \E j \in DOMAIN new : posts'[i] = new[j]
    /\ \A j \in DOMAIN posts : \E i \in DOMAIN posts' : posts'[i] = posts[j]
    /\ \A j \in DOMAIN new : \E i \in DOMAIN posts' : posts'[i] = new[j]

LEMMA PostedAdds ==
    ASSUME NEW new \in Seq(Callbacks), posts \in Seq(Callbacks), posts' = posts \o new
    PROVE  posts' \in Seq(Callbacks) /\ Added(new)
  <1>1. /\ posts' \in Seq(Callbacks) /\ DOMAIN posts' = 1..(Len(posts) + Len(new))
        /\ DOMAIN posts = 1..Len(posts) /\ DOMAIN new = 1..Len(new)
        /\ Len(posts) \in Nat /\ Len(new) \in Nat
    BY ConcatProperties, LenProperties
  <1>2. \A i \in 1..(Len(posts) + Len(new)) :
           posts'[i] = IF i <= Len(posts) THEN posts[i] ELSE new[i - Len(posts)]
    BY ConcatProperties
  <1>3. ASSUME NEW i \in DOMAIN posts'
        PROVE  \/ \E j \in DOMAIN posts : posts'[i] = posts[j]
               \/ \E j \in DOMAIN new : posts'[i] = new[j]
    <2>1. CASE i <= Len(posts)
      BY <1>1, <1>2, <2>1
    <2>2. CASE ~(i <= Len(posts))
      <3>1. i - Len(posts) \in DOMAIN new
        BY <1>1, <2>2
      <3>. QED
        BY <1>1, <1>2, <2>2, <3>1
    <2>. QED
      BY <2>1, <2>2
  <1>4. \A j \in DOMAIN posts : j \in DOMAIN posts' /\ posts'[j] = posts[j]
    BY <1>1, <1>2
  <1>5. ASSUME NEW j \in DOMAIN new PROVE \E i \in DOMAIN posts' : posts'[i] = new[j]
    <2>1. /\ j + Len(posts) \in DOMAIN posts' /\ ~(j + Len(posts) <= Len(posts))
          /\ (j + Len(posts)) - Len(posts) = j
      BY <1>1
    <2>2. posts'[j + Len(posts)] = new[j]
      BY <1>1, <1>2, <2>1
    <2>. QED
      BY <2>1, <2>2
  <1>. QED
    BY <1>1, <1>3, <1>4, <1>5 DEF Added

LEMMA ThreadFacts ==
    ASSUME GcInd, NEW c \in DOMAIN clients, Thread(c)
    PROVE  /\ GcInd' /\ SteamKeeps /\ SameOwners
           /\ \E new \in Seq(Callbacks) :
                 /\ Tells(c, new) /\ Added(new)
                 /\ \A d \in DOMAIN clients :
                       /\ clients'[d].redeemed
                       /\ clients[d].owner = "screen"
                       => clients[d].redeemed \/ (d = c /\ \E i \in DOMAIN new : new[i].kind = "claimed")
  <1>1. PICK r \in Client, new \in Seq(Callbacks) :
          /\ Becomes(c, r) /\ Tells(c, new) /\ posts' = posts \o new
          /\ Heard(c, r, new) /\ SteamKeeps
    BY ThreadSteps DEF ThreadEffect
  <1>2. clients \in Seq(Client) /\ posts \in Seq(Callbacks)
    BY DEF GcInd, GcTypeOK
  <1>3. DOMAIN clients = 1..Len(clients) /\ Len(clients) \in Nat /\ clients \in [1..Len(clients) -> Client]
    BY <1>2, LenProperties
  <1>4. clients' \in [1..Len(clients) -> Client] /\ DOMAIN clients' = DOMAIN clients
    BY <1>1, <1>3 DEF Becomes
  <1>5. clients' \in Seq(Client) /\ Len(clients') = Len(clients)
    <2>1. clients' \in UNION {[1..n -> Client] : n \in Nat}
      BY <1>3, <1>4
    <2>2. clients' \in Seq(Client)
      BY <2>1, SeqDef
    <2>3. DOMAIN clients' = 1..Len(clients') /\ Len(clients') \in Nat
      BY <2>2, LenProperties
    <2>. QED
      BY <1>3, <1>4, <2>2, <2>3
  <1>6. clients'[c] = r /\ \A d \in DOMAIN clients : d # c => clients'[d] = clients[d]
    BY <1>1, <1>3 DEF Becomes
  <1>7. SameOwners
    <2>1. ASSUME NEW d \in DOMAIN clients
          PROVE  /\ clients'[d].acct = clients[d].acct /\ clients'[d].owner = clients[d].owner
                 /\ clients'[d].stop = clients[d].stop
                 /\ \A i \in DOMAIN clients'[d].cmds :
                       \E j \in DOMAIN clients[d].cmds : clients'[d].cmds[i] = clients[d].cmds[j]
      BY <1>1, <1>6 DEF Becomes
    <2>. QED
      BY <1>4, <1>5, <2>1 DEF SameOwners
  <1>8. posts' \in Seq(Callbacks) /\ Added(new)
    BY <1>1, <1>2, PostedAdds
  <1>9. GcInd'
    <2>1. GcTypeOK'
      BY <1>1, <1>5, <1>8 DEF GcTypeOK, SteamKeeps
    <2>2. \A d \in DOMAIN clients' : clients'[d].pc = "signin" => clients'[d].tries < kMaxAttempts
      BY <1>1, <1>4, <1>6 DEF Becomes, GcInd
    <2>3. \A i \in DOMAIN posts' : posts'[i].kind \in Handlers(posts'[i].to)
      <3>1. \A i \in DOMAIN posts : posts[i].kind \in Handlers(posts[i].to)
        BY DEF GcInd
      <3>2. \A i \in DOMAIN new : new[i].kind \in Handlers(new[i].to)
        BY <1>1 DEF Tells
      <3>. QED
        BY <1>8, <3>1, <3>2 DEF Added
    <2>. QED
      BY <2>1, <2>2, <2>3 DEF GcInd
  <1>10. ASSUME NEW d \in DOMAIN clients, clients'[d].redeemed, clients[d].owner = "screen"
         PROVE  clients[d].redeemed \/ (d = c /\ \E i \in DOMAIN new : new[i].kind = "claimed")
    BY <1>1, <1>6, <1>10 DEF Heard
  <1>. QED
    BY <1>1, <1>7, <1>8, <1>9, <1>10

\* A callback is run: the next one is at the head.
LEMMA HeadRuns ==
    ASSUME posts \in Seq(Callbacks), posts # <<>>, posts' = Tail(posts)
    PROVE  /\ Head(posts) \in Callbacks /\ 1 \in DOMAIN posts /\ Head(posts) = posts[1]
           /\ posts' \in Seq(Callbacks)
           /\ \A i \in DOMAIN posts' : i + 1 \in DOMAIN posts /\ posts'[i] = posts[i + 1]
           /\ \A i \in DOMAIN posts : i = 1 \/ (i - 1 \in DOMAIN posts' /\ posts'[i - 1] = posts[i])
  <1>1. /\ Head(posts) \in Callbacks /\ Tail(posts) \in Seq(Callbacks)
        /\ Len(Tail(posts)) = Len(posts) - 1
        /\ \A i \in 1..Len(Tail(posts)) : Tail(posts)[i] = posts[i + 1]
    BY HeadTailProperties
  <1>2. /\ DOMAIN posts = 1..Len(posts) /\ DOMAIN posts' = 1..Len(posts') /\ Len(posts) \in Nat
        /\ Len(posts') = Len(posts) - 1 /\ Len(posts') \in Nat
    BY <1>1, LenProperties
  <1>3. Head(posts) = posts[1] /\ 1 \in DOMAIN posts
    BY <1>2
  <1>4. \A i \in DOMAIN posts' : i + 1 \in DOMAIN posts /\ posts'[i] = posts[i + 1]
    BY <1>1, <1>2
  <1>5. ASSUME NEW i \in DOMAIN posts, i # 1 PROVE i - 1 \in DOMAIN posts' /\ posts'[i - 1] = posts[i]
    <2>1. i - 1 \in DOMAIN posts' /\ (i - 1) + 1 = i
      BY <1>2, <1>5
    <2>. QED
      BY <1>4, <2>1
  <1>. QED
    BY <1>1, <1>3, <1>4, <1>5

-------------------------------------------------------------------------------
(* What the owners do with the clients. *)

\* As in GcInd, of clients that are being changed.
MayAttempt(r) == r.pc = "signin" => r.tries < kMaxAttempts
ClientsOK(cs) == cs \in Seq(Client) /\ \A c \in DOMAIN cs : MayAttempt(cs[c])

\* What retiring a client leaves as it is.
SameBut(s, t) ==
    /\ t.acct = s.acct /\ t.owner = s.owner /\ t.cmds = s.cmds /\ t.redeemed = s.redeemed

LEMMA GcClients == GcInd => ClientsOK(clients)
  BY DEF GcInd, GcTypeOK, ClientsOK, MayAttempt

LEMMA GcAfter ==
    ASSUME GcInd, ClientsOK(clients'), UNCHANGED <<posts, where, drop>>
    PROVE  GcInd'
  BY DEF GcInd, GcTypeOK, ClientsOK, MayAttempt

\* A client that is changed in place.
Put(cs, k, r) == [cs EXCEPT ![k] = r]

LEMMA PutFacts ==
    ASSUME NEW cs, ClientsOK(cs), NEW k \in 1..Len(cs), NEW r \in Client, MayAttempt(r)
    PROVE  /\ ClientsOK(Put(cs, k, r)) /\ Len(Put(cs, k, r)) = Len(cs)
           /\ DOMAIN Put(cs, k, r) = DOMAIN cs /\ Put(cs, k, r)[k] = r
           /\ \A d \in DOMAIN cs : d # k => Put(cs, k, r)[d] = cs[d]
  <1>. DEFINE ds == Put(cs, k, r)
  <1>1. cs \in [1..Len(cs) -> Client] /\ DOMAIN cs = 1..Len(cs) /\ Len(cs) \in Nat
    BY LenProperties DEF ClientsOK
  <1>2. ds \in [1..Len(cs) -> Client] /\ DOMAIN ds = DOMAIN cs /\ ds[k] = r
        /\ \A d \in DOMAIN cs : d # k => ds[d] = cs[d]
    BY <1>1 DEF Put
  <1>. HIDE DEF ds
  <1>3. ds \in Seq(Client)
    <2>1. ds \in UNION {[1..n -> Client] : n \in Nat}
      BY <1>1, <1>2
    <2>. QED
      BY <2>1, SeqDef
  <1>4. Len(ds) = Len(cs)
    BY <1>1, <1>2, <1>3, LenProperties
  <1>5. ClientsOK(ds)
    BY <1>2, <1>3 DEF ClientsOK
  <1>. QED
    BY <1>2, <1>4, <1>5 DEF ds

LEMMA RetireFacts ==
    ASSUME NEW cs, ClientsOK(cs), NEW k \in 0..Len(cs)
    PROVE  /\ ClientsOK(Retire(cs, k)) /\ Len(Retire(cs, k)) = Len(cs)
           /\ DOMAIN Retire(cs, k) = DOMAIN cs
           /\ \A d \in DOMAIN cs : SameBut(cs[d], Retire(cs, k)[d])
           /\ \A d \in DOMAIN cs : Retire(cs, k)[d].stop = (cs[d].stop \/ d = k)
  <1>1. DOMAIN cs = 1..Len(cs) /\ Len(cs) \in Nat /\ \A d \in DOMAIN cs : cs[d] \in Client
    BY LenProperties, ElementOfSeq DEF ClientsOK
  <1>2. CASE k = 0
    <2>1. Retire(cs, k) = cs /\ \A d \in DOMAIN cs : d # k /\ cs[d].stop \in BOOLEAN
      BY <1>1, <1>2 DEF Retire, Client
    <2>. QED
      BY <2>1 DEF SameBut
  <1>3. CASE k # 0
    <2>1. k \in 1..Len(cs) /\ cs[k] \in Client
      BY <1>1, <1>3
    <2>2. PICK r : r = [cs[k] EXCEPT !.stop = TRUE]
      OBVIOUS
    <2>3. r \in Client /\ r.stop = TRUE /\ r.pc = cs[k].pc /\ r.tries = cs[k].tries /\ SameBut(cs[k], r)
      BY <2>1, <2>2 DEF Client, SameBut
    <2>4. MayAttempt(r)
      BY <1>1, <2>1, <2>3 DEF ClientsOK, MayAttempt
    <2>5. Retire(cs, k) = Put(cs, k, r)
      BY <1>3, <2>2 DEF Retire, Put
    <2>6. /\ ClientsOK(Put(cs, k, r)) /\ Len(Put(cs, k, r)) = Len(cs) /\ DOMAIN Put(cs, k, r) = DOMAIN cs
          /\ Put(cs, k, r)[k] = r
      BY <2>1, <2>3, <2>4, PutFacts
    <2>7. \A d \in DOMAIN cs : d # k => Put(cs, k, r)[d] = cs[d]
      BY <2>1, <2>3, <2>4, PutFacts
    <2>8. \A d \in DOMAIN cs : cs[d].stop \in BOOLEAN
      BY <1>1 DEF Client
    <2>. QED
      BY <2>3, <2>5, <2>6, <2>7, <2>8 DEF SameBut
  <1>. QED
    BY <1>2, <1>3

LEMMA StartFacts ==
    ASSUME NEW cs, ClientsOK(cs), NEW a \in GAcct, NEW o \in Owner
    PROVE  /\ ClientsOK(Start(cs, a, o)) /\ Len(Start(cs, a, o)) = Len(cs) + 1
           /\ DOMAIN Start(cs, a, o) = DOMAIN cs \cup {Len(cs) + 1}
           /\ \A d \in DOMAIN cs : Start(cs, a, o)[d] = cs[d] /\ d # Len(cs) + 1
           /\ Start(cs, a, o)[Len(cs) + 1] = Started(a, o)
           /\ Len(cs) \in Nat
  <1>. DEFINE s == Started(a, o)
              ds == Start(cs, a, o)
  <1>1. s \in Client
    <2>1. <<>> \in Seq(Commands) /\ 0 \in 0..kMaxAttempts /\ "none" \in LogonResult
      BY EmptySeq DEF kMaxAttempts, LogonResult
    <2>. QED
      BY <2>1 DEF Started, Client
  <1>2. MayAttempt(s)
    BY DEF Started, kMaxAttempts, MayAttempt
  <1>3. DOMAIN cs = 1..Len(cs) /\ Len(cs) \in Nat /\ cs \in Seq(Client)
    BY LenProperties DEF ClientsOK
  <1>. HIDE DEF s
  <1>4. ds = Append(cs, s)
    BY DEF Start, s
  <1>. HIDE DEF ds
  <1>5. /\ ds \in Seq(Client) /\ Len(ds) = Len(cs) + 1 /\ ds[Len(cs) + 1] = s
        /\ \A d \in 1..Len(cs) : ds[d] = cs[d]
    BY <1>1, <1>3, <1>4, AppendProperties
  <1>6. DOMAIN ds = 1..(Len(cs) + 1)
    BY <1>5, LenProperties
  <1>7. DOMAIN ds = DOMAIN cs \cup {Len(cs) + 1} /\ \A d \in DOMAIN cs : ds[d] = cs[d] /\ d # Len(cs) + 1
    BY <1>3, <1>5, <1>6
  <1>8. ClientsOK(ds)
    BY <1>2, <1>5, <1>7 DEF ClientsOK
  <1>. QED
    BY <1>3, <1>5, <1>7, <1>8 DEF s, ds

LEMMA EnqueueFacts ==
    ASSUME NEW cs, ClientsOK(cs), NEW k \in 1..Len(cs), NEW cmds \in Seq(Commands)
    PROVE  /\ ClientsOK(Enqueue(cs, k, cmds)) /\ Len(Enqueue(cs, k, cmds)) = Len(cs)
           /\ DOMAIN Enqueue(cs, k, cmds) = DOMAIN cs
           /\ \A d \in DOMAIN cs : d # k => Enqueue(cs, k, cmds)[d] = cs[d]
           /\ LET r == Enqueue(cs, k, cmds)[k]
              IN  /\ r.acct = cs[k].acct /\ r.owner = cs[k].owner /\ r.stop = cs[k].stop
                  /\ r.redeemed = cs[k].redeemed /\ r.cmds = cs[k].cmds \o cmds
  <1>1. cs[k] \in Client /\ DOMAIN cs = 1..Len(cs)
    BY LenProperties, ElementOfSeq DEF ClientsOK
  <1>2. cs[k].cmds \o cmds \in Seq(Commands)
    <2>1. cs[k].cmds \in Seq(Commands)
      BY <1>1 DEF Client
    <2>. QED
      BY <2>1, ConcatProperties
  <1>3. PICK r : r = [cs[k] EXCEPT !.cmds = @ \o cmds]
    OBVIOUS
  <1>4. /\ r \in Client /\ r.pc = cs[k].pc /\ r.tries = cs[k].tries /\ r.cmds = cs[k].cmds \o cmds
        /\ r.acct = cs[k].acct /\ r.owner = cs[k].owner /\ r.stop = cs[k].stop
        /\ r.redeemed = cs[k].redeemed
    BY <1>1, <1>2, <1>3 DEF Client
  <1>5. MayAttempt(r)
    BY <1>1, <1>4 DEF ClientsOK, MayAttempt
  <1>6. Enqueue(cs, k, cmds) = Put(cs, k, r)
    BY <1>3 DEF Enqueue, Put
  <1>7. /\ ClientsOK(Put(cs, k, r)) /\ Len(Put(cs, k, r)) = Len(cs) /\ DOMAIN Put(cs, k, r) = DOMAIN cs
        /\ Put(cs, k, r)[k] = r
    BY <1>4, <1>5, PutFacts
  <1>8. \A d \in DOMAIN cs : d # k => Put(cs, k, r)[d] = cs[d]
    BY <1>4, <1>5, PutFacts
  <1>. QED
    BY <1>4, <1>6, <1>7, <1>8

-------------------------------------------------------------------------------
(* The background sweeps. *)

Pulls == [active : BOOLEAN, phase : {"Idle", "SigningIn", "Connecting", "Pulling"}, cands : Seq(GAcct),
          idx : Nat, puller : GAcct \cup {NoAcct}, targets : SUBSET GAcct, pending : BOOLEAN,
          ok : BOOLEAN, connected : BOOLEAN, done : BOOLEAN, client : Nat]
Vals == [active : BOOLEAN, queue : Seq(GAcct), idx : Nat, current : GAcct \cup {NoAcct},
         connected : BOOLEAN, issued : BOOLEAN, logonSeen : BOOLEAN, logon : LogonResult,
         finished : BOOLEAN, client : Nat]

\* A record under way is at one of its accounts; a puller that still signs in has
\* no client, and one that connects has; so has a validation only while it runs.
PullOK(p) ==
    /\ p \in Pulls /\ (p.active => p.idx \in DOMAIN p.cands)
    /\ p.phase = "SigningIn" => p.client = 0
    /\ p.phase = "Connecting" => p.client # 0
ValOK(v) ==
    /\ v \in Vals /\ (v.active => v.idx \in DOMAIN v.queue)
    /\ v.client # 0 => v.active /\ v.current \in GAcct

\* The clients the sweeps started and did not stop are among S.
Running(cs, S) ==
    \A c \in DOMAIN cs : cs[c].owner # "screen" /\ ~cs[c].stop => c \in S

SweepInd ==
    /\ GcInd /\ SweepTypeOK /\ PullOK(pull) /\ ValOK(val)
    /\ cache \in [GAcct -> GAcct \cup {NoAcct}] /\ SweepsAreClean

LEMMA RunningIsClean ==
    SweepsAreClean <=> /\ \A a \in GAcct : cache[a] \in {a, NoAcct}
                       /\ Running(clients, {pull.client, val.client})
  BY DEF SweepsAreClean, Running

LEMMA RetireRunning ==
    ASSUME NEW cs, ClientsOK(cs), NEW k \in 0..Len(cs), NEW m, Running(cs, {k, m})
    PROVE  Running(Retire(cs, k), {0, m})
  <1>. SUFFICES ASSUME NEW c \in DOMAIN cs, Retire(cs, k)[c].owner # "screen", ~Retire(cs, k)[c].stop
                PROVE  c \in {0, m}
    BY RetireFacts DEF Running
  <1>a. SameBut(cs[c], Retire(cs, k)[c])
    BY RetireFacts
  <1>b. Retire(cs, k)[c].stop = (cs[c].stop \/ c = k)
    BY RetireFacts
  <1>1. cs[c].owner # "screen" /\ ~cs[c].stop /\ c # k
    BY <1>a, <1>b DEF SameBut
  <1>. QED
    BY <1>1 DEF Running

LEMMA StartRunning ==
    ASSUME NEW cs, ClientsOK(cs), NEW m, Running(cs, {0, m}), NEW a \in GAcct, NEW o \in Owner
    PROVE  Running(Start(cs, a, o), {Len(cs) + 1, m})
  <1>1. DOMAIN Start(cs, a, o) = DOMAIN cs \cup {Len(cs) + 1}
    BY StartFacts
  <1>3. \A d \in DOMAIN cs : Start(cs, a, o)[d] = cs[d] /\ d # Len(cs) + 1
    BY StartFacts, Zenon
  <1>2. 0 \notin DOMAIN cs
    BY LenProperties DEF ClientsOK
  <1>. QED
    BY <1>1, <1>2, <1>3 DEF Running

\* What a step of one of the two sweeps has to leave.
PullSide ==
    /\ ClientsOK(clients') /\ Len(clients) <= Len(clients') /\ Len(clients') \in Nat
    /\ PullOK(pull') /\ pull'.client \in 0..Len(clients')
    /\ signin' \subseteq GAcct /\ Running(clients', {pull'.client, val.client})
ValSide ==
    /\ ClientsOK(clients') /\ Len(clients) <= Len(clients') /\ Len(clients') \in Nat
    /\ ValOK(val') /\ val'.client \in 0..Len(clients')
    /\ Running(clients', {pull.client, val'.client})

LEMMA PullSideInd ==
    ASSUME SweepInd, PullSide, token' \subseteq GAcct, UNCHANGED <<posts, where, drop, cache, val, nfa>>
    PROVE  SweepInd'
  <1>1. GcInd'
    BY GcAfter DEF SweepInd, PullSide
  <1>2. val.client \in 0..Len(clients')
    <2>1. val.client \in 0..Len(clients) /\ Len(clients) \in Nat
      BY LenProperties DEF SweepInd, SweepTypeOK, GcInd, GcTypeOK
    <2>. QED
      BY <2>1 DEF PullSide
  <1>3. SweepTypeOK'
    BY <1>2 DEF SweepInd, SweepTypeOK, PullSide, PullOK, Pulls
  <1>4. SweepsAreClean'
    BY RunningIsClean DEF SweepInd, PullSide, SweepsAreClean, Running
  <1>. QED
    BY <1>1, <1>3, <1>4 DEF SweepInd, PullSide, ValOK

LEMMA ValSideInd ==
    ASSUME SweepInd, ValSide, nfa' \in [GAcct -> {"full", "Unknown", "Valid", "Revoked"}],
           UNCHANGED <<posts, where, drop, cache, pull, token, signin>>
    PROVE  SweepInd'
  <1>1. GcInd'
    BY GcAfter DEF SweepInd, ValSide
  <1>2. pull.client \in 0..Len(clients')
    <2>1. pull.client \in 0..Len(clients) /\ Len(clients) \in Nat
      BY LenProperties DEF SweepInd, SweepTypeOK, GcInd, GcTypeOK
    <2>. QED
      BY <2>1 DEF ValSide
  <1>3. SweepTypeOK'
    BY <1>2 DEF SweepInd, SweepTypeOK, ValSide
  <1>4. SweepsAreClean'
    BY DEF SweepInd, ValSide, SweepsAreClean, Running
  <1>. QED
    BY <1>1, <1>3, <1>4 DEF SweepInd, ValSide, PullOK

\* What is known before a step.
LEMMA SweepFacts ==
    ASSUME SweepInd
    PROVE  /\ ClientsOK(clients) /\ Len(clients) \in Nat
           /\ pull \in Pulls /\ val \in Vals /\ signin \subseteq GAcct /\ token \subseteq GAcct
           /\ pull.client \in 0..Len(clients) /\ val.client \in 0..Len(clients)
           /\ Running(clients, {pull.client, val.client})
  BY GcClients, RunningIsClean, LenProperties DEF SweepInd, SweepTypeOK, ClientsOK, PullOK, ValOK

LEMMA StartPullerSide ==
    ASSUME NEW p \in Pulls, p.active, p.idx \in DOMAIN p.cands, p.client = 0,
           NEW cs, ClientsOK(cs), Len(cs) = Len(clients), Len(clients) \in Nat,
           Running(cs, {0, val.client}), signin \subseteq GAcct, StartPuller(p, cs)
    PROVE  PullSide
  <1>1. p.cands[p.idx] \in GAcct
    BY ElementOfSeq, LenProperties DEF Pulls
  <1>2. PICK a \in GAcct : a = p.cands[p.idx]
    BY <1>1
  <1>3. PICK q : q = [p EXCEPT !.puller = a, !.connected = FALSE, !.done = FALSE]
    OBVIOUS
  <1>4. /\ q \in Pulls /\ q.active /\ q.client = 0 /\ q.cands = p.cands /\ q.idx = p.idx
    BY <1>3 DEF Pulls
  <1>5. CASE a \notin token
    <2>1. /\ pull' = [q EXCEPT !.phase = "SigningIn", !.pending = TRUE, !.ok = FALSE]
          /\ signin' = signin \cup {a} /\ clients' = cs
      BY <1>2, <1>3, <1>5 DEF StartPuller
    <2>2. /\ pull' \in Pulls /\ pull'.client = 0 /\ pull'.phase = "SigningIn"
          /\ pull'.cands = p.cands /\ pull'.idx = p.idx
      BY <1>4, <2>1 DEF Pulls
    <2>3. PullOK(pull') /\ pull'.client \in 0..Len(clients')
      BY <2>1, <2>2 DEF PullOK
    <2>4. Running(clients', {pull'.client, val.client}) /\ ClientsOK(clients')
      BY <2>1, <2>2
    <2>5. Len(clients) <= Len(clients') /\ Len(clients') \in Nat /\ signin' \subseteq GAcct
      BY <2>1
    <2>. QED
      BY <2>3, <2>4, <2>5 DEF PullSide
  <1>6. CASE a \in token
    <2>1. /\ pull' = [q EXCEPT !.phase = "Connecting", !.client = Len(cs) + 1]
          /\ clients' = Start(cs, a, "pull") /\ signin' = signin
      BY <1>2, <1>3, <1>6 DEF StartPuller
    <2>a. PICK n \in Nat : n = Len(cs) + 1 /\ n # 0
      OBVIOUS
    <2>b. pull' = [q EXCEPT !.phase = "Connecting", !.client = n]
      BY <2>1, <2>a
    <2>c. pull'.client = n /\ pull'.phase = "Connecting" /\ pull'.cands = p.cands /\ pull'.idx = p.idx
      BY <1>4, <2>b DEF Pulls
    <2>d. pull' \in Pulls
      BY <1>4, <2>b DEF Pulls
    <2>2. pull'.client = Len(cs) + 1
      BY <2>a, <2>c
    <2>3. PullOK(pull')
      BY <2>a, <2>c, <2>d DEF PullOK
    <2>4. "pull" \in Owner
      BY DEF Owner
    <2>5. ClientsOK(clients') /\ Len(clients') = Len(cs) + 1
      BY <2>1, <2>4, StartFacts
    <2>6. Running(clients', {Len(cs) + 1, val.client})
      BY <2>1, <2>4, StartRunning
    <2>7. Len(clients) <= Len(clients') /\ Len(clients') \in Nat /\ pull'.client \in 0..Len(clients')
      BY <2>2, <2>5
    <2>. QED
      BY <2>1, <2>2, <2>3, <2>5, <2>6, <2>7 DEF PullSide
  <1>. QED
    BY <1>5, <1>6

\* A sweep that ends retires its client.
LEMMA PullEnds ==
    ASSUME SweepInd, NEW p \in Pulls, pull' = EndedPull(p),
           clients' = Retire(clients, pull.client), signin' = signin
    PROVE  PullSide
  <1>1. pull' \in Pulls /\ ~pull'.active /\ pull'.client = 0 /\ pull'.phase = "Idle"
    BY DEF EndedPull, Pulls
  <1>2. ClientsOK(clients') /\ Len(clients') = Len(clients) /\ Running(clients', {0, val.client})
    <2>1. ClientsOK(Retire(clients, pull.client)) /\ Len(Retire(clients, pull.client)) = Len(clients)
      BY SweepFacts, RetireFacts
    <2>2. Running(Retire(clients, pull.client), {0, val.client})
      BY SweepFacts, RetireRunning
    <2>. QED
      BY <2>1, <2>2
  <1>. QED
    BY <1>1, <1>2, SweepFacts DEF PullSide, PullOK

LEMMA AdvanceSide == ASSUME SweepInd, pull.active, AdvancePuller PROVE PullSide
  <1>1. PICK p : p = [pull EXCEPT !.client = 0, !.connected = FALSE, !.pending = FALSE, !.done = FALSE,
                                  !.idx = @ + 1]
    OBVIOUS
  <1>2. PICK cs : cs = Retire(clients, pull.client)
    OBVIOUS
  <1>a. PICK n \in Nat : n = pull.idx + 1 /\ n # 0
    BY SweepFacts DEF Pulls
  <1>b. p = [pull EXCEPT !.client = 0, !.connected = FALSE, !.pending = FALSE, !.done = FALSE, !.idx = n]
    BY <1>1, <1>a
  <1>c. p.client = 0 /\ p.cands = pull.cands /\ p.active = pull.active /\ p.idx = n
    BY <1>b, SweepFacts DEF Pulls
  <1>d. p \in Pulls
    BY <1>b, SweepFacts DEF Pulls
  <1>3. p \in Pulls /\ p.client = 0 /\ p.active /\ p.idx \in Nat \ {0} /\ p.cands \in Seq(GAcct)
    BY <1>a, <1>c, <1>d DEF Pulls
  <1>4. ClientsOK(cs) /\ Len(cs) = Len(clients) /\ Running(cs, {0, val.client})
    <2>1. ClientsOK(Retire(clients, pull.client)) /\ Len(Retire(clients, pull.client)) = Len(clients)
      BY SweepFacts, RetireFacts
    <2>2. Running(Retire(clients, pull.client), {0, val.client})
      BY SweepFacts, RetireRunning
    <2>. QED
      BY <1>2, <2>1, <2>2
  <1>5. CASE p.idx > Len(p.cands) \/ p.idx > kMaxPullerAttempts
    BY <1>1, <1>2, <1>3, <1>5, PullEnds DEF AdvancePuller
  <1>6. CASE ~(p.idx > Len(p.cands) \/ p.idx > kMaxPullerAttempts)
    <2>1. StartPuller(p, cs)
      BY <1>1, <1>2, <1>6 DEF AdvancePuller
    <2>2. p.idx \in DOMAIN p.cands
      BY <1>3, <1>6, LenProperties
    <2>. QED
      BY <1>3, <1>4, <2>1, <2>2, SweepFacts, StartPullerSide
  <1>. QED
    BY <1>5, <1>6

\* The actions of the auto-pull.
LEMMA OrdersTyped ==
    ASSUME NEW S \in SUBSET GAcct, NEW s \in Orders(S)
    PROVE  s \in Seq(GAcct) /\ (S # {} => s # <<>>)
  <1>1. IsFiniteSet(S)
    BY GcAssumption, FS_Subset
  <1>2. s \in Seq(S) /\ (S # {} => s # <<>>)
    BY <1>1, OrderIsSequence
  <1>. QED
    BY <1>2, SeqMonotonic

LEMMA CandidatesTyped == ASSUME NEW cands \in Candidates PROVE cands \in Seq(GAcct)
  <1>. DEFINE A == Orders((GAcct \ Nfa) \cap token)
              B == Orders((GAcct \ Nfa) \ token)
              C == Orders(Nfa \cap token)
  <1>1a. Candidates = {x \o y \o z : x \in A, y \in B, z \in C}
    BY DEF Candidates
  <1>. HIDE DEF A, B, C
  <1>1b. PICK x \in A, y \in B, z \in C : cands = x \o y \o z
    BY <1>1a
  <1>2. x \in Seq(GAcct)
    <2>1. ((GAcct \ Nfa) \cap token) \in SUBSET GAcct
      OBVIOUS
    <2>. QED
      BY <2>1, OrdersTyped DEF A
  <1>3. y \in Seq(GAcct)
    <2>1. ((GAcct \ Nfa) \ token) \in SUBSET GAcct
      OBVIOUS
    <2>. QED
      BY <2>1, OrdersTyped DEF B
  <1>4. z \in Seq(GAcct)
    <2>1. (Nfa \cap token) \in SUBSET GAcct
      BY DEF Nfa
    <2>. QED
      BY <2>1, OrdersTyped DEF C
  <1>5. x \o y \in Seq(GAcct)
    BY <1>2, <1>3, ConcatProperties
  <1>6. (x \o y) \o z \in Seq(GAcct)
    BY <1>4, <1>5, ConcatProperties
  <1>. QED
    BY <1>1b, <1>6

LEMMA StartPullInd == ASSUME SweepInd, StartPull PROVE SweepInd'
  <1>1. PICK targets \in (SUBSET (GAcct \ Nfa)) \ {{}}, cands \in Candidates :
          /\ cands # <<>>
          /\ StartPuller([NoPull EXCEPT !.active = TRUE, !.targets = targets, !.cands = cands],
                         Retire(clients, pull.client))
    BY DEF StartPull
  <1>2. PICK p, cs : /\ p = [NoPull EXCEPT !.active = TRUE, !.targets = targets, !.cands = cands]
                     /\ cs = Retire(clients, pull.client)
    OBVIOUS
  <1>3. cands \in Seq(GAcct)
    BY CandidatesTyped
  <1>4. /\ p.active /\ p.cands = cands /\ p.idx = 1 /\ p.client = 0
    BY <1>2 DEF NoPull
  <1>5. p \in Pulls
    BY <1>2, <1>3 DEF NoPull, Pulls
  <1>6. 1 \in DOMAIN cands
    BY <1>1, <1>3, EmptySeq, LenProperties
  <1>7. ClientsOK(cs) /\ Len(cs) = Len(clients) /\ Running(cs, {0, val.client})
    BY <1>2, SweepFacts, RetireFacts, RetireRunning
  <1>8. StartPuller(p, cs)
    BY <1>1, <1>2
  <1>9. PullSide
    BY <1>4, <1>5, <1>6, <1>7, <1>8, SweepFacts, StartPullerSide
  <1>. QED
    BY <1>9, SweepFacts, PullSideInd DEF StartPull, Untouched

LEMMA TokenMintedInd == ASSUME SweepInd, NEW a \in GAcct, TokenMinted(a) PROVE SweepInd'
  <1>1. PICK ok \in BOOLEAN :
          /\ token' = IF ok THEN token \cup {a} ELSE token
          /\ pull' = IF pull.active /\ pull.puller = a
                     THEN [pull EXCEPT !.pending = FALSE, !.ok = ok] ELSE pull
    BY DEF TokenMinted
  <1>2. /\ pull' \in Pulls /\ pull'.active = pull.active /\ pull'.cands = pull.cands
        /\ pull'.idx = pull.idx /\ pull'.phase = pull.phase /\ pull'.client = pull.client
    BY <1>1, SweepFacts DEF Pulls
  <1>3. PullOK(pull')
    BY <1>2 DEF PullOK, SweepInd
  <1>4. token' \subseteq GAcct /\ signin' \subseteq GAcct
    BY <1>1, SweepFacts DEF TokenMinted
  <1>5. PullSide
    BY <1>2, <1>3, <1>4, SweepFacts DEF PullSide, TokenMinted
  <1>. QED
    BY <1>4, <1>5, PullSideInd DEF TokenMinted, Untouched

LEMMA TickSigningInInd == ASSUME SweepInd, TickSigningIn PROVE SweepInd'
  <1>1. CASE AdvancePuller
    BY <1>1, AdvanceSide, SweepFacts, PullSideInd DEF TickSigningIn, Untouched
  <1>2. CASE StartPuller(pull, clients)
    <2>1. pull.client = 0 /\ pull.active /\ pull.idx \in DOMAIN pull.cands
      BY DEF SweepInd, PullOK, TickSigningIn
    <2>2. PullSide
      BY <1>2, <2>1, SweepFacts, StartPullerSide
    <2>. QED
      BY <2>2, SweepFacts, PullSideInd DEF TickSigningIn, Untouched
  <1>. QED
    BY <1>1, <1>2 DEF TickSigningIn

LEMMA EnqueueRunning ==
    ASSUME NEW cs, ClientsOK(cs), NEW k \in 1..Len(cs), NEW cmds \in Seq(Commands), NEW S, Running(cs, S)
    PROVE  Running(Enqueue(cs, k, cmds), S)
  <1>. SUFFICES ASSUME NEW c \in DOMAIN cs, Enqueue(cs, k, cmds)[c].owner # "screen",
                       ~Enqueue(cs, k, cmds)[c].stop
                PROVE  c \in S
    BY EnqueueFacts DEF Running
  <1>1. CASE c # k
    <2>1. Enqueue(cs, k, cmds)[c] = cs[c]
      BY <1>1, EnqueueFacts
    <2>. QED
      BY <2>1 DEF Running
  <1>2. CASE c = k
    <2>1. Enqueue(cs, k, cmds)[k].owner = cs[k].owner /\ Enqueue(cs, k, cmds)[k].stop = cs[k].stop
      BY EnqueueFacts
    <2>. QED
      BY <1>2, <2>1 DEF Running
  <1>. QED
    BY <1>1, <1>2

\* The command that asks for profiles.
LEMMA PullCommand ==
    ASSUME NEW S \in SUBSET GAcct
    PROVE  <<Command("pull", Inv, {<<a>> : a \in S})>> \in Seq(Commands)
  <1>1. {<<a>> : a \in S} \in SUBSET Named
    BY DEF Named
  <1>2. Command("pull", Inv, {<<a>> : a \in S}) \in Commands
    BY <1>1 DEF Command, Commands, Place
  <1>. QED
    BY <1>2

LEMMA TickConnectingInd == ASSUME SweepInd, TickConnecting PROVE SweepInd'
  <1>1. CASE pull.connected
    <2>1. PICK cmds : cmds = <<Command("pull", Inv, {<<a>> : a \in pull.targets})>>
      OBVIOUS
    <2>2. cmds \in Seq(Commands)
      BY <2>1, SweepFacts, PullCommand DEF Pulls
    <2>3. pull.client \in 1..Len(clients)
      BY SweepFacts DEF SweepInd, PullOK, TickConnecting
    <2>4. clients' = Enqueue(clients, pull.client, cmds) /\ signin' = signin
      BY <1>1, <2>1 DEF TickConnecting
    <2>5. ClientsOK(clients') /\ Len(clients') = Len(clients)
      BY <2>2, <2>3, <2>4, SweepFacts, EnqueueFacts
    <2>6. Running(clients', {pull.client, val.client})
      BY <2>2, <2>3, <2>4, SweepFacts, EnqueueRunning
    <2>7. pull' = [pull EXCEPT !.phase = "Pulling"]
      BY <1>1 DEF TickConnecting
    <2>8. /\ pull' \in Pulls /\ pull'.active = pull.active /\ pull'.cands = pull.cands
          /\ pull'.idx = pull.idx /\ pull'.phase = "Pulling" /\ pull'.client = pull.client
      BY <2>7, SweepFacts DEF Pulls
    <2>9. PullOK(pull')
      BY <2>8 DEF PullOK, SweepInd
    <2>10. PullSide
      BY <2>4, <2>5, <2>6, <2>8, <2>9, SweepFacts DEF PullSide
    <2>. QED
      BY <2>10, SweepFacts, PullSideInd DEF TickConnecting, Untouched
  <1>2. CASE ~pull.connected
    <2>1. PullSide
      BY <1>2, AdvanceSide DEF TickConnecting
    <2>. QED
      BY <2>1, SweepFacts, PullSideInd DEF TickConnecting, Untouched
  <1>. QED
    BY <1>1, <1>2

LEMMA PullOverInd == ASSUME SweepInd, TickPulling \/ CancelPull PROVE SweepInd'
  <1>1. PullSide
    BY SweepFacts, PullEnds DEF TickPulling, CancelPull
  <1>. QED
    BY <1>1, SweepFacts, PullSideInd DEF TickPulling, CancelPull, Untouched

\* The actions of the validation.
LEMMA BeginSide ==
    ASSUME NEW v \in Vals, v.active, v.idx \in DOMAIN v.queue,
           NEW cs, ClientsOK(cs), Len(cs) = Len(clients), Len(clients) \in Nat,
           Running(cs, {0, pull.client}), BeginValidate(v, cs)
    PROVE  ValSide
  <1>1. v.queue[v.idx] \in GAcct
    BY ElementOfSeq, LenProperties DEF Vals
  <1>2. PICK a \in GAcct : a = v.queue[v.idx]
    BY <1>1
  <1>3. PICK n \in Nat : n = Len(cs) + 1 /\ n # 0
    OBVIOUS
  <1>4. val' = [v EXCEPT !.current = a, !.connected = FALSE, !.issued = FALSE,
                         !.logonSeen = FALSE, !.logon = "none", !.finished = FALSE, !.client = n]
    BY <1>2, <1>3 DEF BeginValidate
  <1>5. /\ val'.client = n /\ val'.current = a /\ val'.active = v.active
        /\ val'.idx = v.idx /\ val'.queue = v.queue
    BY <1>4 DEF Vals
  <1>6. val' \in Vals
    BY <1>4 DEF Vals, LogonResult
  <1>7. ValOK(val')
    BY <1>5, <1>6 DEF ValOK
  <1>8. clients' = Start(cs, a, "val") /\ "val" \in Owner
    BY <1>2 DEF BeginValidate, Owner
  <1>9. ClientsOK(clients') /\ Len(clients') = Len(cs) + 1
    BY <1>8, StartFacts
  <1>10. Running(clients', {n, pull.client})
    BY <1>3, <1>8, StartRunning
  <1>11. Running(clients', {pull.client, val'.client})
    BY <1>5, <1>10 DEF Running
  <1>12. Len(clients) <= Len(clients') /\ Len(clients') \in Nat /\ val'.client \in 0..Len(clients')
    BY <1>3, <1>5, <1>9
  <1>. QED
    BY <1>7, <1>9, <1>11, <1>12 DEF ValSide

LEMMA FreshTyped ==
    ASSUME NEW queue \in Seq(GAcct), queue # <<>>
    PROVE  Fresh(queue) \in Vals /\ Fresh(queue).active /\ Fresh(queue).idx \in DOMAIN Fresh(queue).queue
  <1>1. 1 \in DOMAIN queue
    BY EmptySeq, LenProperties
  <1>2. Fresh(queue).active /\ Fresh(queue).idx = 1 /\ Fresh(queue).queue = queue
    BY DEF Fresh, NoVal
  <1>3. Fresh(queue) \in Vals
    BY DEF Fresh, NoVal, Vals, LogonResult
  <1>. QED
    BY <1>1, <1>2, <1>3

\* The other sweep's client is the one that stays.
LEMMA OtherRunning ==
    ASSUME SweepInd
    PROVE  /\ ClientsOK(Retire(clients, val.client)) /\ Len(Retire(clients, val.client)) = Len(clients)
           /\ Running(Retire(clients, val.client), {0, pull.client})
  <1>1. Running(clients, {val.client, pull.client})
    BY SweepFacts DEF Running
  <1>. QED
    BY <1>1, SweepFacts, RetireFacts, RetireRunning

LEMMA StartValidateInd == ASSUME SweepInd, StartValidate \/ StartFeed PROVE SweepInd'
  <1>1. PICK S \in (SUBSET Nfa) \ {{}} : \E queue \in Orders(S) :
          BeginValidate(Fresh(queue), Retire(clients, val.client))
    BY DEF StartValidate, StartFeed, FeedValidate
  <1>2. PICK queue \in Orders(S) : BeginValidate(Fresh(queue), Retire(clients, val.client))
    BY <1>1
  <1>3. S \in SUBSET GAcct /\ S # {}
    BY DEF Nfa
  <1>4. queue \in Seq(GAcct) /\ queue # <<>>
    BY <1>3, OrdersTyped
  <1>5. PICK v, cs : v = Fresh(queue) /\ cs = Retire(clients, val.client)
    OBVIOUS
  <1>6. v \in Vals /\ v.active /\ v.idx \in DOMAIN v.queue
    BY <1>4, <1>5, FreshTyped
  <1>7. ClientsOK(cs) /\ Len(cs) = Len(clients) /\ Running(cs, {0, pull.client})
    BY <1>5, OtherRunning
  <1>8. ValSide
    BY <1>2, <1>5, <1>6, <1>7, SweepFacts, BeginSide
  <1>. QED
    BY <1>8, ValSideInd DEF StartValidate, StartFeed, Untouched, SweepInd, SweepTypeOK

LEMMA QueueValidateInd == ASSUME SweepInd, NEW a \in Nfa, QueueValidate(a) PROVE SweepInd'
  <1>0. a \in GAcct
    BY DEF Nfa
  <1>1. CASE val.active
    <2>1. val' = [val EXCEPT !.queue = Append(@, a)] /\ clients' = clients
      BY <1>1 DEF QueueValidate
    <2>2. PICK q : q = Append(val.queue, a)
      OBVIOUS
    <2>3. /\ val.queue \in Seq(GAcct) /\ q \in Seq(GAcct) /\ Len(q) = Len(val.queue) + 1
      BY <1>0, <2>2, SweepFacts, AppendProperties DEF Vals
    <2>4. DOMAIN val.queue \subseteq DOMAIN q
      BY <2>3, LenProperties
    <2>5. val' = [val EXCEPT !.queue = q]
      BY <2>1, <2>2
    <2>6. /\ val' \in Vals /\ val'.active = val.active /\ val'.idx = val.idx /\ val'.queue = q
          /\ val'.client = val.client /\ val'.current = val.current
      BY <2>3, <2>5, SweepFacts DEF Vals
    <2>7. ValOK(val')
      BY <2>4, <2>6 DEF ValOK, SweepInd
    <2>8. ValSide
      BY <2>1, <2>6, <2>7, SweepFacts DEF ValSide
    <2>. QED
      BY <2>8, ValSideInd DEF QueueValidate, Untouched, SweepInd, SweepTypeOK
  <1>2. CASE ~val.active
    <2>1. BeginValidate(Fresh(<<a>>), clients)
      BY <1>2 DEF QueueValidate
    <2>2. <<a>> \in Seq(GAcct) /\ <<a>> # <<>>
      BY <1>0
    <2>3. PICK v : v = Fresh(<<a>>)
      OBVIOUS
    <2>4. v \in Vals /\ v.active /\ v.idx \in DOMAIN v.queue
      BY <2>2, <2>3, FreshTyped
    <2>5. val.client = 0
      BY <1>2 DEF SweepInd, ValOK
    <2>6. Running(clients, {0, pull.client})
      BY <2>5, SweepFacts DEF Running
    <2>7. ValSide
      BY <2>1, <2>3, <2>4, <2>6, SweepFacts, BeginSide
    <2>. QED
      BY <2>7, ValSideInd DEF QueueValidate, Untouched, SweepInd, SweepTypeOK
  <1>. QED
    BY <1>1, <1>2

LEMMA TickNextInd == ASSUME SweepInd, TickNext PROVE SweepInd'
  <1>1. val.active /\ val.client = 0 /\ val.idx \in DOMAIN val.queue /\ BeginValidate(val, clients)
    BY DEF TickNext, SweepInd, ValOK
  <1>2. Running(clients, {0, pull.client})
    BY <1>1, SweepFacts DEF Running
  <1>3. ValSide
    BY <1>1, <1>2, SweepFacts, BeginSide
  <1>. QED
    BY <1>3, ValSideInd DEF TickNext, Untouched, SweepInd, SweepTypeOK

LEMMA TickIssueInd == ASSUME SweepInd, TickIssue PROVE SweepInd'
  <1>1. PICK cmds : cmds = <<Command("pull", Inv, {<<val.current>>})>>
    OBVIOUS
  <1>2. val.client \in 1..Len(clients) /\ val.current \in GAcct
    BY SweepFacts DEF TickIssue, SweepInd, ValOK
  <1>3. cmds \in Seq(Commands)
    <2>1. {val.current} \in SUBSET GAcct /\ {<<a>> : a \in {val.current}} = {<<val.current>>}
      BY <1>2
    <2>. QED
      BY <1>1, <2>1, PullCommand
  <1>4. clients' = Enqueue(clients, val.client, cmds) /\ val' = [val EXCEPT !.issued = TRUE]
    BY <1>1 DEF TickIssue
  <1>5. ClientsOK(clients') /\ Len(clients') = Len(clients)
    BY <1>2, <1>3, <1>4, SweepFacts, EnqueueFacts
  <1>6. Running(clients', {pull.client, val.client})
    BY <1>2, <1>3, <1>4, SweepFacts, EnqueueRunning
  <1>7. /\ val' \in Vals /\ val'.active = val.active /\ val'.idx = val.idx /\ val'.queue = val.queue
        /\ val'.client = val.client /\ val'.current = val.current
    BY <1>4, SweepFacts DEF Vals
  <1>8. ValOK(val')
    BY <1>7 DEF ValOK, SweepInd
  <1>9. ValSide
    BY <1>4, <1>5, <1>6, <1>7, <1>8, SweepFacts DEF ValSide
  <1>. QED
    BY <1>9, ValSideInd DEF TickIssue, Untouched, SweepInd, SweepTypeOK

LEMMA TickFinishInd == ASSUME SweepInd, TickFinish PROVE SweepInd'
  <1>1. val.active /\ val.client # 0 /\ val.current \in GAcct /\ val.idx \in DOMAIN val.queue
    BY DEF TickFinish, SweepInd, ValOK
  <1>2. nfa' \in [GAcct -> {"full", "Unknown", "Valid", "Revoked"}]
    <2>1. nfa \in [GAcct -> {"full", "Unknown", "Valid", "Revoked"}]
      BY DEF SweepInd, SweepTypeOK
    <2>2. Verdict(val) \in {"full", "Unknown", "Valid", "Revoked"}
      BY <1>1, <2>1 DEF Verdict
    <2>. QED
      BY <2>1, <2>2 DEF TickFinish
  <1>3. clients' = Retire(clients, val.client)
    BY DEF TickFinish
  <1>4. ClientsOK(clients') /\ Len(clients') = Len(clients) /\ Running(clients', {0, pull.client})
    BY <1>3, OtherRunning
  <1>5. val.queue \in Seq(GAcct) /\ val.idx \in 1..Len(val.queue) /\ Len(val.queue) \in Nat
    BY <1>1, SweepFacts, LenProperties DEF Vals
  <1>6a. PICK n \in Nat : n = val.idx + 1 /\ n # 0
    BY <1>5
  <1>. DEFINE more == val.idx < Len(val.queue)
  <1>6c. more \in BOOLEAN /\ (more => val.idx < Len(val.queue))
    OBVIOUS
  <1>7. val' = [val EXCEPT !.client = 0, !.connected = FALSE, !.issued = FALSE, !.idx = n, !.active = more]
    BY <1>6a DEF TickFinish
  <1>. HIDE DEF more
  <1>8. val'.client = 0 /\ val'.idx = n /\ val'.active = more /\ val'.queue = val.queue
    BY <1>7, SweepFacts DEF Vals
  <1>9. val' \in Vals
    BY <1>6a, <1>6c, <1>7, SweepFacts DEF Vals
  <1>10. more => n \in DOMAIN val.queue
    <2>1. DOMAIN val.queue = 1..Len(val.queue)
      BY <1>5, LenProperties
    <2>. QED
      BY <1>5, <1>6a, <1>6c, <2>1
  <1>11. ValOK(val')
    BY <1>6a, <1>6c, <1>8, <1>9, <1>10 DEF ValOK
  <1>12. Running(clients', {pull.client, val'.client})
    BY <1>4, <1>8 DEF Running
  <1>13. ValSide
    BY <1>4, <1>8, <1>11, <1>12, SweepFacts DEF ValSide
  <1>. QED
    BY <1>2, <1>13, ValSideInd DEF TickFinish, Untouched

LEMMA CancelValidateInd == ASSUME SweepInd, CancelValidate PROVE SweepInd'
  <1>1. clients' = Retire(clients, val.client) /\ val' = [val EXCEPT !.active = FALSE, !.client = 0]
    BY DEF CancelValidate
  <1>2. ClientsOK(clients') /\ Len(clients') = Len(clients) /\ Running(clients', {0, pull.client})
    BY <1>1, OtherRunning
  <1>3. val' \in Vals /\ val'.client = 0 /\ ~val'.active
    BY <1>1, SweepFacts DEF Vals
  <1>4. ValOK(val')
    BY <1>3 DEF ValOK
  <1>5. Running(clients', {pull.client, val'.client})
    BY <1>2, <1>3 DEF Running
  <1>6. ValSide
    BY <1>2, <1>3, <1>4, <1>5, SweepFacts DEF ValSide
  <1>. QED
    BY <1>6, ValSideInd DEF CancelValidate, Untouched, SweepInd, SweepTypeOK

\* The callbacks, and the threads.
LEMMA ShowsTyped ==
    ASSUME NEW a \in GAcct, NEW p, p.items = {<<a>>}, \A b \in GAcct : cache[b] \in {b, NoAcct},
           cache \in [GAcct -> GAcct \cup {NoAcct}]
    PROVE  /\ Shows(a, p) \in [GAcct -> GAcct \cup {NoAcct}]
           /\ \A b \in GAcct : Shows(a, p)[b] \in {b, NoAcct}
  <1>1. (CHOOSE x \in p.items : TRUE) = <<a>>
    OBVIOUS
  <1>1a. <<a>>[1] = a
    OBVIOUS
  <1>1b. PICK x : x = (CHOOSE y \in p.items : TRUE)
    OBVIOUS
  <1>1c. x[1] = a
    BY <1>1, <1>1a, <1>1b
  <1>1d. Shows(a, p) = [cache EXCEPT ![a] = x[1]]
    BY <1>1b DEF Shows
  <1>2. Shows(a, p) = [cache EXCEPT ![a] = a]
    BY <1>1c, <1>1d
  <1>. QED
    BY <1>2

LEMMA ApplySweepInd == ASSUME SweepInd, ApplySweep PROVE SweepInd'
  <1>1. PICK p : p = Head(posts)
    OBVIOUS
  <1>2. posts \in Seq(Callbacks) /\ posts # <<>> /\ posts' = Tail(posts)
    BY DEF SweepInd, GcInd, GcTypeOK, ApplySweep
  <1>3. p \in Callbacks /\ p.logon \in LogonResult
    BY <1>1, <1>2, HeadRuns DEF Callbacks
  <1>4. GcInd'
    <2>1. posts' \in Seq(Callbacks) /\ \A i \in DOMAIN posts' : i + 1 \in DOMAIN posts /\ posts'[i] = posts[i + 1]
      BY <1>2, HeadRuns
    <2>2. \A i \in DOMAIN posts' : posts'[i].kind \in Handlers(posts'[i].to)
      BY <2>1 DEF SweepInd, GcInd
    <2>. QED
      BY <2>1, <2>2 DEF SweepInd, GcInd, GcTypeOK, ApplySweep
  <1>5. CASE PullCallback(p) /\ pull.active
    <2>1. /\ pull' \in Pulls /\ pull'.active = pull.active /\ pull'.cands = pull.cands
          /\ pull'.idx = pull.idx /\ pull'.phase = pull.phase /\ pull'.client = pull.client
      BY <1>5, SweepFacts DEF PullCallback, Pulls
    <2>2. PullOK(pull') /\ val' = val
      BY <1>5, <2>1 DEF PullCallback, PullOK, SweepInd
    <2>3. cache' \in [GAcct -> GAcct \cup {NoAcct}] /\ \A b \in GAcct : cache'[b] \in {b, NoAcct}
      <3>1. CASE p.kind = "profile" /\ \E a \in pull.targets : p.items = {<<a>>}
        <4>1. PICK a : a = (CHOOSE b \in pull.targets : p.items = {<<b>>})
          OBVIOUS
        <4>2. a \in GAcct /\ p.items = {<<a>>}
          BY <3>1, <4>1, SweepFacts DEF Pulls
        <4>3. cache' = Shows(a, p)
          BY <1>5, <3>1, <4>1 DEF PullCallback
        <4>. QED
          BY <4>2, <4>3, ShowsTyped DEF SweepInd, SweepsAreClean
      <3>2. CASE ~(p.kind = "profile" /\ \E a \in pull.targets : p.items = {<<a>>})
        BY <1>5, <3>2 DEF PullCallback, SweepInd, SweepsAreClean
      <3>. QED
        BY <3>1, <3>2
    <2>4. SweepTypeOK' /\ SweepsAreClean'
      BY <2>1, <2>2, <2>3 DEF SweepInd, SweepTypeOK, SweepsAreClean, ApplySweep
    <2>. QED
      BY <1>4, <2>2, <2>3, <2>4 DEF SweepInd
  <1>6. CASE ValCallback(p) /\ val.active
    <2>1. /\ val' \in Vals /\ val'.active = val.active /\ val'.queue = val.queue
          /\ val'.idx = val.idx /\ val'.current = val.current /\ val'.client = val.client
      BY <1>3, <1>6, SweepFacts DEF ValCallback, Vals
    <2>2. ValOK(val') /\ pull' = pull
      BY <1>6, <2>1 DEF ValCallback, ValOK, SweepInd
    <2>3. cache' \in [GAcct -> GAcct \cup {NoAcct}] /\ \A b \in GAcct : cache'[b] \in {b, NoAcct}
      <3>1. CASE p.kind = "profile" /\ OfCurrent(p)
        <4>1. p.items = {<<val.current>>} /\ p.items \in SUBSET Named
          BY <1>3, <3>1 DEF OfCurrent, Callbacks
        <4>. PICK a : a = val.current
          OBVIOUS
        <4>2. CASE a \in GAcct
          BY <1>6, <3>1, <4>1, <4>2, ShowsTyped DEF ValCallback, SweepInd, SweepsAreClean
        <4>3. CASE a \notin GAcct
          <5>1. Shows(a, p) = cache
            BY <4>3 DEF Shows, SweepInd
          <5>. QED
            BY <1>6, <3>1, <5>1 DEF ValCallback, SweepInd, SweepsAreClean
        <4>. QED
          BY <4>2, <4>3
      <3>2. CASE ~(p.kind = "profile" /\ OfCurrent(p))
        BY <1>6, <3>2 DEF ValCallback, SweepInd, SweepsAreClean
      <3>. QED
        BY <3>1, <3>2
    <2>4. SweepTypeOK' /\ SweepsAreClean'
      BY <2>1, <2>2, <2>3 DEF SweepInd, SweepTypeOK, SweepsAreClean, ApplySweep
    <2>. QED
      BY <1>4, <2>2, <2>3, <2>4 DEF SweepInd
  <1>7. CASE UNCHANGED <<pull, val, cache>>
    BY <1>4, <1>7 DEF SweepInd, SweepTypeOK, SweepsAreClean, ApplySweep, PullOK, ValOK
  <1>. QED
    BY <1>1, <1>5, <1>6, <1>7 DEF ApplySweep

LEMMA SweepThreadInd ==
    ASSUME SweepInd, NEW c \in DOMAIN clients, Thread(c),
           UNCHANGED <<pull, val, token, signin, cache, nfa, sweeps>>
    PROVE  SweepInd'
  <1>1. GcInd' /\ SameOwners
    BY ThreadFacts DEF SweepInd
  <1>2. SweepsAreClean' /\ SweepTypeOK'
    BY <1>1 DEF SweepInd, SweepsAreClean, SweepTypeOK, SameOwners
  <1>. QED
    BY <1>1, <1>2 DEF SweepInd, PullOK, ValOK

LEMMA SweepIndInit == GcInit /\ SweepInit => SweepInd
  <1>. SUFFICES ASSUME GcInit, SweepInit PROVE SweepInd
    OBVIOUS
  <1>1. /\ clients = <<>> /\ posts = <<>> /\ DOMAIN <<>> = {} /\ Len(<<>>) = 0
        /\ <<>> \in Seq(Client) /\ <<>> \in Seq(Callbacks) /\ <<>> \in Seq(GAcct)
    BY EmptySeq DEF GcInit
  <1>2. GcInd
    BY <1>1 DEF GcInit, GcInd, GcTypeOK
  <1>3. PullOK(pull)
    <2>1. pull \in Pulls /\ ~pull.active /\ pull.phase = "Idle"
      BY <1>1 DEF SweepInit, NoPull, Pulls
    <2>. QED
      BY <2>1 DEF PullOK
  <1>4. ValOK(val)
    <2>1. val \in Vals /\ ~val.active /\ val.client = 0
      BY <1>1 DEF SweepInit, NoVal, Vals, LogonResult
    <2>. QED
      BY <2>1 DEF ValOK
  <1>5. SweepTypeOK
    BY <1>1 DEF SweepInit, SweepTypeOK, NoPull, NoVal
  <1>6. cache \in [GAcct -> GAcct \cup {NoAcct}] /\ SweepsAreClean
    BY <1>1 DEF SweepInit, SweepsAreClean
  <1>. QED
    BY <1>2, <1>3, <1>4, <1>5, <1>6 DEF SweepInd

LEMMA SweepIndStep == SweepInd /\ [SweepNext]_sweepVars => SweepInd'
  <1>. SUFFICES ASSUME SweepInd, [SweepNext]_sweepVars PROVE SweepInd'
    OBVIOUS
  <1>1. CASE UNCHANGED sweepVars
    BY <1>1 DEF sweepVars, gcVars, SweepInd, GcInd, GcTypeOK, SweepTypeOK, SweepsAreClean, PullOK, ValOK
  <1>2. CASE SweepNext
    BY <1>2, StartPullInd, TokenMintedInd, TickSigningInInd, TickConnectingInd, PullOverInd,
       StartValidateInd, QueueValidateInd, TickNextInd, TickIssueInd, TickFinishInd,
       CancelValidateInd, ApplySweepInd, SweepThreadInd DEF SweepNext
  <1>. QED
    BY <1>1, <1>2

\* What is known of the sweeps in every state the program reaches.
THEOREM SweepAlways == SweepSpec => []SweepInd
  <1>1. SweepInd /\ [SweepNext]_sweepVars => SweepInd'
    BY SweepIndStep
  <1>. QED
    BY <1>1, SweepIndInit, PTL DEF SweepSpec

\* For any accounts and any number of clients and sweeps: a profile is kept for the
\* account it is of although callbacks of retired clients still arrive, and no
\* client is left running that neither sweep holds (cs2_autopull.cpp).
THEOREM SweepsSafe == SweepSpec => []SweepInv
  <1>1. SweepInd => SweepInv
    BY DEF SweepInd, SweepInv
  <1>. QED
    BY <1>1, SweepAlways, PTL

-------------------------------------------------------------------------------
(* The screen. *)

Screens == [acct : GAcct \cup {NoAcct}, client : Nat, connected : BOOLEAN, busy : BOOLEAN,
            acquiring : BOOLEAN, open : Place, loading : BOOLEAN, contents : SUBSET Named,
            picked : SUBSET Named, items : SUBSET Named, pickedInv : SUBSET Named,
            drop : {"unknown", "locked", "ready", "claimed"}]

\* Things listed in a place of an account.
ListedIn(S, a, place) == \A x \in S : x[1] = a /\ x[2] = place

\* The screen's client is of its account, and so is what it shows of a unit.
ScreenOK(s, cs) ==
    /\ s \in Screens /\ s.client \in 0..Len(cs)
    /\ s.client # 0 => cs[s.client].acct = s.acct
    /\ ListedIn(s.contents, s.acct, s.open)
    /\ s.open # Inv => ListedIn(s.picked, s.acct, s.open)

\* A move out of a unit is of things that were listed there.
MoveOK(a, cmd) == cmd.op = "out" => ListedIn(cmd.items, a, cmd.unit)
ScreenClients(cs) ==
    /\ ClientsOK(cs)
    /\ \A c \in DOMAIN cs : cs[c].owner = "screen"
    /\ \A c \in DOMAIN cs : \A i \in DOMAIN cs[c].cmds : MoveOK(cs[c].acct, cs[c].cmds[i])

\* A callback that is still to be run is true of what is on Steam by now: a
\* claimed drop stays claimed.
PostOK(p, d) ==
    /\ p.to = "screen"
    /\ p.kind = "contents" => ListedIn(p.items, p.acct, p.unit)
    /\ p.drop = "claimed" \/ p.kind = "claimed" => d[p.acct] = "claimed"

VaultOK ==
    /\ session \in {"open", "closing", "locked"} /\ accounts \subseteq GAcct
    /\ tokens \subseteq accounts /\ marked \subseteq accounts /\ recorded \subseteq accounts
    /\ signing \subseteq GAcct /\ missed \subseteq GAcct

\* The two halves of ClaimIsRemembered.
NoFalseMark == \A a \in recorded \cup marked : drop[a] = "claimed"
OnItsWay(a) ==
    \/ a \in recorded \cup missed \/ a \notin accounts
    \/ \E i \in DOMAIN posts : posts[i].kind = "claimed" /\ posts[i].acct = a
NoLostClaim == \A c \in DOMAIN clients : clients[c].redeemed => OnItsWay(clients[c].acct)

ScreenInd ==
    /\ GcInd /\ ScreenClients(clients) /\ ScreenOK(screen, clients)
    /\ \A i \in DOMAIN posts : PostOK(posts[i], drop)
    /\ VaultOK /\ NoFalseMark /\ NoLostClaim

LEMMA ClaimHalves == ClaimIsRemembered <=> NoFalseMark /\ NoLostClaim
  BY DEF ClaimIsRemembered, NoFalseMark, NoLostClaim, OnItsWay

\* No client of cs was told of a claim but those that were told before.
NoNewClaim(cs) ==
    \A c \in DOMAIN cs : cs[c].redeemed =>
        c \in DOMAIN clients /\ clients[c].redeemed /\ cs[c].acct = clients[c].acct

\* What a handler of the user's has to leave: of the vault, at most whole accounts go.
LEMMA VaultInd ==
    ASSUME ScreenInd, ScreenClients(clients'), NoNewClaim(clients'), ScreenOK(screen', clients'),
           VaultOK', marked' \subseteq marked, recorded' \subseteq recorded,
           recorded \cap accounts' \subseteq recorded', accounts' \subseteq accounts,
           UNCHANGED <<posts, where, drop, missed>>
    PROVE  ScreenInd'
  <1>1. GcInd'
    BY GcAfter DEF ScreenInd, ScreenClients
  <1>2. NoLostClaim'
    <2>1. \A c \in DOMAIN clients' : clients'[c].redeemed => OnItsWay(clients'[c].acct)
      BY DEF ScreenInd, NoLostClaim, NoNewClaim
    <2>2. \A c \in DOMAIN clients' : clients'[c].redeemed =>
             \/ clients'[c].acct \in recorded' \cup missed' \/ clients'[c].acct \notin accounts'
             \/ \E i \in DOMAIN posts' : posts'[i].kind = "claimed" /\ posts'[i].acct = clients'[c].acct
      BY <2>1 DEF OnItsWay
    <2>. QED
      BY <2>2 DEF NoLostClaim, OnItsWay
  <1>3. NoFalseMark' /\ \A i \in DOMAIN posts' : PostOK(posts'[i], drop')
    BY DEF ScreenInd, NoFalseMark
  <1>. QED
    BY <1>1, <1>2, <1>3 DEF ScreenInd

LEMMA ButtonInd ==
    ASSUME ScreenInd, ScreenClients(clients'), NoNewClaim(clients'), ScreenOK(screen', clients'),
           UNCHANGED <<posts, where, drop, session, accounts, tokens, signing, marked, recorded, missed>>
    PROVE  ScreenInd'
  <1>1. VaultOK'
    BY DEF ScreenInd, VaultOK
  <1>. QED
    BY <1>1, VaultInd

\* The clients a handler leaves.
LEMMA ScreenRetires ==
    ASSUME ScreenInd
    PROVE  LET cs == Retire(clients, screen.client)
           IN  ScreenClients(cs) /\ NoNewClaim(cs) /\ Len(cs) = Len(clients)
  <1>. PICK cs : cs = Retire(clients, screen.client)
    OBVIOUS
  <1>1. ClientsOK(clients) /\ screen.client \in 0..Len(clients)
    BY DEF ScreenInd, ScreenClients, ScreenOK
  <1>2. ClientsOK(cs) /\ Len(cs) = Len(clients) /\ DOMAIN cs = DOMAIN clients
    BY <1>1, RetireFacts
  <1>3. \A d \in DOMAIN clients : SameBut(clients[d], cs[d])
    BY <1>1, RetireFacts
  <1>4. ScreenClients(cs)
    BY <1>2, <1>3 DEF ScreenClients, SameBut, ScreenInd
  <1>5. NoNewClaim(cs)
    BY <1>2, <1>3 DEF NoNewClaim, SameBut
  <1>. QED
    BY <1>2, <1>4, <1>5

LEMMA ScreenStarts ==
    ASSUME ScreenInd, NEW a \in GAcct
    PROVE  LET cs == Start(clients, a, "screen")
           IN  /\ ScreenClients(cs) /\ NoNewClaim(cs) /\ Len(cs) = Len(clients) + 1
               /\ cs[Len(clients) + 1].acct = a /\ Len(clients) \in Nat
  <1>. PICK cs : cs = Start(clients, a, "screen")
    OBVIOUS
  <1>1. ClientsOK(clients) /\ "screen" \in Owner
    BY DEF ScreenInd, ScreenClients, Owner
  <1>2. /\ ClientsOK(cs) /\ Len(cs) = Len(clients) + 1 /\ Len(clients) \in Nat
        /\ DOMAIN cs = DOMAIN clients \cup {Len(clients) + 1}
    BY <1>1, StartFacts
  <1>3. cs[Len(clients) + 1] = Started(a, "screen")
    BY <1>1, StartFacts
  <1>4. \A d \in DOMAIN clients : cs[d] = clients[d] /\ d # Len(clients) + 1
    <2>1. \A d \in DOMAIN clients :
             Start(clients, a, "screen")[d] = clients[d] /\ d # Len(clients) + 1
      BY <1>1, StartFacts, Zenon
    <2>. QED
      BY <2>1
  <1>. PICK r : r = cs[Len(clients) + 1]
    OBVIOUS
  <1>5. r.acct = a /\ r.owner = "screen" /\ ~r.redeemed /\ DOMAIN r.cmds = {}
    <2>1. DOMAIN <<>> = {}
      BY EmptySeq
    <2>. QED
      BY <1>3, <2>1 DEF Started
  <1>6. ScreenClients(cs)
    BY <1>2, <1>4, <1>5 DEF ScreenClients, ScreenInd
  <1>7. NoNewClaim(cs)
    BY <1>2, <1>4, <1>5 DEF NoNewClaim
  <1>. QED
    BY <1>2, <1>5, <1>6, <1>7

LEMMA EnqueuedTo ==
    ASSUME NEW cs, ClientsOK(cs), NEW k \in 1..Len(cs), NEW cmds \in Seq(Commands)
    PROVE  /\ Enqueue(cs, k, cmds)[k].acct = cs[k].acct
           /\ Enqueue(cs, k, cmds)[k].owner = cs[k].owner
           /\ Enqueue(cs, k, cmds)[k].redeemed = cs[k].redeemed
           /\ Enqueue(cs, k, cmds)[k].cmds = cs[k].cmds \o cmds
  BY EnqueueFacts

LEMMA ScreenEnqueues ==
    ASSUME ScreenInd, screen.client # 0, NEW cmds \in Seq(Commands),
           \A i \in DOMAIN cmds : MoveOK(screen.acct, cmds[i])
    PROVE  LET cs == Enqueue(clients, screen.client, cmds)
           IN  /\ ScreenClients(cs) /\ NoNewClaim(cs) /\ Len(cs) = Len(clients)
               /\ cs[screen.client].acct = screen.acct
  <1>c. PICK cs : cs = Enqueue(clients, screen.client, cmds)
    OBVIOUS
  <1>k. PICK k : k = screen.client
    OBVIOUS
  <1>1. ClientsOK(clients) /\ k \in 1..Len(clients) /\ clients[k].acct = screen.acct /\ k \in DOMAIN clients
    BY <1>k, LenProperties DEF ScreenInd, ScreenClients, ScreenOK, ClientsOK
  <1>2. ClientsOK(cs) /\ Len(cs) = Len(clients) /\ DOMAIN cs = DOMAIN clients
    BY <1>c, <1>k, <1>1, EnqueueFacts
  <1>3. \A d \in DOMAIN clients : d # k => cs[d] = clients[d]
    BY <1>c, <1>k, <1>1, EnqueueFacts
  <1>4. /\ cs[k].acct = clients[k].acct /\ cs[k].owner = clients[k].owner
        /\ cs[k].redeemed = clients[k].redeemed /\ cs[k].cmds = clients[k].cmds \o cmds
    <2>1. /\ Enqueue(clients, k, cmds)[k].acct = clients[k].acct
          /\ Enqueue(clients, k, cmds)[k].owner = clients[k].owner
          /\ Enqueue(clients, k, cmds)[k].redeemed = clients[k].redeemed
          /\ Enqueue(clients, k, cmds)[k].cmds = clients[k].cmds \o cmds
      BY <1>1, EnqueuedTo
    <2>. QED
      BY <1>c, <1>k, <2>1
  <1>5. \A i \in DOMAIN cs[k].cmds : MoveOK(cs[k].acct, cs[k].cmds[i])
    <2>. TAKE i \in DOMAIN cs[k].cmds
    <2>. PICK s : s = clients[k].cmds
      OBVIOUS
    <2>1. s \in Seq(Commands)
      BY <1>1, ClientTyped DEF ScreenInd
    <2>2. \A j \in DOMAIN s : MoveOK(screen.acct, s[j])
      BY <1>1 DEF ScreenInd, ScreenClients
    <2>3. /\ DOMAIN s = 1..Len(s) /\ DOMAIN cmds = 1..Len(cmds) /\ Len(s) \in Nat /\ Len(cmds) \in Nat
          /\ DOMAIN (s \o cmds) = 1..(Len(s) + Len(cmds))
          /\ \A j \in 1..(Len(s) + Len(cmds)) :
                (s \o cmds)[j] = IF j <= Len(s) THEN s[j] ELSE cmds[j - Len(s)]
      BY <2>1, ConcatProperties, LenProperties
    <2>4. i \in 1..(Len(s) + Len(cmds)) /\ cs[k].cmds[i] = IF i <= Len(s) THEN s[i] ELSE cmds[i - Len(s)]
      BY <1>4, <2>3
    <2>5. CASE i <= Len(s)
      BY <1>1, <1>4, <2>2, <2>3, <2>4, <2>5
    <2>6. CASE ~(i <= Len(s))
      <3>1. i - Len(s) \in DOMAIN cmds
        BY <2>3, <2>4, <2>6
      <3>. QED
        BY <1>1, <1>4, <2>4, <2>6, <3>1
    <2>. QED
      BY <2>5, <2>6
  <1>6. ScreenClients(cs)
    <2>1. \A c \in DOMAIN clients : clients[c].owner = "screen"
      BY DEF ScreenInd, ScreenClients
    <2>2. \A c \in DOMAIN cs : cs[c].owner = "screen"
      BY <1>2, <1>3, <1>4, <2>1
    <2>3. \A c \in DOMAIN clients : \A i \in DOMAIN clients[c].cmds :
             MoveOK(clients[c].acct, clients[c].cmds[i])
      BY DEF ScreenInd, ScreenClients
    <2>4. ASSUME NEW c \in DOMAIN cs, NEW i \in DOMAIN cs[c].cmds
          PROVE  MoveOK(cs[c].acct, cs[c].cmds[i])
      <3>1. CASE c = k
        BY <1>5, <3>1
      <3>2. CASE c # k
        <4>1. cs[c] = clients[c] /\ c \in DOMAIN clients
          BY <1>2, <1>3, <3>2
        <4>. QED
          BY <2>3, <4>1
      <3>. QED
        BY <3>1, <3>2
    <2>. QED
      BY <1>2, <2>2, <2>4 DEF ScreenClients
  <1>7. NoNewClaim(cs)
    BY <1>2, <1>3, <1>4 DEF NoNewClaim
  <1>. QED
    BY <1>c, <1>k, <1>1, <1>2, <1>4, <1>6, <1>7

\* The actions of the user.
LEMMA ScreenFacts ==
    ASSUME ScreenInd
    PROVE  /\ screen \in Screens /\ ScreenClients(clients) /\ NoNewClaim(clients) /\ Len(clients) \in Nat
           /\ ScreenOK(screen, clients) /\ Inv \in Place /\ VaultOK
  <1>1. ScreenClients(clients) /\ ScreenOK(screen, clients) /\ VaultOK
    BY DEF ScreenInd
  <1>2. Len(clients) \in Nat
    BY <1>1, LenProperties DEF ScreenClients, ClientsOK
  <1>. QED
    BY <1>1, <1>2 DEF ScreenOK, NoNewClaim, Place

LEMMA BlankTyped ==
    ASSUME NEW a \in GAcct \cup {NoAcct}
    PROVE  /\ Blank(a) \in Screens /\ Blank(a).client = 0 /\ Blank(a).contents = {}
           /\ Blank(a).open = Inv
  BY DEF Blank, Screens, Place

LEMMA PickAccountInd == ASSUME ScreenInd, NEW a \in GAcct \cup {NoAcct}, PickAccount(a) PROVE ScreenInd'
  <1>1. clients' = Retire(clients, screen.client) /\ screen' = Blank(a)
    BY DEF PickAccount
  <1>2. ScreenClients(clients') /\ NoNewClaim(clients') /\ Len(clients') = Len(clients)
    BY <1>1, ScreenRetires
  <1>3. screen' \in Screens /\ screen'.client = 0 /\ screen'.contents = {} /\ screen'.open = Inv
    BY <1>1, BlankTyped
  <1>4. ScreenOK(screen', clients')
    BY <1>2, <1>3, ScreenFacts DEF ScreenOK, ListedIn
  <1>. QED
    BY <1>2, <1>4, ScreenFacts, ButtonInd DEF PickAccount, vaultVars

\* The screen changes in something that is not about items.
LEMMA SignInInd ==
    ASSUME ScreenInd, NEW b \in BOOLEAN,
           screen' = [screen EXCEPT !.acquiring = b] \/ screen' = screen,
           tokens' \subseteq accounts, signing' \subseteq GAcct,
           UNCHANGED <<clients, posts, where, drop, session, accounts, marked, recorded, missed>>
    PROVE  ScreenInd'
  <1>1. /\ screen' \in Screens /\ screen'.client = screen.client /\ screen'.acct = screen.acct
        /\ screen'.contents = screen.contents /\ screen'.open = screen.open /\ screen'.picked = screen.picked
    BY ScreenFacts DEF Screens
  <1>2. ScreenOK(screen', clients')
    BY <1>1, ScreenFacts DEF ScreenOK
  <1>3. VaultOK' /\ recorded \cap accounts' \subseteq recorded'
    BY ScreenFacts DEF VaultOK
  <1>. QED
    BY <1>2, <1>3, ScreenFacts, VaultInd

LEMMA PressSetUpInd == ASSUME ScreenInd, PressSetUp PROVE ScreenInd'
  BY ScreenFacts, SignInInd DEF PressSetUp, gcVars, Found, VaultOK

LEMMA SetUpDoneInd == ASSUME ScreenInd, NEW a \in GAcct, SetUpDone(a) PROVE ScreenInd'
  BY ScreenFacts, SignInInd DEF SetUpDone, gcVars, Found, VaultOK

\* An account leaves the vault with all the vault says of it.
LEMMA RemoveAccountInd == ASSUME ScreenInd, NEW a \in GAcct, RemoveAccount(a) PROVE ScreenInd'
  <1>1. /\ UNCHANGED <<clients, posts, where, drop, screen, session, signing, missed>>
        /\ accounts' = accounts \ {a} /\ tokens' = tokens \ {a}
        /\ marked' = marked \ {a} /\ recorded' = recorded \ {a}
    BY DEF RemoveAccount, gcVars
  <1>2. VaultOK' /\ recorded \cap accounts' \subseteq recorded'
    BY <1>1, ScreenFacts DEF VaultOK
  <1>3. ScreenClients(clients') /\ NoNewClaim(clients') /\ ScreenOK(screen', clients')
    BY <1>1, ScreenFacts
  <1>. QED
    BY <1>1, <1>2, <1>3, VaultInd

\* The session is locked or cleared, and opened again.
LEMMA SessionInd ==
    ASSUME ScreenInd, ScreenClients(clients'), NoNewClaim(clients'), ScreenOK(screen', clients'),
           session' \in {"open", "closing", "locked"},
           UNCHANGED <<posts, where, drop, accounts, tokens, signing, marked, recorded, missed>>
    PROVE  ScreenInd'
  <1>1. VaultOK' /\ recorded \cap accounts' \subseteq recorded'
    BY ScreenFacts DEF VaultOK
  <1>. QED
    BY <1>1, VaultInd

LEMMA CloseScreenInd == ASSUME ScreenInd, CloseScreen PROVE ScreenInd'
  <1>1. clients' = Retire(clients, screen.client) /\ screen' = screen
    BY DEF CloseScreen
  <1>2. ScreenClients(clients') /\ NoNewClaim(clients') /\ Len(clients') = Len(clients)
    BY <1>1, ScreenRetires
  <1>3. screen.client # 0 => clients'[screen.client].acct = clients[screen.client].acct
    <2>1. ClientsOK(clients) /\ screen.client \in 0..Len(clients)
      BY ScreenFacts DEF ScreenClients, ScreenOK
    <2>2. screen.client # 0 => screen.client \in DOMAIN clients
      BY <2>1, LenProperties DEF ClientsOK
    <2>3. \A d \in DOMAIN clients : SameBut(clients[d], clients'[d])
      BY <1>1, <2>1, RetireFacts
    <2>. QED
      BY <2>2, <2>3 DEF SameBut
  <1>4. ScreenOK(screen', clients')
    BY <1>1, <1>2, <1>3, ScreenFacts DEF ScreenOK
  <1>. QED
    BY <1>2, <1>4, SessionInd DEF CloseScreen

LEMMA ScreenClosedInd == ASSUME ScreenInd, ScreenClosed PROVE ScreenInd'
  <1>1. UNCHANGED <<clients, posts, where, drop>> /\ screen' = Blank(NoAcct)
    BY DEF ScreenClosed, gcVars
  <1>2. screen' \in Screens /\ screen'.client = 0 /\ screen'.contents = {} /\ screen'.open = Inv
    BY <1>1, BlankTyped
  <1>3. ScreenOK(screen', clients') /\ ScreenClients(clients') /\ NoNewClaim(clients')
    BY <1>1, <1>2, ScreenFacts DEF ScreenOK, ListedIn
  <1>. QED
    BY <1>1, <1>3, SessionInd DEF ScreenClosed

LEMMA UnlockInd == ASSUME ScreenInd, Unlock PROVE ScreenInd'
  BY ScreenFacts, SessionInd DEF Unlock, gcVars

LEMMA ConnectInd == ASSUME ScreenInd, Connect PROVE ScreenInd'
  <1>1. screen.acct \in GAcct /\ clients' = Start(clients, screen.acct, "screen")
    BY ScreenFacts DEF Connect, VaultOK
  <1>2. PICK n \in Nat : n = Len(clients) + 1 /\ n # 0
    BY ScreenFacts
  <1>3. /\ ScreenClients(clients') /\ NoNewClaim(clients') /\ Len(clients') = n
        /\ clients'[n].acct = screen.acct
    BY <1>1, <1>2, ScreenStarts
  <1>4. screen' = [screen EXCEPT !.client = n, !.connected = FALSE, !.open = Inv,
                                 !.contents = {}, !.items = {}, !.drop = "unknown"]
    BY <1>2 DEF Connect
  <1>5. /\ screen'.client = n /\ screen'.acct = screen.acct /\ screen'.contents = {}
        /\ screen'.open = Inv
    BY <1>4, ScreenFacts DEF Screens
  <1>6. screen' \in Screens
    BY <1>4, ScreenFacts DEF Screens
  <1>7. ScreenOK(screen', clients')
    BY <1>2, <1>3, <1>5, <1>6 DEF ScreenOK, ListedIn
  <1>. QED
    BY <1>3, <1>7, ScreenFacts, ButtonInd DEF Connect, vaultVars

LEMMA DisconnectInd == ASSUME ScreenInd, Disconnect PROVE ScreenInd'
  <1>1. clients' = Retire(clients, screen.client)
        /\ screen' = [screen EXCEPT !.client = 0, !.connected = FALSE]
    BY DEF Disconnect
  <1>2. ScreenClients(clients') /\ NoNewClaim(clients') /\ Len(clients') = Len(clients)
    BY <1>1, ScreenRetires
  <1>3. /\ screen' \in Screens /\ screen'.client = 0 /\ screen'.acct = screen.acct
        /\ screen'.contents = screen.contents /\ screen'.open = screen.open /\ screen'.picked = screen.picked
    BY <1>1, ScreenFacts DEF Screens
  <1>4. ScreenOK(screen', clients')
    BY <1>2, <1>3, ScreenFacts DEF ScreenOK
  <1>. QED
    BY <1>2, <1>4, ScreenFacts, ButtonInd DEF Disconnect, vaultVars

\* What a button that queues commands has to leave.
LEMMA QueueInd ==
    ASSUME ScreenInd, NEW cmds \in Seq(Commands), Queue(cmds),
           \A i \in DOMAIN cmds : MoveOK(screen.acct, cmds[i]),
           screen' \in Screens, screen'.client = screen.client, screen'.acct = screen.acct,
           \/ screen'.contents = {}
           \/ screen'.contents = screen.contents /\ screen'.open = screen.open,
           \/ screen'.picked = {}
           \/ screen'.picked = screen.picked /\ screen'.open = screen.open
    PROVE  ScreenInd'
  <1>1. screen.client # 0 /\ clients' = Enqueue(clients, screen.client, cmds)
    BY DEF Queue, Shown
  <1>2. /\ ScreenClients(clients') /\ NoNewClaim(clients') /\ Len(clients') = Len(clients)
        /\ clients'[screen.client].acct = screen.acct
    BY <1>1, ScreenEnqueues
  <1>3. ScreenOK(screen', clients')
    BY <1>2, ScreenFacts DEF ScreenOK, ListedIn
  <1>. QED
    BY <1>2, <1>3, ScreenFacts, ButtonInd DEF Queue, vaultVars

LEMMA CommandTyped ==
    ASSUME NEW op \in {"refresh", "load", "in", "out", "claim", "pull"}, NEW unit \in Place,
           NEW items \in SUBSET Named
    PROVE  /\ Command(op, unit, items) \in Commands
           /\ Command(op, unit, items).op = op /\ Command(op, unit, items).unit = unit
           /\ Command(op, unit, items).items = items
  BY DEF Command, Commands

\* One command, or two of which the second asks for the unit's content.
LEMMA OneCommand ==
    ASSUME NEW cmd \in Commands, cmd.op # "out", NEW a
    PROVE  <<cmd>> \in Seq(Commands) /\ \A i \in DOMAIN <<cmd>> : MoveOK(a, <<cmd>>[i])
  <1>1. DOMAIN <<cmd>> = {1} /\ <<cmd>>[1] = cmd
    OBVIOUS
  <1>. QED
    BY <1>1 DEF MoveOK

LEMMA TwoCommands ==
    ASSUME NEW x \in Commands, NEW y \in Commands, NEW a, MoveOK(a, x), y.op # "out"
    PROVE  <<x, y>> \in Seq(Commands) /\ \A i \in DOMAIN <<x, y>> : MoveOK(a, <<x, y>>[i])
  <1>1. DOMAIN <<x, y>> = {1, 2} /\ <<x, y>>[1] = x /\ <<x, y>>[2] = y
    OBVIOUS
  <1>2. MoveOK(a, y)
    BY DEF MoveOK
  <1>. QED
    BY <1>1, <1>2

LEMMA PressRefreshInd == ASSUME ScreenInd, PressRefresh PROVE ScreenInd'
  <1>. PICK cmd : cmd = Command("refresh", Inv, {})
    OBVIOUS
  <1>1. cmd \in Commands /\ cmd.op # "out"
    BY ScreenFacts, CommandTyped
  <1>. PICK cmds : cmds = <<cmd>>
    OBVIOUS
  <1>2. cmds \in Seq(Commands) /\ \A i \in DOMAIN cmds : MoveOK(screen.acct, cmds[i])
    BY <1>1, OneCommand
  <1>3. Queue(cmds) /\ screen' = screen
    BY DEF PressRefresh
  <1>. QED
    BY <1>2, <1>3, ScreenFacts, QueueInd

LEMMA OpenUnitInd == ASSUME ScreenInd, NEW u \in Unit, OpenUnit(u) PROVE ScreenInd'
  <1>. PICK cmd : cmd = Command("load", u, {})
    OBVIOUS
  <1>0. u \in Place
    BY DEF Place
  <1>1. cmd \in Commands /\ cmd.op # "out"
    BY <1>0, CommandTyped
  <1>. PICK cmds : cmds = <<cmd>>
    OBVIOUS
  <1>2. cmds \in Seq(Commands) /\ \A i \in DOMAIN cmds : MoveOK(screen.acct, cmds[i])
    BY <1>1, OneCommand
  <1>3. Queue(cmds) /\ screen' = [screen EXCEPT !.open = u, !.contents = {}, !.loading = TRUE, !.picked = {}]
    BY DEF OpenUnit
  <1>4. /\ screen' \in Screens /\ screen'.client = screen.client /\ screen'.acct = screen.acct
        /\ screen'.contents = {} /\ screen'.picked = {}
    BY <1>0, <1>3, ScreenFacts DEF Screens
  <1>. QED
    BY <1>2, <1>3, <1>4, QueueInd

LEMMA PressMoveOutInd == ASSUME ScreenInd, PressMoveOut PROVE ScreenInd'
  <1>. PICK x, y : x = Command("out", screen.open, screen.picked) /\ y = Command("load", screen.open, {})
    OBVIOUS
  <1>1. screen.open \in Place /\ screen.picked \in SUBSET Named
    BY ScreenFacts DEF Screens
  <1>2. /\ x \in Commands /\ y \in Commands /\ y.op # "out"
        /\ x.unit = screen.open /\ x.items = screen.picked
    BY <1>1, CommandTyped
  <1>3. MoveOK(screen.acct, x)
    BY <1>2, ScreenFacts DEF PressMoveOut, ScreenOK, MoveOK
  <1>. PICK cmds : cmds = <<x, y>>
    OBVIOUS
  <1>4. cmds \in Seq(Commands) /\ \A i \in DOMAIN cmds : MoveOK(screen.acct, cmds[i])
    BY <1>2, <1>3, TwoCommands
  <1>5. Queue(cmds) /\ screen' = [screen EXCEPT !.busy = TRUE, !.picked = {}, !.loading = TRUE]
    BY DEF PressMoveOut
  <1>6. /\ screen' \in Screens /\ screen'.client = screen.client /\ screen'.acct = screen.acct
        /\ screen'.contents = screen.contents /\ screen'.open = screen.open /\ screen'.picked = {}
    BY <1>5, ScreenFacts DEF Screens
  <1>. QED
    BY <1>4, <1>5, <1>6, QueueInd

LEMMA PressStoreInd == ASSUME ScreenInd, PressStore PROVE ScreenInd'
  <1>. PICK x, y : x = Command("in", screen.open, screen.pickedInv) /\ y = Command("load", screen.open, {})
    OBVIOUS
  <1>1. screen.open \in Place /\ screen.pickedInv \in SUBSET Named
    BY ScreenFacts DEF Screens
  <1>2. x \in Commands /\ y \in Commands /\ y.op # "out" /\ x.op # "out"
    BY <1>1, CommandTyped
  <1>3. MoveOK(screen.acct, x)
    BY <1>2 DEF MoveOK
  <1>. PICK cmds : cmds = <<x, y>>
    OBVIOUS
  <1>4. cmds \in Seq(Commands) /\ \A i \in DOMAIN cmds : MoveOK(screen.acct, cmds[i])
    BY <1>2, <1>3, TwoCommands
  <1>5. Queue(cmds) /\ screen' = [screen EXCEPT !.busy = TRUE, !.pickedInv = {}, !.loading = TRUE]
    BY DEF PressStore
  <1>6. /\ screen' \in Screens /\ screen'.client = screen.client /\ screen'.acct = screen.acct
        /\ screen'.contents = screen.contents /\ screen'.open = screen.open /\ screen'.picked = screen.picked
    BY <1>5, ScreenFacts DEF Screens
  <1>. QED
    BY <1>4, <1>5, <1>6, QueueInd

LEMMA PressClaimInd == ASSUME ScreenInd, PressClaim PROVE ScreenInd'
  <1>. PICK cmd : cmd = Command("claim", Inv, {})
    OBVIOUS
  <1>1. cmd \in Commands /\ cmd.op # "out"
    BY ScreenFacts, CommandTyped
  <1>. PICK cmds : cmds = <<cmd>>
    OBVIOUS
  <1>2. cmds \in Seq(Commands) /\ \A i \in DOMAIN cmds : MoveOK(screen.acct, cmds[i])
    BY <1>1, OneCommand
  <1>3. Queue(cmds) /\ screen' = [screen EXCEPT !.busy = TRUE]
    BY DEF PressClaim
  <1>4. /\ screen' \in Screens /\ screen'.client = screen.client /\ screen'.acct = screen.acct
        /\ screen'.contents = screen.contents /\ screen'.open = screen.open /\ screen'.picked = screen.picked
    BY <1>3, ScreenFacts DEF Screens
  <1>. QED
    BY <1>2, <1>3, <1>4, QueueInd

LEMMA CloseUnitInd == ASSUME ScreenInd, CloseUnit PROVE ScreenInd'
  <1>1. screen' = [screen EXCEPT !.open = Inv, !.contents = {}, !.picked = {}] /\ clients' = clients
    BY DEF CloseUnit, gcVars
  <1>2. /\ screen' \in Screens /\ screen'.client = screen.client /\ screen'.acct = screen.acct
        /\ screen'.contents = {} /\ screen'.open = Inv
    BY <1>1, ScreenFacts DEF Screens
  <1>3. ScreenOK(screen', clients')
    BY <1>1, <1>2, ScreenFacts DEF ScreenOK, ListedIn
  <1>. QED
    BY <1>1, <1>3, ScreenFacts, ButtonInd DEF CloseUnit, gcVars, vaultVars

LEMMA PickItemInd == ASSUME ScreenInd, NEW x \in screen.contents, PickItem(x) PROVE ScreenInd'
  <1>. PICK S : S = Toggled(screen.picked, x)
    OBVIOUS
  <1>1. screen' = [screen EXCEPT !.picked = S] /\ clients' = clients
    BY DEF PickItem, gcVars
  <1>2. x \in Named /\ screen.picked \subseteq Named
    BY ScreenFacts DEF Screens
  <1>3. S \subseteq Named /\ S \subseteq screen.picked \cup {x}
    BY <1>2 DEF Toggled
  <1>4. /\ screen' \in Screens /\ screen'.client = screen.client /\ screen'.acct = screen.acct
        /\ screen'.contents = screen.contents /\ screen'.open = screen.open /\ screen'.picked = S
    BY <1>1, <1>3, ScreenFacts DEF Screens
  <1>5. ScreenOK(screen', clients')
    BY <1>1, <1>3, <1>4, ScreenFacts DEF ScreenOK, ListedIn
  <1>. QED
    BY <1>1, <1>5, ScreenFacts, ButtonInd DEF PickItem, gcVars, vaultVars

LEMMA PickInventoryInd == ASSUME ScreenInd, NEW x \in screen.items, PickInventory(x) PROVE ScreenInd'
  <1>. PICK S : S = Toggled(screen.pickedInv, x)
    OBVIOUS
  <1>1. screen' = [screen EXCEPT !.pickedInv = S] /\ clients' = clients
    BY DEF PickInventory, gcVars
  <1>2. x \in Named /\ screen.pickedInv \subseteq Named
    BY ScreenFacts DEF Screens
  <1>3. S \subseteq Named
    BY <1>2 DEF Toggled
  <1>4. /\ screen' \in Screens /\ screen'.client = screen.client /\ screen'.acct = screen.acct
        /\ screen'.contents = screen.contents /\ screen'.open = screen.open /\ screen'.picked = screen.picked
    BY <1>1, <1>3, ScreenFacts DEF Screens
  <1>5. ScreenOK(screen', clients')
    BY <1>1, <1>4, ScreenFacts DEF ScreenOK, ListedIn
  <1>. QED
    BY <1>1, <1>5, ScreenFacts, ButtonInd DEF PickInventory, gcVars, vaultVars

\* A callback that is run.
LEMMA AnsweredOK ==
    ASSUME ScreenInd, NEW p \in Callbacks, PostOK(p, drop), IsFor(p),
           p.kind \in {"status", "Ready", "snapshot", "contents", "error", "done"}
    PROVE  ScreenOK(Answered(p), clients)
  <1>. PICK s : s = Answered(p)
    OBVIOUS
  <1>1. p.items \in SUBSET Named /\ p.drop \in {"unknown", "locked", "ready", "claimed"}
    BY DEF Callbacks
  <1>2. CASE p.kind = "contents"
    <2>1. PICK got \in SUBSET Named : got = IF OfOpenUnit(p) THEN p.items ELSE screen.contents
      BY <1>1, ScreenFacts DEF Screens
    <2>2. s = [screen EXCEPT !.loading = FALSE, !.contents = got]
      BY <1>2, <2>1 DEF Answered
    <2>3. /\ s \in Screens /\ s.client = screen.client /\ s.acct = screen.acct
          /\ s.contents = got /\ s.open = screen.open /\ s.picked = screen.picked
      BY <2>1, <2>2, ScreenFacts DEF Screens
    <2>4. ListedIn(got, screen.acct, screen.open)
      BY <1>2, <2>1, ScreenFacts DEF OfOpenUnit, IsFor, PostOK, ScreenOK
    <2>. QED
      BY <2>3, <2>4, ScreenFacts DEF ScreenOK
  <1>3. CASE p.kind # "contents"
    <2>1. \/ s = [screen EXCEPT !.connected = FALSE]
          \/ s = [screen EXCEPT !.connected = TRUE]
          \/ s = [screen EXCEPT !.items = p.items, !.drop = p.drop]
          \/ s = [screen EXCEPT !.busy = FALSE, !.loading = FALSE]
          \/ s = [screen EXCEPT !.busy = FALSE]
      <3>1. CASE p.kind = "status"
        BY <3>1 DEF Answered
      <3>2. CASE p.kind = "Ready"
        BY <3>2 DEF Answered
      <3>3. CASE p.kind = "snapshot"
        BY <3>3 DEF Answered
      <3>4. CASE p.kind = "error"
        BY <3>4 DEF Answered
      <3>5. CASE p.kind = "done"
        BY <3>5 DEF Answered
      <3>. QED
        BY <1>3, <3>1, <3>2, <3>3, <3>4, <3>5
    <2>2. s.client = screen.client /\ s.acct = screen.acct
      BY <2>1, ScreenFacts DEF Screens
    <2>3. s.contents = screen.contents /\ s.open = screen.open /\ s.picked = screen.picked
      BY <2>1, ScreenFacts DEF Screens
    <2>4. s \in Screens
      <3>1. screen \in Screens
        BY ScreenFacts
      <3>2. /\ [screen EXCEPT !.connected = FALSE] \in Screens
            /\ [screen EXCEPT !.connected = TRUE] \in Screens
            /\ [screen EXCEPT !.busy = FALSE] \in Screens
        BY <3>1 DEF Screens
      <3>3. [screen EXCEPT !.items = p.items, !.drop = p.drop] \in Screens
        BY <1>1, <3>1 DEF Screens
      <3>4. [screen EXCEPT !.busy = FALSE, !.loading = FALSE] \in Screens
        BY <3>1 DEF Screens
      <3>. QED
        BY <2>1, <3>2, <3>3, <3>4
    <2>. QED
      BY <2>2, <2>3, <2>4, ScreenFacts DEF ScreenOK
  <1>. QED
    BY <1>2, <1>3

LEMMA PostTyped ==
    ASSUME ScreenInd, NEW i \in DOMAIN posts PROVE PostOK(posts[i], drop) /\ posts[i].acct \in GAcct
  <1>1. posts[i] \in Callbacks
    BY ElementOfSeq, LenProperties DEF ScreenInd, GcInd, GcTypeOK
  <1>. QED
    BY <1>1 DEF ScreenInd, Callbacks

LEMMA ApplyScreenInd == ASSUME ScreenInd, ApplyScreen PROVE ScreenInd'
  <1>. PICK p : p = Head(posts)
    OBVIOUS
  <1>1. /\ posts \in Seq(Callbacks) /\ posts # <<>> /\ posts' = Tail(posts)
        /\ UNCHANGED <<clients, where, drop, session, accounts, tokens, signing>>
    BY DEF ScreenInd, GcInd, GcTypeOK, ApplyScreen
  <1>2. p \in Callbacks /\ p = posts[1] /\ 1 \in DOMAIN posts /\ p.acct \in GAcct
    BY <1>1, HeadRuns DEF Callbacks
  <1>3. posts' \in Seq(Callbacks) /\ \A i \in DOMAIN posts' : i + 1 \in DOMAIN posts /\ posts'[i] = posts[i + 1]
    BY <1>1, HeadRuns
  <1>4. PostOK(p, drop) /\ p.kind \in Handlers("screen")
    BY <1>2 DEF ScreenInd, GcInd, PostOK
  <1>5. GcInd'
    <2>1. \A i \in DOMAIN posts' : posts'[i].kind \in Handlers(posts'[i].to)
      BY <1>3 DEF ScreenInd, GcInd
    <2>. QED
      BY <1>1, <1>3, <2>1 DEF ScreenInd, GcInd, GcTypeOK
  <1>6. \A i \in DOMAIN posts' : PostOK(posts'[i], drop')
    <2>1. \A i \in DOMAIN posts : PostOK(posts[i], drop)
      BY DEF ScreenInd
    <2>. QED
      BY <1>1, <1>3, <2>1
  <1>7. ASSUME recorded \subseteq recorded', missed \subseteq missed',
               p.kind = "claimed" => p.acct \in recorded' \cup missed'
        PROVE  NoLostClaim'
    <2>. SUFFICES ASSUME NEW c \in DOMAIN clients, clients[c].redeemed PROVE OnItsWay(clients[c].acct)'
      BY <1>1 DEF NoLostClaim
    <2>. PICK a : a = clients[c].acct
      OBVIOUS
    <2>1. OnItsWay(a)
      BY DEF ScreenInd, NoLostClaim
    <2>2. CASE a \in recorded \cup missed \/ a \notin accounts
      BY <1>1, <1>7, <2>2 DEF OnItsWay
    <2>3. CASE \E i \in DOMAIN posts : posts[i].kind = "claimed" /\ posts[i].acct = a
      <3>1. PICK i \in DOMAIN posts : posts[i].kind = "claimed" /\ posts[i].acct = a
        BY <2>3
      <3>2. CASE i = 1
        BY <1>1, <1>2, <1>7, <3>1, <3>2 DEF OnItsWay
      <3>3. CASE i # 1
        <4>1. i - 1 \in DOMAIN posts' /\ posts'[i - 1] = posts[i]
          BY <1>1, <3>3, HeadRuns
        <4>. QED
          BY <1>1, <3>1, <4>1 DEF OnItsWay
      <3>. QED
        BY <3>2, <3>3
    <2>. QED
      BY <2>1, <2>2, <2>3 DEF OnItsWay
  <1>8. CASE p.kind = "claimed"
    <2>1. /\ screen' = screen
          /\ \/ /\ p.acct \in accounts /\ missed' = missed
                /\ recorded' = recorded \cup {p.acct} /\ marked' = marked \cup {p.acct}
             \/ /\ recorded' = recorded /\ marked' = marked
                /\ missed' = missed \cup {p.acct}
      <3>1. CASE Found(p.acct)
        BY <1>8, <3>1 DEF ApplyScreen, Records, Found
      <3>2. CASE ~Found(p.acct)
        BY <1>8, <3>2 DEF ApplyScreen, Records
      <3>. QED
        BY <3>1, <3>2
    <2>2. ScreenOK(screen', clients') /\ ScreenClients(clients')
      BY <1>1, <2>1, ScreenFacts
    <2>3. VaultOK'
      BY <1>1, <1>2, <2>1 DEF ScreenInd, VaultOK
    <2>4. NoFalseMark'
      BY <1>1, <1>4, <1>8, <2>1 DEF ScreenInd, NoFalseMark, PostOK
    <2>5. NoLostClaim'
      BY <1>7, <2>1
    <2>. QED
      BY <1>5, <1>6, <2>2, <2>3, <2>4, <2>5 DEF ScreenInd
  <1>9. CASE p.kind # "claimed"
    <2>1. /\ screen' = (IF IsFor(p) THEN Answered(p) ELSE screen)
          /\ marked' = (IF IsFor(p) THEN MarkBy(p) ELSE marked) /\ recorded' = recorded
          /\ missed' = missed
      BY <1>9 DEF ApplyScreen
    <2>2. p.kind \in {"status", "Ready", "snapshot", "contents", "error", "done"}
      BY <1>4, <1>9 DEF Handlers
    <2>3. ScreenOK(screen', clients') /\ ScreenClients(clients')
      BY <1>1, <1>2, <1>4, <2>1, <2>2, ScreenFacts, AnsweredOK
    <2>4. \/ marked' \subseteq marked
          \/ p.acct \in accounts /\ p.drop = "claimed" /\ marked' = marked \cup {p.acct}
      BY <2>1 DEF MarkBy, Found
    <2>5. VaultOK'
      BY <1>1, <1>2, <2>1, <2>4 DEF ScreenInd, VaultOK
    <2>6. NoFalseMark'
      BY <1>1, <1>4, <2>1, <2>4 DEF ScreenInd, NoFalseMark, PostOK
    <2>7. NoLostClaim'
      BY <1>7, <1>9, <2>1
    <2>. QED
      BY <1>5, <1>6, <2>3, <2>5, <2>6, <2>7 DEF ScreenInd
  <1>. QED
    BY <1>8, <1>9

\* A step of a client's thread.
LEMMA ScreenThreadInd ==
    ASSUME ScreenInd, NEW c \in DOMAIN clients, Thread(c),
           UNCHANGED <<screen, session, accounts, tokens, signing, marked, recorded, missed>>
    PROVE  ScreenInd'
  <1>0. GcInd
    BY DEF ScreenInd
  <1>1. GcInd' /\ SteamKeeps /\ SameOwners
    BY <1>0, ThreadFacts
  <1>2. PICK new \in Seq(Callbacks) :
          /\ Tells(c, new) /\ Added(new)
          /\ \A d \in DOMAIN clients :
                /\ clients'[d].redeemed
                /\ clients[d].owner = "screen"
                => clients[d].redeemed \/ (d = c /\ \E i \in DOMAIN new : new[i].kind = "claimed")
    BY <1>0, ThreadFacts
  <1>3. \A d \in DOMAIN clients : clients[d].owner = "screen" /\ clients[d] \in Client
    BY <1>0, ClientTyped DEF ScreenInd, ScreenClients
  <1>4. ScreenClients(clients')
    <2>1. ClientsOK(clients')
      BY <1>1 DEF GcInd, GcTypeOK, ClientsOK, MayAttempt
    <2>2. \A d \in DOMAIN clients' : clients'[d].owner = "screen"
      BY <1>1, <1>3 DEF SameOwners
    <2>3. ASSUME NEW d \in DOMAIN clients', NEW i \in DOMAIN clients'[d].cmds
          PROVE  MoveOK(clients'[d].acct, clients'[d].cmds[i])
      <3>1. d \in DOMAIN clients /\ clients'[d].acct = clients[d].acct
        BY <1>1 DEF SameOwners
      <3>2. PICK j \in DOMAIN clients[d].cmds : clients'[d].cmds[i] = clients[d].cmds[j]
        BY <1>1, <3>1 DEF SameOwners
      <3>. QED
        BY <3>1, <3>2 DEF ScreenInd, ScreenClients
    <2>. QED
      BY <2>1, <2>2, <2>3 DEF ScreenClients
  <1>5. ScreenOK(screen', clients')
    <2>1. screen.client # 0 => screen.client \in DOMAIN clients
      BY ScreenFacts, LenProperties DEF ScreenOK, ScreenClients, ClientsOK
    <2>. QED
      BY <1>1, <2>1, ScreenFacts DEF ScreenOK, SameOwners
  <1>6. \A i \in DOMAIN posts' : PostOK(posts'[i], drop')
    <2>1. ASSUME NEW j \in DOMAIN posts PROVE PostOK(posts[j], drop')
      <3>1. PostOK(posts[j], drop) /\ posts[j].acct \in GAcct
        BY PostTyped
      <3>. QED
        BY <1>1, <3>1 DEF PostOK, SteamKeeps
    <2>2. ASSUME NEW j \in DOMAIN new PROVE PostOK(new[j], drop')
      BY <1>2, <1>3 DEF Tells, PostOK, ListedIn
    <2>. QED
      BY <1>2, <2>1, <2>2 DEF Added
  <1>7. NoFalseMark' /\ VaultOK'
    BY <1>1 DEF ScreenInd, NoFalseMark, VaultOK, SteamKeeps
  <1>8. NoLostClaim'
    <2>. SUFFICES ASSUME NEW d \in DOMAIN clients, clients'[d].redeemed
                  PROVE  OnItsWay(clients[d].acct)'
      <3>1. \A d \in DOMAIN clients : clients'[d].acct = clients[d].acct
        BY <1>1 DEF SameOwners
      <3>2. DOMAIN clients' = DOMAIN clients
        BY <1>1 DEF SameOwners
      <3>. QED
        BY <3>1, <3>2 DEF NoLostClaim, OnItsWay
    <2>. PICK a : a = clients[d].acct
      OBVIOUS
    <2>0. clients'[d].acct = a
      BY <1>1 DEF SameOwners
    <2>1. CASE clients[d].redeemed
      <3>1. OnItsWay(a)
        BY <2>1 DEF ScreenInd, NoLostClaim
      <3>2. CASE a \in recorded \cup missed \/ a \notin accounts
        BY <2>0, <3>2 DEF OnItsWay
      <3>3. CASE \E i \in DOMAIN posts : posts[i].kind = "claimed" /\ posts[i].acct = a
        BY <1>2, <2>0, <3>3 DEF OnItsWay, Added
      <3>. QED
        BY <3>1, <3>2, <3>3 DEF OnItsWay
    <2>2. CASE d = c /\ \E i \in DOMAIN new : new[i].kind = "claimed"
      <3>1. PICK i \in DOMAIN new : new[i].kind = "claimed"
        BY <2>2
      <3>2. new[i].acct = a
        BY <1>2, <2>2 DEF Tells
      <3>. QED
        BY <1>2, <2>0, <3>1, <3>2 DEF OnItsWay, Added
    <2>. QED
      BY <1>2, <1>3, <2>1, <2>2
  <1>. QED
    BY <1>1, <1>4, <1>5, <1>6, <1>7, <1>8 DEF ScreenInd

\* The account ranks up: nothing that was claimed is ready again.
LEMMA RankUpInd ==
    ASSUME ScreenInd, NEW a \in GAcct, RankUp(a),
           UNCHANGED <<screen, session, accounts, tokens, signing, marked, recorded, missed>>
    PROVE  ScreenInd'
  <1>1. clients \in Seq(Client) /\ drop \in [GAcct -> {"locked", "ready", "claimed"}]
    BY DEF ScreenInd, GcInd, GcTypeOK
  <1>2. /\ DOMAIN clients = 1..Len(clients) /\ Len(clients) \in Nat
        /\ \A c \in DOMAIN clients : clients[c] \in Client
    BY <1>1, LenProperties, ElementOfSeq
  <1>3. /\ DOMAIN clients' = DOMAIN clients
        /\ \A c \in DOMAIN clients : \E b \in BOOLEAN : clients'[c] = [clients[c] EXCEPT !.behind = b]
    <2>1. clients' = [c \in DOMAIN clients |->
                        [clients[c] EXCEPT !.behind = clients[c].behind \/ (clients[c].acct = a /\ clients[c].pc = "ready")]]
      BY DEF RankUp
    <2>2. \A c \in DOMAIN clients : (clients[c].behind \/ (clients[c].acct = a /\ clients[c].pc = "ready")) \in BOOLEAN
      OBVIOUS
    <2>. QED
      BY <2>1, <2>2
  <1>4. ASSUME NEW c \in DOMAIN clients
        PROVE  /\ clients'[c] \in Client /\ SameBut(clients[c], clients'[c])
               /\ MayAttempt(clients'[c])
    <2>1. PICK b \in BOOLEAN : clients'[c] = [clients[c] EXCEPT !.behind = b]
      BY <1>3
    <2>2. clients[c] \in Client /\ MayAttempt(clients[c])
      BY <1>2 DEF ScreenInd, ScreenClients, ClientsOK
    <2>3. PICK r : r = [clients[c] EXCEPT !.behind = b]
      OBVIOUS
    <2>4. /\ r \in Client /\ SameBut(clients[c], r) /\ r.pc = clients[c].pc /\ r.tries = clients[c].tries
      BY <2>2, <2>3 DEF Client, SameBut
    <2>. QED
      BY <2>1, <2>2, <2>3, <2>4 DEF MayAttempt
  <1>5. clients' \in Seq(Client) /\ Len(clients') = Len(clients)
    <2>1. clients' \in [1..Len(clients) -> Client]
      <3>1. clients' = [c \in DOMAIN clients' |-> clients'[c]]
        BY DEF RankUp
      <3>. QED
        BY <1>2, <1>3, <1>4, <3>1
    <2>2. clients' \in UNION {[1..n -> Client] : n \in Nat}
      BY <1>2, <2>1
    <2>3. clients' \in Seq(Client)
      BY <2>2, SeqDef
    <2>. QED
      BY <1>2, <1>3, <2>3, LenProperties
  <1>6. ClientsOK(clients')
    BY <1>3, <1>4, <1>5 DEF ClientsOK
  <1>7. ScreenClients(clients')
    BY <1>3, <1>4, <1>6 DEF ScreenClients, SameBut, ScreenInd
  <1>8. ScreenOK(screen', clients')
    <2>1. screen.client # 0 => screen.client \in DOMAIN clients
      BY <1>2, ScreenFacts DEF ScreenOK
    <2>. QED
      BY <1>4, <1>5, <2>1, ScreenFacts DEF ScreenOK, SameBut
  <1>9. /\ drop' \in [GAcct -> {"locked", "ready", "claimed"}]
        /\ \A b \in GAcct : drop[b] = "claimed" => drop'[b] = "claimed"
    BY <1>1 DEF RankUp
  <1>10. GcInd'
    BY <1>6, <1>9 DEF RankUp, ScreenInd, GcInd, GcTypeOK, ClientsOK, MayAttempt
  <1>11. \A i \in DOMAIN posts' : PostOK(posts'[i], drop')
    <2>. SUFFICES ASSUME NEW i \in DOMAIN posts PROVE PostOK(posts[i], drop')
      BY DEF RankUp
    <2>1. PostOK(posts[i], drop) /\ posts[i].acct \in GAcct
      BY PostTyped
    <2>. QED
      BY <1>9, <2>1 DEF PostOK
  <1>12. NoFalseMark' /\ VaultOK'
    BY <1>9 DEF ScreenInd, NoFalseMark, VaultOK
  <1>13. NoLostClaim'
    BY <1>3, <1>4 DEF ScreenInd, NoLostClaim, OnItsWay, SameBut, RankUp
  <1>. QED
    BY <1>7, <1>8, <1>10, <1>11, <1>12, <1>13 DEF ScreenInd

LEMMA ScreenIndInit == GcInit /\ ScreenInit => ScreenInd
  <1>. SUFFICES ASSUME GcInit, ScreenInit PROVE ScreenInd
    OBVIOUS
  <1>1. /\ clients = <<>> /\ posts = <<>> /\ DOMAIN <<>> = {} /\ Len(<<>>) = 0
        /\ <<>> \in Seq(Client) /\ <<>> \in Seq(Callbacks)
    BY EmptySeq DEF GcInit
  <1>2. GcInd
    BY <1>1 DEF GcInit, GcInd, GcTypeOK
  <1>3. ScreenClients(clients)
    BY <1>1 DEF ScreenClients, ClientsOK
  <1>4. ScreenOK(screen, clients)
    <2>1. screen \in Screens /\ screen.client = 0 /\ screen.contents = {} /\ screen.open = Inv
      BY BlankTyped DEF ScreenInit
    <2>. QED
      BY <1>1, <2>1 DEF ScreenOK, ListedIn
  <1>5. VaultOK /\ NoFalseMark /\ NoLostClaim /\ \A i \in DOMAIN posts : PostOK(posts[i], drop)
    BY <1>1 DEF ScreenInit, VaultOK, NoFalseMark, NoLostClaim
  <1>. QED
    BY <1>2, <1>3, <1>4, <1>5 DEF ScreenInd

LEMMA ScreenIndStep == ScreenInd /\ [ScreenNext]_cs2Vars => ScreenInd'
  <1>. SUFFICES ASSUME ScreenInd, [ScreenNext]_cs2Vars PROVE ScreenInd'
    OBVIOUS
  <1>1. CASE UNCHANGED cs2Vars
    BY <1>1, ScreenFacts, ButtonInd DEF cs2Vars, gcVars, vaultVars
  <1>2. CASE ScreenNext
    BY <1>2, PickAccountInd, PressSetUpInd, ConnectInd, DisconnectInd, PressRefreshInd, CloseUnitInd,
       SetUpDoneInd, OpenUnitInd, PickItemInd, PickInventoryInd, PressMoveOutInd, PressStoreInd,
       PressClaimInd, RemoveAccountInd, CloseScreenInd, ScreenClosedInd, UnlockInd,
       ApplyScreenInd, ScreenThreadInd, RankUpInd DEF ScreenNext, vaultVars
  <1>. QED
    BY <1>1, <1>2

\* What is known of the screen in every state the program reaches.
THEOREM ScreenAlways == ScreenSpec => []ScreenInd
  <1>1. ScreenInd /\ [ScreenNext]_cs2Vars => ScreenInd'
    BY ScreenIndStep
  <1>. QED
    BY <1>1, ScreenIndInit, PTL DEF ScreenSpec

\* For any accounts, units and items, and however late the callbacks come: what the
\* screen shows of the open unit was loaded from it, and every move out of a unit is
\* of the unit's items and goes to a client of the account (cs2_screen.cpp).
THEOREM ScreenSafe == ScreenSpec => []Cs2Inv
  <1>1. ScreenInd => Cs2Inv
    <2>. SUFFICES ASSUME ScreenInd PROVE Cs2Inv
      OBVIOUS
    <2>1. GcTypeOK
      BY DEF ScreenInd, GcInd
    <2>2. ScreenTypeOK
      BY ScreenFacts DEF ScreenInd, ScreenTypeOK, ScreenOK, Screens, VaultOK
    <2>3. ContentsAreTheUnits
      BY DEF ScreenInd, ScreenOK, ScreenClients, ListedIn, MoveOK, ContentsAreTheUnits
    <2>. QED
      BY <2>1, <2>2, <2>3 DEF Cs2Inv
  <1>. QED
    BY <1>1, ScreenAlways, PTL

\* A weekly drop that Steam confirmed as claimed is in the vault or on its way there
\* whatever the screen shows by then, and no account is marked whose drop is not
\* claimed.  It is lost with an account that is removed, and if on_reward_claimed runs
\* while the vault is locked (cs2_screen.cpp).
THEOREM ClaimsRemembered == ScreenSpec => []ClaimIsRemembered
  <1>1. ScreenInd => ClaimIsRemembered
    BY ClaimHalves DEF ScreenInd
  <1>. QED
    BY <1>1, ScreenAlways, PTL

--------------------------------------------------------------------------------
(* Launching accounts. *)


\* A generation not handed out yet has left nothing behind; the token launch the
\* UI thread is in has its generation, a password launch will get the next one.
Generations ==
    /\ \A g \in Gen : g > gen => worker[g] = NoWorker /\ watch[g] = NoWorker
    /\ ui.pc # "idle" => IF ui.use = "token"
                         THEN gen \in Gen /\ worker[gen] = NoWorker /\ watch[gen] = NoWorker
                         ELSE gen + 1 \in Gen

\* A token launch only has a reapply that the watchers wait for.
Awaited ==
    \A g \in Gen :
        /\ watch[g] # NoWorker => worker[g] = NoWorker \/ worker[g].counted
        /\ watch[g].pc = "read" => worker[g] = NoWorker

\* An account that was relaunched by itself is remembered as attempted, and
\* nothing pending would launch it again.
Relaunched ==
    \A a \in Player :
        autos[a] <= 1 /\ (autos[a] = 1 => a \in attempted /\ pending.acct # a)

LaunchInd == LaunchTypeOK /\ Generations /\ Awaited /\ Relaunched

USE LaunchAssumption

-------------------------------------------------------------------------------
(* The detached threads and the watchers, as sets of records. *)

Threads == [pc : {"window", "typed", "signin", "setup", "stop", "check", "relaunch", "flush"},
            counted : BOOLEAN, acct : Player, deferred : BOOLEAN]
Watchers == [pc : {"poll", "wait", "read", "overdue", "refused"}, acct : Player]
Pendings == [acct : Player \cup {NoOne}, minting : BOOLEAN, done : BOOLEAN, ok : BOOLEAN]
Launches == [pc : {"down", "write", "spawn"}, acct : Player,
             use : {"password", "token"}, deferred : BOOLEAN]

LEMMA LaunchTypes ==
    LaunchTypeOK => /\ worker \in [Gen -> {NoWorker} \cup Threads]
                    /\ watch \in [Gen -> {NoWorker} \cup Watchers]
                    /\ pending \in Pendings /\ ui \in {Idle} \cup Launches
    BY DEF LaunchTypeOK, Threads, Watchers, Pendings, Launches

\* A detached thread goes on or ends: it stays the thread it was, and only its
\* own generation is concerned.
LEMMA ThreadGoes ==
    ASSUME LaunchTypeOK, NEW g \in Gen, worker[g] # NoWorker,
           NEW pc \in {"window", "typed", "signin", "setup", "stop", "check", "relaunch", "flush"},
           Goes(g, pc) \/ worker' = [worker EXCEPT ![g] = NoWorker]
    PROVE  /\ worker' \in [Gen -> {NoWorker} \cup Threads]
           /\ worker'[g] = NoWorker \/ worker'[g].counted = worker[g].counted
           /\ \A h \in Gen \ {g} : worker'[h] = worker[h]
<1>1. worker \in [Gen -> {NoWorker} \cup Threads] /\ worker[g] \in Threads
    BY LaunchTypes
<1>2. CASE Goes(g, pc)
  <2>1. worker' = [worker EXCEPT ![g] = [worker[g] EXCEPT !.pc = pc]]
    BY <1>2 DEF Goes
  <2>2. /\ [worker[g] EXCEPT !.pc = pc] \in Threads
        /\ [worker[g] EXCEPT !.pc = pc].counted = worker[g].counted
    BY <1>1 DEF Threads
  <2> QED
    BY <1>1, <2>1, <2>2
<1>3. CASE worker' = [worker EXCEPT ![g] = NoWorker]
    BY <1>1, <1>3
<1> QED
    BY <1>2, <1>3

\* So it keeps the invariant, whatever it does to Steam.
LEMMA ThreadKeeps ==
    ASSUME LaunchInd, NEW g \in Gen, worker[g] # NoWorker,
           NEW pc \in {"window", "typed", "signin", "setup", "stop", "check", "relaunch", "flush"},
           Goes(g, pc) \/ worker' = [worker EXCEPT ![g] = NoWorker],
           Detached, LaunchTypeOK'
    PROVE  LaunchInd'
<1>1. /\ worker' \in [Gen -> {NoWorker} \cup Threads]
      /\ worker'[g] = NoWorker \/ worker'[g].counted = worker[g].counted
      /\ \A h \in Gen \ {g} : worker'[h] = worker[h]
    BY ThreadGoes DEF LaunchInd
<1>2. Generations'
    BY <1>1 DEF LaunchInd, Generations, Detached
<1>3. Awaited'
    BY <1>1 DEF LaunchInd, Awaited, Detached
<1>4. Relaunched'
    BY DEF LaunchInd, Relaunched, Detached, screenVars
<1> QED
    BY <1>2, <1>3, <1>4 DEF LaunchInd

LEMMA DriverInd == ASSUME LaunchInd, NEW g \in Gen, Driver(g) PROVE LaunchInd'
<1>1. UNCHANGED steamVars /\ Detached /\ worker[g] # NoWorker
    BY DEF Driver, Ends, NoWorker
<1>2. \/ \E pc \in {"typed", "setup"} : Goes(g, pc)
      \/ worker' = [worker EXCEPT ![g] = NoWorker]
    BY DEF Driver, Types, Ends
<1>3. worker' \in [Gen -> {NoWorker} \cup Threads]
    BY <1>1, <1>2, ThreadGoes DEF LaunchInd
<1>4. LaunchTypeOK'
    BY <1>1, <1>3 DEF LaunchInd, LaunchTypeOK, steamVars, Detached, screenVars, Threads
<1> QED
    BY <1>1, <1>2, <1>4, ThreadKeeps

LEMMA ReapplyInd ==
    ASSUME LaunchInd, NEW g \in Gen,
           \/ ReapplyWaits(g) \/ ReapplyStops(g) \/ ReapplyChecks(g)
           \/ ReapplyRelaunches(g) \/ ReapplyEnds(g)
    PROVE  LaunchInd'
<1>1. Detached /\ worker[g] # NoWorker
    BY DEF ReapplyWaits, ReapplyStops, ReapplyChecks, ReapplyRelaunches, ReapplyEnds, NoWorker
<1>2. \/ \E pc \in {"setup", "stop", "check", "relaunch", "flush"} : Goes(g, pc)
      \/ worker' = [worker EXCEPT ![g] = NoWorker]
    BY DEF ReapplyWaits, ReapplyStops, ReapplyChecks, ReapplyRelaunches, ReapplyEnds, Ends
<1>3. worker' \in [Gen -> {NoWorker} \cup Threads]
    BY <1>1, <1>2, ThreadGoes DEF LaunchInd
<1>4. worker[g] \in Threads
    BY <1>1, LaunchTypes DEF LaunchInd
<1>5. /\ steam' \in 0..MaxGen /\ active' \in Player \cup {NoOne}
      /\ autologin' \in Player \cup {NoOne}
      /\ remembered' \subseteq Player /\ configured' \subseteq Player
  <2>1. CASE UNCHANGED steamVars
    BY <2>1 DEF LaunchInd, LaunchTypeOK, steamVars
  <2>2. CASE ReapplyStops(g)
    BY <2>2 DEF ReapplyStops, SteamDown, LaunchInd, LaunchTypeOK
  <2>3. CASE ReapplyRelaunches(g)
    BY <1>4, <2>3 DEF ReapplyRelaunches, AutoLoginTo, LaunchInd, LaunchTypeOK, Gen, Threads
  <2> QED
    BY <2>1, <2>2, <2>3 DEF ReapplyWaits, ReapplyChecks, ReapplyEnds, Ends
<1>6. LaunchTypeOK'
    BY <1>1, <1>3, <1>5 DEF LaunchInd, LaunchTypeOK, Detached, screenVars, Threads
<1> QED
    BY <1>1, <1>2, <1>6, ThreadKeeps

-------------------------------------------------------------------------------
(* The watchers and their callbacks. *)

LEMMA WatcherInd == ASSUME LaunchInd, NEW g \in Gen, WatcherStep(g) PROVE LaunchInd'
<1>1. watch[g] \in Watchers /\ worker[g] \in {NoWorker} \cup Threads
    BY LaunchTypes DEF WatcherStep, NoWorker, LaunchInd
<1>2. PICK pc \in {"wait", "read", "overdue", "refused"} :
          /\ watch' = [watch EXCEPT ![g].pc = pc]
          /\ pc = "read" => ~InFlight
    BY DEF WatcherStep
<1>3. /\ UNCHANGED <<steamVars, gen, ui, worker, screenVars>>
      /\ watch' = [watch EXCEPT ![g] = [watch[g] EXCEPT !.pc = pc]]
    BY <1>2 DEF WatcherStep
<1>4. [watch[g] EXCEPT !.pc = pc] \in Watchers /\ [watch[g] EXCEPT !.pc = pc].pc = pc
    BY <1>1 DEF Watchers
<1>5. /\ watch' \in [Gen -> {NoWorker} \cup Watchers] /\ watch'[g] \in Watchers
      /\ watch'[g].pc = pc
      /\ \A h \in Gen \ {g} : watch'[h] = watch[h]
    BY <1>3, <1>4, LaunchTypes DEF LaunchInd
<1>6. LaunchTypeOK'
    BY <1>3, <1>5 DEF LaunchInd, LaunchTypeOK, steamVars, screenVars, Watchers
<1>7. NoWorker \notin Watchers
    BY DEF NoWorker, Watchers
<1>8. Generations'
    BY <1>1, <1>3, <1>5, <1>7 DEF LaunchInd, Generations
<1>9. Awaited'
  <2>1. pc = "read" => worker[g] = NoWorker
    BY <1>1, <1>2, <1>7 DEF LaunchInd, Awaited, InFlight, Threads
  <2> QED
    BY <1>1, <1>3, <1>5, <1>7, <2>1 DEF LaunchInd, Awaited
<1>10. Relaunched'
    BY <1>3 DEF LaunchInd, Relaunched, screenVars
<1> QED
    BY <1>6, <1>8, <1>9, <1>10 DEF LaunchInd

\* A watcher whose callback has run is gone.
LEMMA WatcherGone ==
    ASSUME LaunchInd, NEW g \in Gen, watch' = [watch EXCEPT ![g] = NoWorker],
           UNCHANGED <<gen, ui, worker>>
    PROVE  Generations' /\ Awaited' /\ watch' \in [Gen -> {NoWorker} \cup Watchers]
<1>1. \A h \in Gen : watch'[h] = IF h = g THEN NoWorker ELSE watch[h]
    BY LaunchTypes DEF LaunchInd
<1>2. NoWorker.pc # "read"
    BY DEF NoWorker
<1> QED
    BY <1>1, <1>2, LaunchTypes DEF LaunchInd, Generations, Awaited

LEMMA ReadBackInd == ASSUME LaunchInd, NEW g \in Gen, ReadBack(g) PROVE LaunchInd'
<1>1. /\ Generations' /\ Awaited' /\ watch' \in [Gen -> {NoWorker} \cup Watchers]
      /\ watch[g].acct \in Player
  <2>1. watch' = [watch EXCEPT ![g] = NoWorker] /\ UNCHANGED <<gen, ui, worker>>
    BY DEF ReadBack
  <2>2. watch[g] \in Watchers
    BY LaunchTypes DEF ReadBack, LaunchInd, NoWorker
  <2> QED
    BY <2>1, <2>2, WatcherGone DEF Watchers
<1> DEFINE a == watch[g].acct
<1>2. /\ cm' = [cm EXCEPT ![a] = "valid"] /\ accepted' = Adopted(a)
      /\ attempted' = attempted \ {a} /\ autos' = [autos EXCEPT ![a] = 0]
      /\ UNCHANGED <<steamVars, gen, ui, worker, pending, mints, pressed>>
    BY DEF ReadBack
<1>3. a \in Player
    BY <1>1
<1> HIDE DEF a
<1>4. LaunchTypeOK'
  <2>1. cm' \in [Player -> {"none", "unknown", "valid", "revoked"}]
    BY <1>2, <1>3 DEF LaunchInd, LaunchTypeOK
  <2>2. autos' \in [Player -> Nat]
    BY <1>2, <1>3 DEF LaunchInd, LaunchTypeOK
  <2>3. accepted' \subseteq Player /\ attempted' \subseteq Player
    BY <1>2, <1>3 DEF LaunchInd, LaunchTypeOK, Adopted
  <2> QED
    BY <1>1, <1>2, <2>1, <2>2, <2>3 DEF LaunchInd, LaunchTypeOK, steamVars, Watchers
<1>5. Relaunched'
    BY <1>2, <1>3 DEF LaunchInd, LaunchTypeOK, Relaunched
<1> QED
    BY <1>1, <1>4, <1>5 DEF LaunchInd

LEMMA RefusedInd == ASSUME LaunchInd, NEW g \in Gen, Refused(g) PROVE LaunchInd'
<1>1. /\ Generations' /\ Awaited' /\ watch' \in [Gen -> {NoWorker} \cup Watchers]
      /\ watch[g].acct \in Player
  <2>1. watch' = [watch EXCEPT ![g] = NoWorker] /\ UNCHANGED <<gen, ui, worker>>
    BY DEF Refused
  <2>2. watch[g] \in Watchers
    BY LaunchTypes DEF Refused, LaunchInd, NoWorker
  <2> QED
    BY <2>1, <2>2, WatcherGone DEF Watchers
<1> DEFINE a == watch[g].acct
<1>2. /\ cm' = [cm EXCEPT ![a] = "revoked"]
      /\ UNCHANGED <<steamVars, gen, ui, worker, accepted, pressed, autos>>
    BY DEF Refused
<1>3. \/ UNCHANGED <<attempted, pending, mints>>
      \/ /\ a \notin attempted /\ attempted' = attempted \cup {a}
         /\ \/ UNCHANGED <<pending, mints>>
            \/ pending' = MintingFor(a) /\ mints' = [mints EXCEPT ![a] = mints[a] + 1]
  <2>1. CASE MayRemint(a)
    BY <2>1 DEF Refused, MayRemint
  <2>2. CASE ~MayRemint(a)
    BY <2>2 DEF Refused
  <2> QED
    BY <2>1, <2>2
<1>4. a \in Player
    BY <1>1
<1> HIDE DEF a
<1>5. MintingFor(a) = [acct |-> a, minting |-> TRUE, done |-> FALSE, ok |-> FALSE]
    BY DEF MintingFor
<1>6. pending \in Pendings /\ MintingFor(a) \in Pendings
    BY <1>4, <1>5 DEF LaunchInd, LaunchTypeOK, Pendings
<1>7. mints' \in [Player -> Nat]
  <2>1. mints \in [Player -> Nat] /\ mints[a] + 1 \in Nat
    BY <1>4 DEF LaunchInd, LaunchTypeOK
  <2> QED
    BY <1>3, <2>1
<1>8. LaunchTypeOK'
  <2>1. cm' \in [Player -> {"none", "unknown", "valid", "revoked"}]
    BY <1>2, <1>4 DEF LaunchInd, LaunchTypeOK
  <2>2. attempted' \subseteq Player
    BY <1>3, <1>4 DEF LaunchInd, LaunchTypeOK
  <2>3. pending' \in Pendings
    BY <1>3, <1>6
  <2> QED
    BY <1>1, <1>2, <1>7, <2>1, <2>2, <2>3
       DEF LaunchInd, LaunchTypeOK, steamVars, Watchers, Pendings
<1>9. Relaunched'
  <2>1. pending' = pending \/ pending'.acct = a
    BY <1>3, <1>5
  <2>2. a \notin attempted => autos[a] # 1
    BY <1>4 DEF LaunchInd, Relaunched
  <2>3. attempted \subseteq attempted'
    BY <1>3
  <2>4. pending' # pending => a \notin attempted
    BY <1>3
  <2> QED
    BY <1>2, <2>1, <2>2, <2>3, <2>4 DEF LaunchInd, Relaunched
<1> QED
    BY <1>1, <1>8, <1>9 DEF LaunchInd

-------------------------------------------------------------------------------
(* The UI thread: a launch, from the press or the pump to the start of Steam. *)

\* do_launch takes a generation that nothing carries yet.
LEMMA DoLaunchGenerations ==
    ASSUME LaunchInd, NEW a \in Player, NEW use \in {"password", "token"}, DoLaunch(a, use),
           UiFree, UNCHANGED <<worker, watch>>
    PROVE  /\ Generations' /\ Awaited'
           /\ gen' \in 0..MaxGen /\ ui' \in {Idle} \cup Launches
<1>1. gen \in 0..MaxGen /\ gen < MaxGen /\ MaxGen \in Nat
    BY DEF DoLaunch, LaunchInd, LaunchTypeOK
<1>2. Awaited'
    BY DEF LaunchInd, Awaited
<1>3. CASE UNCHANGED <<ui, gen>>
    BY <1>2, <1>3, LaunchTypes DEF LaunchInd, LaunchTypeOK, Generations
<1>4. CASE /\ ui' = [pc |-> "down", acct |-> a, use |-> use, deferred |-> FALSE]
           /\ gen' = IF use = "token" THEN gen + 1 ELSE gen
  <2>1. ui' \in Launches /\ ui'.use = use
    BY <1>4 DEF Launches
  <2>2. gen + 1 \in Gen /\ gen' \in 0..MaxGen
    BY <1>1, <1>4 DEF Gen
  <2>3. \A g \in Gen : g > gen' => worker[g] = NoWorker /\ watch[g] = NoWorker
    BY <1>1, <1>4 DEF LaunchInd, Generations, Gen
  <2>4. worker[gen + 1] = NoWorker /\ watch[gen + 1] = NoWorker
    BY <1>1, <2>2 DEF LaunchInd, Generations
  <2>5. Generations'
    BY <1>1, <1>4, <2>1, <2>2, <2>3, <2>4 DEF Generations
  <2> QED
    BY <1>2, <2>1, <2>2, <2>5
<1> QED
    BY <1>3, <1>4 DEF DoLaunch

LEMMA PressInd ==
    ASSUME LaunchInd, NEW a \in Player, NEW use \in {"password", "token"}, Press(a, use)
    PROVE  LaunchInd'
<1>1. /\ UiFree /\ pressed' = pressed + 1 /\ pressed < MaxPress
      /\ attempted' = attempted \ {a} /\ autos' = [autos EXCEPT ![a] = 0]
      /\ UNCHANGED <<steamVars, worker, watch, cm, accepted>>
    BY DEF Press
<1>2. Generations' /\ Awaited' /\ gen' \in 0..MaxGen /\ ui' \in {Idle} \cup Launches
  <2>1. CASE UNCHANGED <<ui, gen>>
    BY <1>1, <2>1, LaunchTypes DEF LaunchInd, LaunchTypeOK, Generations, Awaited
  <2>2. CASE DoLaunch(a, use)
    BY <1>1, <2>2, DoLaunchGenerations
  <2> QED
    BY <2>1, <2>2 DEF Press
<1>3. \/ UNCHANGED <<pending, mints>>
      \/ pending' = MintingFor(a) /\ mints' = [mints EXCEPT ![a] = mints[a] + 1]
    BY DEF Press
<1>4. pending \in Pendings /\ MintingFor(a) \in Pendings /\ MintingFor(a).acct = a
    BY LaunchTypes DEF LaunchInd, MintingFor, Pendings
<1>5. mints' \in [Player -> Nat]
  <2>1. mints \in [Player -> Nat] /\ mints[a] + 1 \in Nat
    BY DEF LaunchInd, LaunchTypeOK
  <2> QED
    BY <1>3, <2>1
<1>6. autos' \in [Player -> Nat] /\ \A b \in Player : autos'[b] = IF b = a THEN 0 ELSE autos[b]
    BY <1>1 DEF LaunchInd, LaunchTypeOK
<1>7. pressed' \in 0..MaxPress
    BY <1>1 DEF LaunchInd, LaunchTypeOK
<1>8. pending' \in Pendings
    BY <1>3, <1>4
<1>9. LaunchTypeOK'
    BY <1>1, <1>2, <1>5, <1>6, <1>7, <1>8
       DEF LaunchInd, LaunchTypeOK, steamVars, Pendings, Launches
<1>10. Relaunched'
  <2>1. pending' = pending \/ pending'.acct = a
    BY <1>3, <1>4
  <2> QED
    BY <1>1, <1>6, <2>1 DEF LaunchInd, Relaunched
<1> QED
    BY <1>2, <1>9, <1>10 DEF LaunchInd

LEMMA PumpInd == ASSUME LaunchInd, PumpLaunches PROVE LaunchInd'
<1>1. /\ UiFree /\ pending' = NoPending
      /\ UNCHANGED <<steamVars, worker, watch, mints, attempted, cm, accepted, pressed>>
    BY DEF PumpLaunches
<1>2. NoPending \in Pendings /\ NoPending.acct = NoOne
    BY DEF NoPending, Pendings
<1>3. CASE UNCHANGED <<gen, ui, autos>>
  <2>1. Generations' /\ Awaited'
    BY <1>1, <1>3 DEF LaunchInd, Generations, Awaited
  <2>2. LaunchTypeOK'
    BY <1>1, <1>2, <1>3 DEF LaunchInd, LaunchTypeOK, steamVars, Pendings
  <2>3. Relaunched'
    BY <1>1, <1>2, <1>3 DEF LaunchInd, Relaunched
  <2> QED
    BY <2>1, <2>2, <2>3 DEF LaunchInd
<1>4. CASE /\ pending.acct # NoOne /\ DoLaunch(pending.acct, "token")
           /\ autos' = IF pending.acct \in attempted
                       THEN [autos EXCEPT ![pending.acct] = @ + 1] ELSE autos
  <2> DEFINE a == pending.acct
  <2>1. a \in Player /\ autos \in [Player -> Nat]
    BY <1>4, LaunchTypes DEF LaunchInd, LaunchTypeOK, Pendings
  <2>2. Generations' /\ Awaited' /\ gen' \in 0..MaxGen /\ ui' \in {Idle} \cup Launches
    BY <1>1, <1>4, <2>1, DoLaunchGenerations
  <2>3. autos[a] = 0
    BY <2>1 DEF LaunchInd, Relaunched
  <2>4. autos' = IF a \in attempted THEN [autos EXCEPT ![a] = 1] ELSE autos
    BY <1>4, <2>3
  <2> HIDE DEF a
  <2>5. /\ autos' \in [Player -> Nat]
        /\ \A b \in Player : autos'[b] = IF b = a /\ a \in attempted THEN 1 ELSE autos[b]
    BY <2>1, <2>4
  <2>6. LaunchTypeOK'
    BY <1>1, <1>2, <2>2, <2>5 DEF LaunchInd, LaunchTypeOK, steamVars, Pendings, Launches
  <2>7. Relaunched'
    BY <1>1, <1>2, <2>5 DEF LaunchInd, Relaunched
  <2> QED
    BY <2>2, <2>6, <2>7 DEF LaunchInd
<1> QED
    BY <1>3, <1>4 DEF PumpLaunches

\* The UI thread goes on with its launch, or gives it up.
LEMMA StageKeeps ==
    ASSUME LaunchInd, ui.pc # "idle",
           ui' = Idle \/ (ui' \in Launches /\ ui'.use = ui.use),
           UNCHANGED <<gen, worker, watch, screenVars>>, LaunchTypeOK'
    PROVE  LaunchInd'
<1>1. Generations'
    BY DEF LaunchInd, Generations, Idle
<1>2. Awaited' /\ Relaunched'
    BY DEF LaunchInd, Awaited, Relaunched, screenVars
<1> QED
    BY <1>1, <1>2 DEF LaunchInd

LEMMA StageInd == ASSUME LaunchInd, LaunchShutsSteam \/ LaunchWrites PROVE LaunchInd'
<1>1. ui.pc # "idle" /\ ui \in Launches /\ UNCHANGED <<gen, worker, watch, screenVars>>
    BY LaunchTypes DEF LaunchInd, LaunchShutsSteam, LaunchWrites, Idle
<1>2. ui' = Idle \/ (ui' \in Launches /\ ui'.use = ui.use)
  <2>1. CASE ui' = [ui EXCEPT !.pc = "write"]
    BY <1>1, <2>1 DEF Launches
  <2>2. CASE ui' = [ui EXCEPT !.pc = "spawn", !.deferred = FirstLogin(ui.acct)]
    BY <1>1, <2>2 DEF Launches, FirstLogin
  <2> QED
    BY <2>1, <2>2 DEF LaunchShutsSteam, LaunchWrites
<1>3. /\ steam' \in 0..MaxGen /\ active' \in Player \cup {NoOne}
      /\ autologin' \in Player \cup {NoOne}
      /\ remembered' \subseteq Player /\ configured' \subseteq Player
  <2>1. CASE LaunchShutsSteam
    BY <2>1 DEF LaunchShutsSteam, SteamDown, LaunchInd, LaunchTypeOK
  <2>2. CASE LaunchWrites
    <3>1. ui.acct \in Player
      BY <1>1 DEF Launches
    <3> QED
      BY <2>2, <3>1 DEF LaunchWrites, AutoLoginTo, TokenWritten, LaunchInd, LaunchTypeOK
  <2> QED
    BY <2>1, <2>2
<1>4. LaunchTypeOK'
    BY <1>1, <1>2, <1>3 DEF LaunchInd, LaunchTypeOK, screenVars, Launches
<1> QED
    BY <1>1, <1>2, <1>4, StageKeeps

LEMMA SpawnInd == ASSUME LaunchInd, LaunchSpawns PROVE LaunchInd'
<1>1. /\ ui \in Launches /\ ui.pc = "spawn" /\ ui' = Idle
      /\ UNCHANGED <<active, autologin, remembered, configured, screenVars>>
    BY LaunchTypes DEF LaunchInd, LaunchSpawns, Idle
<1>2. CASE UNCHANGED <<gen, steam, worker, watch>>
  <2>1. LaunchTypeOK'
    BY <1>1, <1>2 DEF LaunchInd, LaunchTypeOK, screenVars
  <2> QED
    BY <1>1, <1>2, <2>1, StageKeeps
<1> DEFINE g == IF ui.use = "token" THEN gen ELSE gen + 1
<1>3. CASE /\ gen' = g
           /\ steam' = IF steam = 0 THEN g ELSE steam
           /\ IF ui.use = "password"
              THEN worker' = [worker EXCEPT ![g] = Begun("window", FALSE)] /\ UNCHANGED watch
              ELSE /\ worker' = IF ui.deferred
                                THEN [worker EXCEPT ![g] = Begun("signin", TRUE)] ELSE worker
                   /\ watch' = [watch EXCEPT ![g] = [pc |-> "poll", acct |-> ui.acct]]
  <2>1. g \in Gen /\ gen \in Nat /\ g \in 0..MaxGen /\ ui.use \in {"password", "token"}
    BY <1>1 DEF LaunchInd, LaunchTypeOK, Generations, Gen, Launches
  <2>2. worker[g] = NoWorker /\ watch[g] = NoWorker
    BY <1>1, <2>1 DEF LaunchInd, Generations
  <2>3. /\ Begun("window", FALSE) \in Threads /\ Begun("signin", TRUE) \in Threads
        /\ Begun("signin", TRUE).counted = TRUE
        /\ [pc |-> "poll", acct |-> ui.acct] \in Watchers
        /\ [pc |-> "poll", acct |-> ui.acct].pc # "read"
    BY <1>1 DEF Begun, Threads, Watchers, Launches
  <2>4. \A h \in Gen : h > g => h > gen
    BY <2>1 DEF Gen
  <2> HIDE DEF g
  <2>5. /\ worker' \in [Gen -> {NoWorker} \cup Threads]
        /\ watch' \in [Gen -> {NoWorker} \cup Watchers]
        /\ \A h \in Gen \ {g} : worker'[h] = worker[h] /\ watch'[h] = watch[h]
    BY <1>3, <2>1, <2>3, LaunchTypes DEF LaunchInd
  <2>6. IF ui.use = "password" THEN watch'[g] = NoWorker
        ELSE /\ worker'[g] = NoWorker \/ worker'[g].counted
             /\ watch'[g].pc # "read"
    BY <1>3, <2>1, <2>2, <2>3, LaunchTypes DEF LaunchInd
  <2>7. LaunchTypeOK'
    BY <1>1, <1>3, <2>1, <2>5 DEF LaunchInd, LaunchTypeOK, screenVars, Threads, Watchers
  <2>8. Generations'
    <3>1. ASSUME NEW h \in Gen, h > g PROVE worker'[h] = NoWorker /\ watch'[h] = NoWorker
      <4>1. worker[h] = NoWorker /\ watch[h] = NoWorker
        BY <2>4, <3>1 DEF LaunchInd, Generations
      <4>2. h # g
        BY <2>1, <3>1 DEF Gen
      <4> QED
        BY <2>5, <4>1, <4>2
    <3> QED
      BY <1>1, <1>3, <3>1 DEF Generations, Idle
  <2>9. Awaited'
    BY <2>1, <2>5, <2>6 DEF LaunchInd, Awaited, NoWorker
  <2>10. Relaunched'
    BY <1>1 DEF LaunchInd, Relaunched, screenVars
  <2> QED
    BY <2>7, <2>8, <2>9, <2>10 DEF LaunchInd
<1> QED
    BY <1>2, <1>3 DEF LaunchSpawns

LEMMA MintEndsInd ==
    ASSUME LaunchInd, NEW a \in Player, NEW ok \in BOOLEAN, MintEnds(a, ok) PROVE LaunchInd'
<1>1. /\ mints[a] > 0 /\ mints' = [mints EXCEPT ![a] = mints[a] - 1]
      /\ pending' = [pending EXCEPT !.minting = FALSE, !.done = TRUE, !.ok = ok]
      /\ UNCHANGED <<steamVars, gen, ui, worker, watch, attempted, pressed, autos>>
    BY DEF MintEnds
<1>2. mints' \in [Player -> Nat]
  <2>1. mints \in [Player -> Nat] /\ mints[a] - 1 \in Nat
    BY <1>1 DEF LaunchInd, LaunchTypeOK
  <2> QED
    BY <1>1, <2>1
<1>3. pending' \in Pendings /\ pending'.acct = pending.acct
    BY <1>1, LaunchTypes DEF LaunchInd, Pendings
<1>4. cm' \in [Player -> {"none", "unknown", "valid", "revoked"}] /\ accepted' \subseteq Player
    BY DEF MintEnds, LaunchInd, LaunchTypeOK
<1>5. LaunchTypeOK'
    BY <1>1, <1>2, <1>3, <1>4 DEF LaunchInd, LaunchTypeOK, steamVars, Pendings
<1>6. Generations' /\ Awaited' /\ Relaunched'
    BY <1>1, <1>3 DEF LaunchInd, Generations, Awaited, Relaunched
<1> QED
    BY <1>5, <1>6 DEF LaunchInd

LEMMA SteamInd ==
    ASSUME LaunchInd, (\E a \in Player : SteamSignsIn(a)) \/ SteamExits PROVE LaunchInd'
<1>1. UNCHANGED <<autologin, gen, ui, worker, watch, screenVars>>
    BY DEF SteamSignsIn, SteamExits
<1>2. /\ steam' \in 0..MaxGen /\ active' \in Player \cup {NoOne}
      /\ remembered' \subseteq Player /\ configured' \subseteq Player
    BY DEF SteamSignsIn, SteamExits, LaunchInd, LaunchTypeOK
<1>3. LaunchTypeOK'
    BY <1>1, <1>2 DEF LaunchInd, LaunchTypeOK, screenVars
<1>4. Generations' /\ Awaited' /\ Relaunched'
    BY <1>1 DEF LaunchInd, Generations, Awaited, Relaunched, screenVars
<1> QED
    BY <1>3, <1>4 DEF LaunchInd

-------------------------------------------------------------------------------

LEMMA LaunchIndInit == LaunchInit => LaunchInd
<1> SUFFICES ASSUME LaunchInit PROVE LaunchInd
    OBVIOUS
<1>1. LaunchTypeOK
    BY DEF LaunchInit, LaunchTypeOK, NoPending
<1>2. Generations /\ Awaited /\ Relaunched
    BY DEF LaunchInit, Generations, Awaited, Relaunched, Idle, NoWorker
<1> QED
    BY <1>1, <1>2 DEF LaunchInd

LEMMA LaunchIndStep == LaunchInd /\ [LaunchNext]_launchVars => LaunchInd'
<1> SUFFICES ASSUME LaunchInd, [LaunchNext]_launchVars PROVE LaunchInd'
    OBVIOUS
<1>1. CASE UNCHANGED launchVars
    BY <1>1 DEF LaunchInd, LaunchTypeOK, Generations, Awaited, Relaunched, launchVars,
       steamVars, screenVars
<1>2. CASE \E a \in Player : \/ \E use \in {"password", "token"} : Press(a, use)
                            \/ \E ok \in BOOLEAN : MintEnds(a, ok)
                            \/ SteamSignsIn(a)
    BY <1>2, PressInd, MintEndsInd, SteamInd
<1>3. CASE LaunchShutsSteam \/ LaunchWrites \/ LaunchSpawns \/ PumpLaunches \/ SteamExits
    BY <1>3, StageInd, SpawnInd, PumpInd, SteamInd
<1>4. CASE \E g \in Gen : \/ Driver(g) \/ ReapplyWaits(g) \/ ReapplyStops(g)
                         \/ ReapplyChecks(g) \/ ReapplyRelaunches(g) \/ ReapplyEnds(g)
                         \/ WatcherStep(g) \/ ReadBack(g) \/ Refused(g)
    BY <1>4, DriverInd, ReapplyInd, WatcherInd, ReadBackInd, RefusedInd
<1> QED
    BY <1>1, <1>2, <1>3, <1>4 DEF LaunchNext

\* What the generations, the in-flight count and the attempted accounts keep true.
THEOREM LaunchAlways == LaunchSpec => []LaunchInd
    BY LaunchIndInit, LaunchIndStep, PTL DEF LaunchSpec

\* Whatever mints, watchers and launches overlap, an account is relaunched by itself
\* at most once between two presses or sign-ins (remint_cm_token_after_revoke).
THEOREM NoLaunchLoop == LaunchSpec => []LaunchInv
<1>1. LaunchInd => LaunchInv
    BY DEF LaunchInd, LaunchInv, Relaunched, NoRelaunchLoop
<1> QED
    BY <1>1, LaunchAlways, PTL

\* A watcher that saw every reapply end reads the token back after the reapply
\* of its own launch (first_login_reapply::in_flight); one whose polls ran out
\* first reads anyway.
THEOREM ReadBackSafe == LaunchSpec => []ReadBackAfterReapply
<1>1. LaunchInd => ReadBackAfterReapply
    BY DEF LaunchInd, ReadBackAfterReapply, Awaited, NoWorker
<1> QED
    BY <1>1, LaunchAlways, PTL

-------------------------------------------------------------------------------
(* The trace cleaner. *)

Profiles == {"quick", "reset", "full"}
CleanSteps ==
    [what : {"tokens", "listed", "auto", "residue", "userdata", "caches"}, acct : Acct \cup {Nobody}]
Runs ==
    [pc : {"none", "queued", "close", "step", "save", "end"}, by : {"worker", "launch"},
     keep : SUBSET Acct, profile : Profiles, plan : Seq(CleanSteps), read : SUBSET Acct,
     failed : BOOLEAN, written : SUBSET Acct,
     before : [listed : SUBSET Acct, userdata : SUBSET Acct, residue : SUBSET Acct,
               logins : SUBSET Acct]]
CleanLaunches ==
    [pc : {"none", "down", "cleaning", "auto", "list", "list write", "token", "token write"},
     acct : Acct \cup {Nobody}, clean : BOOLEAN, read : SUBSET Acct]

CleanTypes ==
    /\ listed \in SUBSET Acct /\ logins \in SUBSET Acct
    /\ userdata \in SUBSET Acct /\ residue \in SUBSET Acct
    /\ autoUser \in Acct \cup {Nobody}
    /\ {caches, readable, steamUp, busy} \subseteq BOOLEAN
    /\ keep \in SUBSET Acct /\ profile \in Profiles
    /\ run \in Runs /\ launching \in CleanLaunches
    /\ launching.pc # "none" => launching.acct \in Acct

\* A run is a worker's or that of the launch it holds up, never both; Steam
\* stays down while a launch writes.
OneCleaner ==
    /\ busy <=> run.pc # "none" /\ run.by = "worker"
    /\ launching.pc = "cleaning" <=> run.pc # "none" /\ run.by = "launch"
    /\ launching.pc = "down" /\ launching.clean => run.pc = "none"
    /\ launching.pc \notin {"none", "down"} => ~steamUp

Planned == run.pc \in {"close", "step", "save", "end"}
ElementsOf(p) == {p[i] : i \in DOMAIN p}
Todo == ElementsOf(run.plan)
Takes(s, a) == s.acct \in {a, Whole}

\* Between the two halves of a step there is the step.
Saving ==
    run.pc = "save" =>
        run.plan # <<>> /\ Step.what \in {"tokens", "listed"} /\ Step.acct # Whole

\* No step left to do takes anything a spared account had.
PlanSpares ==
    Planned => \A s \in Todo :
        /\ s.what = "listed" => \A a \in Spared \cap run.before.listed : ~Takes(s, a)
        /\ s.what = "tokens" => \A a \in Spared \cap run.before.logins : ~Takes(s, a)
        /\ s.what \in {"residue", "userdata"} => s.acct \notin Spared
        /\ s.what = "auto" => s.acct \in run.keep \cup {Nobody}

\* What a spared account had is still there, in the files and in the copies
\* of them that the run or a launch will write back.
SparedKept ==
    Planned => \A a \in Spared \ run.written :
        /\ a \in run.before.userdata => a \in userdata
        /\ a \in run.before.residue => a \in residue
        /\ a \in run.before.listed =>
              /\ a \in listed
              /\ run.pc = "save" /\ Step.what = "listed" => a \in run.read
              /\ launching.pc = "list write" => a \in launching.read
        /\ a \in run.before.logins =>
              /\ a \in logins
              /\ run.pc = "save" /\ Step.what = "tokens" => a \in run.read
              /\ launching.pc = "token write" => a \in launching.read

\* Before the plan is made nothing changes the files under a launch.
LaunchReadsLatest ==
    ~Planned =>
        /\ launching.pc = "list write" => launching.read = listed
        /\ launching.pc = "token write" => launching.read = logins

\* If nothing failed and nobody else wrote, what is there of an unticked
\* account has a step that takes it.
RestPlanned ==
    Planned /\ run.profile # "quick" /\ ~run.failed /\ run.written = {} =>
        /\ \A a \in listed \ run.keep : \E s \in Todo : s.what = "listed" /\ Takes(s, a)
        /\ \A a \in logins \ run.keep : \E s \in Todo : s.what = "tokens" /\ Takes(s, a)
        /\ \A a \in residue \ run.keep : \E s \in Todo : s.what = "residue" /\ s.acct = a
        /\ run.profile = "full" =>
              \A a \in userdata \ run.keep : \E s \in Todo : s.what = "userdata" /\ s.acct = a
        /\ Spared # {} /\ autoUser \notin run.keep \cup {Nobody} => \E s \in Todo : s.what = "auto"
        /\ run.pc = "save" => run.read \subseteq File(Step.what)

CleanInd ==
    /\ CleanTypes /\ OneCleaner /\ Saving /\ PlanSpares /\ SparedKept
    /\ LaunchReadsLatest /\ RestPlanned

-------------------------------------------------------------------------------
\* Steps of a plan.

LEMMA HeadAndTail ==
    ASSUME NEW S, NEW p \in Seq(S), p # <<>>
    PROVE  /\ Tail(p) \in Seq(S) /\ Head(p) \in S
           /\ Head(p) \in ElementsOf(p)
           /\ ElementsOf(Tail(p)) \subseteq ElementsOf(p)
           /\ ElementsOf(p) \subseteq {Head(p)} \cup ElementsOf(Tail(p))
<1>1. /\ Tail(p) \in Seq(S) /\ Head(p) = p[1] /\ Len(p) \in Nat \ {0} /\ DOMAIN p = 1..Len(p)
      /\ Len(Tail(p)) = Len(p) - 1 /\ DOMAIN Tail(p) = 1..Len(Tail(p))
      /\ \A i \in 1..Len(Tail(p)) : Tail(p)[i] = p[i + 1]
      /\ Head(p) \in S
    BY HeadTailProperties, LenProperties, EmptySeq
<1>2. Head(p) \in ElementsOf(p)
    BY <1>1 DEF ElementsOf
<1>3. ElementsOf(Tail(p)) \subseteq ElementsOf(p)
  <2> SUFFICES ASSUME NEW i \in DOMAIN Tail(p) PROVE Tail(p)[i] \in ElementsOf(p)
    BY DEF ElementsOf
  <2>1. i + 1 \in DOMAIN p /\ Tail(p)[i] = p[i + 1]
    BY <1>1
  <2> QED
    BY <2>1 DEF ElementsOf
<1>4. ElementsOf(p) \subseteq {Head(p)} \cup ElementsOf(Tail(p))
  <2> SUFFICES ASSUME NEW i \in DOMAIN p PROVE p[i] \in {Head(p)} \cup ElementsOf(Tail(p))
    BY DEF ElementsOf
  <2>1. CASE i = 1
    BY <2>1, <1>1
  <2>2. CASE i # 1
    <3>1. i - 1 \in DOMAIN Tail(p) /\ Tail(p)[i - 1] = p[i]
        BY <2>2, <1>1
    <3> QED
        BY <3>1 DEF ElementsOf
  <2> QED
    BY <2>1, <2>2
<1> QED
    BY <1>1, <1>2, <1>3, <1>4

LEMMA ElementsOfConcat ==
    ASSUME NEW S, NEW p \in Seq(S), NEW q \in Seq(S)
    PROVE  p \o q \in Seq(S) /\ ElementsOf(p \o q) = ElementsOf(p) \cup ElementsOf(q)
<1>1. /\ p \o q \in Seq(S) /\ Len(p \o q) = Len(p) + Len(q)
      /\ DOMAIN (p \o q) = 1..Len(p \o q) /\ DOMAIN p = 1..Len(p) /\ DOMAIN q = 1..Len(q)
      /\ Len(p) \in Nat /\ Len(q) \in Nat
      /\ \A i \in 1..Len(p) + Len(q) : (p \o q)[i] = IF i <= Len(p) THEN p[i] ELSE q[i - Len(p)]
    BY ConcatProperties, LenProperties
<1>2. ASSUME NEW i \in DOMAIN (p \o q) PROVE (p \o q)[i] \in ElementsOf(p) \cup ElementsOf(q)
  <2>1. CASE i <= Len(p)
    <3>1. i \in DOMAIN p /\ (p \o q)[i] = p[i]
        BY <1>1, <2>1
    <3> QED
        BY <3>1 DEF ElementsOf
  <2>2. CASE ~(i <= Len(p))
    <3>1. i - Len(p) \in DOMAIN q /\ (p \o q)[i] = q[i - Len(p)]
        BY <1>1, <2>2
    <3> QED
        BY <3>1 DEF ElementsOf
  <2> QED
    BY <2>1, <2>2
<1>3. ASSUME NEW i \in DOMAIN p PROVE p[i] \in ElementsOf(p \o q)
  <2>1. i \in DOMAIN (p \o q) /\ (p \o q)[i] = p[i]
    BY <1>1
  <2> QED
    BY <2>1 DEF ElementsOf
<1>4. ASSUME NEW i \in DOMAIN q PROVE q[i] \in ElementsOf(p \o q)
  <2>1. i + Len(p) \in DOMAIN (p \o q) /\ (p \o q)[i + Len(p)] = q[i]
    BY <1>1
  <2> QED
    BY <2>1 DEF ElementsOf
<1> QED
    BY <1>1, <1>2, <1>3, <1>4 DEF ElementsOf

\* DropEach has one step for each account.
LEMMA DropEachDrops ==
    ASSUME NEW S \in SUBSET Acct, NEW w \in {"tokens", "listed", "residue", "userdata"}
    PROVE  /\ DropEach(w, S) \in Seq(CleanSteps)
           /\ ElementsOf(DropEach(w, S)) = {Drop(w, a) : a \in S}
<1> DEFINE n == Cardinality(S)
           f == SetToSeq(S)
           d == DropEach(w, S)
<1>1. IsFiniteSet(S) /\ n \in Nat
    BY CleanAssumption, FS_Subset, FS_CardinalityType
<1>2. PICK g : g \in Bijection(1..n, S)
    BY <1>1, FS_CardinalityType DEF ExistsBijection
<1>3. g \in [1..n -> S] /\ IsInjective(g)
    BY <1>2 DEF Bijection, Injection, Surjection, IsInjective
<1>4. f \in [1..n -> S] /\ IsInjective(f)
    BY <1>3 DEF SetToSeq
<1>5. \A a \in S : \E i \in 1..n : f[i] = a
  <2>1. f \in Injection(1..n, S)
    BY <1>4 DEF Injection, IsInjective
  <2>2. IsFiniteSet(1..n) /\ Cardinality(1..n) = n
    BY <1>1, FS_Interval
  <2>3. f \in Surjection(1..n, S)
    BY <2>1, <2>2, <1>1, FS_Injection
  <2> QED
    BY <2>3 DEF Surjection
<1> HIDE DEF f
<1>6. d = [i \in 1..n |-> Drop(w, f[i])]
    BY DEF DropEach, f
<1>7. \A a \in S : Drop(w, a) \in CleanSteps
    BY DEF Drop, CleanSteps
<1>8. d \in [1..n -> CleanSteps]
    BY <1>4, <1>6, <1>7
<1>9. d \in Seq(CleanSteps)
    BY <1>8, <1>1, SeqDef
<1>10. DOMAIN d = 1..n /\ \A i \in 1..n : d[i] = Drop(w, f[i])
    BY <1>6
<1>11. ElementsOf(d) = {Drop(w, a) : a \in S}
  <2> HIDE DEF d
  <2>1. ASSUME NEW x \in ElementsOf(d) PROVE x \in {Drop(w, a) : a \in S}
    <3>1. PICK i \in 1..n : x = d[i]
        BY <1>10 DEF ElementsOf
    <3>2. f[i] \in S /\ x = Drop(w, f[i])
        BY <3>1, <1>4, <1>10
    <3> QED
        BY <3>2
  <2>2. ASSUME NEW a \in S PROVE Drop(w, a) \in ElementsOf(d)
    <3>1. PICK i \in 1..n : f[i] = a
        BY <1>5
    <3>2. i \in DOMAIN d /\ d[i] = Drop(w, a)
        BY <3>1, <1>10
    <3> QED
        BY <3>2 DEF ElementsOf
  <2> QED
    BY <2>1, <2>2
<1> QED
    BY <1>9, <1>11

-------------------------------------------------------------------------------
\* The plan.

\* No step of p takes what a kept account has that Steam has a name for, or
\* the folder of any kept account.
SparesKept(p, k) ==
    \A s \in ElementsOf(p) :
        /\ s.what = "listed" => \A a \in k \cap listed : ~Takes(s, a)
        /\ s.what = "tokens" => \A a \in k \cap listed \cap logins : readable => ~Takes(s, a)
        /\ s.what \in {"residue", "userdata"} => s.acct \in Acct \ k
        /\ s.what = "auto" => s.acct \in k \cup {Nobody}

LEMMA OneStepPlan ==
    ASSUME NEW s \in CleanSteps
    PROVE  <<s>> \in Seq(CleanSteps) /\ ElementsOf(<<s>>) = {s}
BY DEF ElementsOf

LEMMA EmptyPlan == <<>> \in Seq(CleanSteps) /\ ElementsOf(<<>>) = {}
BY DEF ElementsOf

LEMMA CacheStepsPlan ==
    ASSUME NEW k
    PROVE  /\ CacheSteps \in Seq(CleanSteps) /\ SparesKept(CacheSteps, k)
           /\ \A s \in ElementsOf(CacheSteps) : s.what = "caches"
<1>1. Drop("caches", Whole) \in CleanSteps /\ Drop("caches", Whole).what = "caches"
    BY DEF Drop, Whole, CleanSteps
<1>2. ElementsOf(CacheSteps) = {Drop("caches", Whole)} /\ CacheSteps \in Seq(CleanSteps)
    BY <1>1, OneStepPlan DEF CacheSteps
<1> QED
    BY <1>1, <1>2 DEF SparesKept

LEMMA TokenStepsPlan ==
    ASSUME CleanTypes, NEW k \in SUBSET Acct
    PROVE  /\ TokenSteps(k) \in Seq(CleanSteps) /\ SparesKept(TokenSteps(k), k)
           /\ \A a \in logins \ k : \E s \in ElementsOf(TokenSteps(k)) : s.what = "tokens" /\ Takes(s, a)
<1>1. CASE k = {} \/ ~readable
  <2>1. /\ Drop("tokens", Whole) \in CleanSteps
        /\ Drop("tokens", Whole).what = "tokens" /\ Drop("tokens", Whole).acct = Whole
    BY DEF Drop, Whole, CleanSteps
  <2>2. ElementsOf(TokenSteps(k)) = {Drop("tokens", Whole)} /\ TokenSteps(k) \in Seq(CleanSteps)
    BY <2>1, <1>1, OneStepPlan DEF TokenSteps
  <2> QED
    BY <1>1, <2>1, <2>2 DEF SparesKept, Takes
<1>2. CASE ~(k = {} \/ ~readable)
  <2> DEFINE S == logins \ PreservedKeys(k)
  <2>1. S \in SUBSET Acct
    BY DEF CleanTypes
  <2>2. /\ TokenSteps(k) = DropEach("tokens", S)
        /\ DropEach("tokens", S) \in Seq(CleanSteps)
        /\ ElementsOf(DropEach("tokens", S)) = {Drop("tokens", a) : a \in S}
    BY <2>1, <1>2, DropEachDrops DEF TokenSteps
  <2>3. \A a : Drop("tokens", a).what = "tokens" /\ Drop("tokens", a).acct = a
    BY DEF Drop
  <2>4. logins \ k \subseteq S /\ S \cap k \cap listed = {}
    BY DEF PreservedKeys
  <2> HIDE DEF S
  <2>5. SparesKept(TokenSteps(k), k)
    BY <2>1, <2>2, <2>3, <2>4, CleanAssumption DEF SparesKept, Takes, Whole
  <2>6. ASSUME NEW a \in logins \ k
        PROVE  \E s \in ElementsOf(TokenSteps(k)) : s.what = "tokens" /\ Takes(s, a)
    <3>1. Drop("tokens", a) \in ElementsOf(TokenSteps(k))
        BY <2>2, <2>4
    <3> QED
        BY <3>1, <2>3 DEF Takes
  <2> QED
    BY <2>2, <2>5, <2>6
<1> QED
    BY <1>1, <1>2

LEMMA ListStepsPlan ==
    ASSUME CleanTypes, NEW k \in SUBSET Acct
    PROVE  /\ ListSteps(k) \in Seq(CleanSteps) /\ SparesKept(ListSteps(k), k)
           /\ \A a \in listed \ k : \E s \in ElementsOf(ListSteps(k)) : s.what = "listed" /\ Takes(s, a)
<1>1. CASE k = {}
  <2>1. /\ Drop("listed", Whole) \in CleanSteps
        /\ Drop("listed", Whole).what = "listed" /\ Drop("listed", Whole).acct = Whole
    BY DEF Drop, Whole, CleanSteps
  <2>2. ElementsOf(ListSteps(k)) = {Drop("listed", Whole)} /\ ListSteps(k) \in Seq(CleanSteps)
    BY <2>1, <1>1, OneStepPlan DEF ListSteps
  <2> QED
    BY <1>1, <2>1, <2>2 DEF SparesKept, Takes
<1>2. CASE k # {}
  <2> DEFINE S == Known \ k
  <2>1. S \in SUBSET Acct
    BY DEF CleanTypes, Known
  <2>2. /\ ListSteps(k) = DropEach("listed", S)
        /\ DropEach("listed", S) \in Seq(CleanSteps)
        /\ ElementsOf(DropEach("listed", S)) = {Drop("listed", a) : a \in S}
    BY <2>1, <1>2, DropEachDrops DEF ListSteps
  <2>3. \A a : Drop("listed", a).what = "listed" /\ Drop("listed", a).acct = a
    BY DEF Drop
  <2>4. listed \ k \subseteq S /\ S \cap k = {}
    BY DEF Known
  <2> HIDE DEF S
  <2>5. SparesKept(ListSteps(k), k)
    BY <2>1, <2>2, <2>3, <2>4, CleanAssumption DEF SparesKept, Takes, Whole
  <2>6. ASSUME NEW a \in listed \ k
        PROVE  \E s \in ElementsOf(ListSteps(k)) : s.what = "listed" /\ Takes(s, a)
    <3>1. Drop("listed", a) \in ElementsOf(ListSteps(k))
        BY <2>2, <2>4
    <3> QED
        BY <3>1, <2>3 DEF Takes
  <2> QED
    BY <2>2, <2>5, <2>6
<1> QED
    BY <1>1, <1>2

LEMMA FolderStepsPlan ==
    ASSUME CleanTypes, NEW k \in SUBSET Acct
    PROVE  /\ ResidueSteps(k) \in Seq(CleanSteps) /\ SparesKept(ResidueSteps(k), k)
           /\ UserdataSteps(k) \in Seq(CleanSteps) /\ SparesKept(UserdataSteps(k), k)
           /\ \A a \in residue \ k : \E s \in ElementsOf(ResidueSteps(k)) : s.what = "residue" /\ s.acct = a
           /\ \A a \in userdata \ k : \E s \in ElementsOf(UserdataSteps(k)) : s.what = "userdata" /\ s.acct = a
<1>1. residue \ k \in SUBSET Acct /\ userdata \ k \in SUBSET Acct
    BY DEF CleanTypes
<1>2. /\ ResidueSteps(k) \in Seq(CleanSteps)
      /\ ElementsOf(ResidueSteps(k)) = {Drop("residue", a) : a \in residue \ k}
    BY <1>1, DropEachDrops DEF ResidueSteps
<1>3. /\ UserdataSteps(k) \in Seq(CleanSteps)
      /\ ElementsOf(UserdataSteps(k)) = {Drop("userdata", a) : a \in userdata \ k}
    BY <1>1, DropEachDrops DEF UserdataSteps
<1>4. \A w, a : Drop(w, a).what = w /\ Drop(w, a).acct = a
    BY DEF Drop
<1>5. SparesKept(ResidueSteps(k), k)
    BY <1>1, <1>2, <1>4 DEF SparesKept
<1>6. SparesKept(UserdataSteps(k), k)
    BY <1>1, <1>3, <1>4 DEF SparesKept
<1>7. ASSUME NEW a \in residue \ k
      PROVE  \E s \in ElementsOf(ResidueSteps(k)) : s.what = "residue" /\ s.acct = a
  <2>1. Drop("residue", a) \in ElementsOf(ResidueSteps(k))
    BY <1>2
  <2> QED
    BY <2>1, <1>4
<1>8. ASSUME NEW a \in userdata \ k
      PROVE  \E s \in ElementsOf(UserdataSteps(k)) : s.what = "userdata" /\ s.acct = a
  <2>1. Drop("userdata", a) \in ElementsOf(UserdataSteps(k))
    BY <1>3
  <2> QED
    BY <2>1, <1>4
<1> QED
    BY <1>2, <1>3, <1>5, <1>6, <1>7, <1>8

LEMMA AutoStepsPlan ==
    ASSUME CleanTypes, NEW k \in SUBSET Acct, NEW p \in AutoSteps(k)
    PROVE  /\ p \in Seq(CleanSteps) /\ SparesKept(p, k)
           /\ k \cap listed # {} /\ autoUser \notin k \cup {Nobody} =>
                 \E s \in ElementsOf(p) : s.what = "auto"
<1>1. \A a \in Acct \cup {Nobody} : Drop("auto", a) \in CleanSteps
    BY DEF Drop, CleanSteps
<1>2. \A a : Drop("auto", a).what = "auto" /\ Drop("auto", a).acct = a
    BY DEF Drop
<1>3. CASE p = <<>> /\ (autoUser \in Redirects(k) \/ Redirects(k) = {})
  <2>1. p \in Seq(CleanSteps) /\ ElementsOf(p) = {}
    BY <1>3, EmptyPlan
  <2> QED
    BY <1>3, <2>1 DEF SparesKept, Redirects
<1>4. ASSUME NEW a \in k \cup {Nobody}, p = <<Drop("auto", a)>>
      PROVE  p \in Seq(CleanSteps) /\ SparesKept(p, k) /\ \E s \in ElementsOf(p) : s.what = "auto"
  <2>1. p \in Seq(CleanSteps) /\ ElementsOf(p) = {Drop("auto", a)}
    BY <1>1, <1>4, OneStepPlan
  <2> QED
    BY <2>1, <1>2 DEF SparesKept
<1>5. \/ p = <<Drop("auto", Whole)>>
      \/ p = <<>> /\ (autoUser \in Redirects(k) \/ Redirects(k) = {})
      \/ \E a \in Redirects(k) : p = <<Drop("auto", a)>>
    BY DEF AutoSteps
<1> QED
    BY <1>3, <1>4, <1>5 DEF Whole, Redirects

\* For what there is of an account that is not kept there is a step.
TakesRest(q, k, p) ==
    /\ \A a \in listed \ k : \E s \in ElementsOf(q) : s.what = "listed" /\ Takes(s, a)
    /\ \A a \in logins \ k : \E s \in ElementsOf(q) : s.what = "tokens" /\ Takes(s, a)
    /\ \A a \in residue \ k : \E s \in ElementsOf(q) : s.what = "residue" /\ s.acct = a
    /\ p = "full" =>
          \A a \in userdata \ k : \E s \in ElementsOf(q) : s.what = "userdata" /\ s.acct = a
    /\ k \cap listed # {} /\ autoUser \notin k \cup {Nobody} =>
          \E s \in ElementsOf(q) : s.what = "auto"

\* A plan of build_plan.
LEMMA PlansAreExact ==
    ASSUME CleanTypes, NEW k \in SUBSET Acct, NEW p \in Profiles, NEW plan \in Plans(k, p)
    PROVE  /\ plan \in Seq(CleanSteps) /\ SparesKept(plan, k)
           /\ p = "quick" => \A s \in ElementsOf(plan) : s.what = "caches"
           /\ p # "quick" => TakesRest(plan, k, p)
<1>1. CASE p = "quick"
  <2>1. plan = CacheSteps
    BY <1>1 DEF Plans
  <2> QED
    BY <2>1, <1>1, CacheStepsPlan
<1>2. CASE p # "quick"
  <2> DEFINE last == IF p = "full" THEN UserdataSteps(k) ELSE <<>>
  <2>1. PICK s \in AutoSteps(k) :
            plan = CacheSteps \o TokenSteps(k) \o ListSteps(k) \o s \o ResidueSteps(k) \o last
    BY <1>2 DEF Plans
  <2>2. last \in Seq(CleanSteps) /\ SparesKept(last, k) /\ (p = "full" => last = UserdataSteps(k))
    BY FolderStepsPlan, EmptyPlan DEF SparesKept
  <2> HIDE DEF last
  <2> DEFINE p1 == CacheSteps \o TokenSteps(k)
             p2 == p1 \o ListSteps(k)
             p3 == p2 \o s
             p4 == p3 \o ResidueSteps(k)
  <2>3. p1 \in Seq(CleanSteps) /\ ElementsOf(p1) = ElementsOf(CacheSteps) \cup ElementsOf(TokenSteps(k))
    BY CacheStepsPlan, TokenStepsPlan, ElementsOfConcat
  <2> HIDE DEF p1
  <2>4. p2 \in Seq(CleanSteps) /\ ElementsOf(p2) = ElementsOf(p1) \cup ElementsOf(ListSteps(k))
    BY <2>3, ListStepsPlan, ElementsOfConcat
  <2> HIDE DEF p2
  <2>5. p3 \in Seq(CleanSteps) /\ ElementsOf(p3) = ElementsOf(p2) \cup ElementsOf(s)
    BY <2>4, AutoStepsPlan, ElementsOfConcat
  <2> HIDE DEF p3
  <2>6. p4 \in Seq(CleanSteps) /\ ElementsOf(p4) = ElementsOf(p3) \cup ElementsOf(ResidueSteps(k))
    BY <2>5, FolderStepsPlan, ElementsOfConcat
  <2>7. plan = p4 \o last
    BY <2>1 DEF p1, p2, p3
  <2> HIDE DEF p4
  <2>8. plan \in Seq(CleanSteps) /\ ElementsOf(plan) = ElementsOf(p4) \cup ElementsOf(last)
    BY <2>7, <2>6, <2>2, ElementsOfConcat
  <2>9. ElementsOf(plan) = UNION {ElementsOf(CacheSteps), ElementsOf(TokenSteps(k)),
            ElementsOf(ListSteps(k)), ElementsOf(s), ElementsOf(ResidueSteps(k)), ElementsOf(last)}
    BY <2>3, <2>4, <2>5, <2>6, <2>8
  <2>11. SparesKept(plan, k)
    <3>1. /\ SparesKept(CacheSteps, k) /\ SparesKept(TokenSteps(k), k) /\ SparesKept(ListSteps(k), k)
          /\ SparesKept(s, k) /\ SparesKept(ResidueSteps(k), k) /\ SparesKept(last, k)
        BY <2>2, CacheStepsPlan, TokenStepsPlan, ListStepsPlan, AutoStepsPlan, FolderStepsPlan
    <3> QED
        BY <2>9, <3>1 DEF SparesKept
  <2>12. /\ \A a \in listed \ k : \E x \in ElementsOf(plan) : x.what = "listed" /\ Takes(x, a)
         /\ \A a \in logins \ k : \E x \in ElementsOf(plan) : x.what = "tokens" /\ Takes(x, a)
    BY <2>9, TokenStepsPlan, ListStepsPlan
  <2>13. /\ \A a \in residue \ k : \E x \in ElementsOf(plan) : x.what = "residue" /\ x.acct = a
         /\ p = "full" =>
               \A a \in userdata \ k : \E x \in ElementsOf(plan) : x.what = "userdata" /\ x.acct = a
    BY <2>9, <2>2, FolderStepsPlan
  <2>14. k \cap listed # {} /\ autoUser \notin k \cup {Nobody} =>
            \E x \in ElementsOf(plan) : x.what = "auto"
    BY <2>9, AutoStepsPlan
  <2> QED
    BY <1>2, <2>8, <2>11, <2>12, <2>13, <2>14 DEF TakesRest
<1> QED
    BY <1>1, <1>2

-------------------------------------------------------------------------------
\* The steps of the run.

LEMMA CleanInitially == CleanInit => CleanInd
<1> SUFFICES ASSUME CleanInit PROVE CleanInd
    OBVIOUS
<1>1. run.pc = "none" /\ launching.pc = "none" /\ launching.acct = Nobody
    BY DEF CleanInit, NoRun, NotLaunching
<1>2. run \in Runs
    BY DEF CleanInit, NoRun, Runs, Profiles
<1>3. launching \in CleanLaunches
    BY DEF CleanInit, NotLaunching, CleanLaunches
<1>4. CleanTypes
    BY <1>1, <1>2, <1>3, CleanAssumption DEF CleanInit, CleanTypes, Profiles
<1> QED
    BY <1>1, <1>4 DEF CleanInit, CleanInd, OneCleaner, Saving, PlanSpares, SparedKept, LaunchReadsLatest,
                      RestPlanned, Planned

\* A run that has no plan yet, or is over, keeps nothing to itself.
LEMMA NotPlanned ==
    ASSUME ~Planned', run'.pc # "save"
    PROVE  Saving' /\ PlanSpares' /\ SparedKept' /\ RestPlanned'
BY DEF Planned, Saving, PlanSpares, SparedKept, RestPlanned

LEMMA RunAsyncKeeps ==
    ASSUME CleanInd, NEW p \in Profiles, RunAsync(p) PROVE CleanInd'
<1>0. NoRun \in Runs
    BY DEF NoRun, Runs, Profiles
<1>1. /\ run'.pc = "queued" /\ run'.by = "worker" /\ run' \in Runs
  <2>1. keep \in SUBSET Acct /\ run' = [NoRun EXCEPT !.pc = "queued", !.by = "worker",
                                                 !.keep = keep, !.profile = p]
    BY DEF RunAsync, Before, CleanInd, CleanTypes
  <2> HIDE DEF NoRun
  <2> QED
    BY <1>0, <2>1 DEF Runs
<1>2. launching' = launching /\ launching.pc = "none" /\ busy' = TRUE
    BY DEF RunAsync, UiFreeToClean
<1>3. CleanTypes'
    BY <1>1, <1>2 DEF RunAsync, pcVars, CleanInd, CleanTypes
<1>4. OneCleaner' /\ LaunchReadsLatest'
    BY <1>1, <1>2 DEF OneCleaner, LaunchReadsLatest
<1> QED
    BY <1>1, <1>3, <1>4, NotPlanned DEF CleanInd, Planned

LEMMA BuildKeeps ==
    ASSUME CleanInd, Build PROVE CleanInd'
<1>1. PICK plan :
          /\ plan \in Plans(run.keep, run.profile)
          /\ run' = [run EXCEPT !.pc = IF steamUp THEN "close" ELSE "step", !.plan = plan,
                            !.before = [listed |-> listed, userdata |-> userdata, residue |-> residue,
                                        logins |-> IF readable THEN logins ELSE {}]]
    BY DEF Build
<1>2. run \in Runs /\ run.pc = "queued" /\ run.keep \in SUBSET Acct /\ run.profile \in Profiles
    BY DEF CleanInd, CleanTypes, Runs, Build
<1>3. UNCHANGED <<listed, logins, userdata, residue, caches, autoUser, readable, steamUp, keep,
                  profile, busy, launching>>
    BY DEF Build, pcVars
<1>a. CleanTypes /\ plan \in Plans(run.keep, run.profile)
    BY <1>1 DEF CleanInd
<1>4. /\ plan \in Seq(CleanSteps) /\ SparesKept(plan, run.keep)
      /\ run.profile = "quick" => \A s \in ElementsOf(plan) : s.what = "caches"
    BY <1>a, <1>2, PlansAreExact
<1>5. /\ run' \in Runs /\ run'.pc \in {"close", "step"} /\ run'.by = run.by /\ run'.plan = plan
      /\ run'.keep = run.keep /\ run'.profile = run.profile
      /\ run'.written = run.written /\ run'.failed = run.failed
      /\ run'.before.listed = listed /\ run'.before.userdata = userdata
      /\ run'.before.residue = residue /\ run'.before.logins = (IF readable THEN logins ELSE {})
    BY <1>1, <1>2, <1>4 DEF Runs, CleanInd, CleanTypes
<1>6. CleanTypes'
    BY <1>3, <1>5 DEF CleanInd, CleanTypes
<1>7. OneCleaner'
    BY <1>2, <1>3, <1>5 DEF CleanInd, OneCleaner
<1>8. Saving' /\ LaunchReadsLatest'
    BY <1>5 DEF Saving, LaunchReadsLatest, Planned
<1>9. Spared' = IF run.profile = "quick" THEN Acct ELSE run.keep \cap listed
    BY <1>5 DEF Spared
<1>10. Todo' = ElementsOf(plan)
    BY <1>5 DEF Todo
<1>11. PlanSpares'
    BY <1>4, <1>5, <1>9, <1>10 DEF PlanSpares, SparesKept, Takes
<1>12. SparedKept'
    BY <1>2, <1>3, <1>5 DEF CleanInd, LaunchReadsLatest, Planned, SparedKept
<1>13. RestPlanned'
  <2>1. run.profile # "quick" => TakesRest(plan, run.keep, run.profile)
    BY <1>a, <1>2, PlansAreExact
  <2> QED
    BY <2>1, <1>3, <1>5, <1>9, <1>10 DEF RestPlanned, TakesRest, Takes
<1> QED
    BY <1>6, <1>7, <1>8, <1>11, <1>12, <1>13 DEF CleanInd

\* What a step of a run that has its plan leaves alone.
SameRun ==
    /\ run' \in Runs /\ run'.by = run.by /\ run'.keep = run.keep /\ run'.profile = run.profile
    /\ run'.before = run.before

\* The steps that are left were in the plan before.
LEMMA PlanStaysSparing ==
    ASSUME PlanSpares, Planned, SameRun, Todo' \subseteq Todo PROVE PlanSpares'
<1>1. Spared' = Spared
    BY DEF Spared, SameRun
<1>2. \A s \in Todo' : s \in Todo
    OBVIOUS
<1> QED
    BY <1>1, <1>2 DEF PlanSpares, SameRun, Takes

\* A step that takes nothing of a spared account.
LEMMA FilesUntouched ==
    ASSUME CleanInd, Planned, Planned', SameRun, run'.pc # "save", run'.written = run.written,
           UNCHANGED <<listed, logins, userdata, residue, launching>>
    PROVE  SparedKept'
<1>1. Spared' = Spared
    BY DEF Spared, SameRun
<1> QED
    BY <1>1 DEF CleanInd, SparedKept, SameRun

LEMMA CloseSteamKeeps ==
    ASSUME CleanInd, CloseSteam PROVE CleanInd'
<1>1. run.pc = "close" /\ run \in Runs
    BY DEF CloseSteam, CleanInd, CleanTypes
<1>2. UNCHANGED <<listed, logins, userdata, residue, caches, autoUser, readable, keep,
                  profile, busy, launching>>
    BY DEF CloseSteam, pcVars
<1>3. /\ SameRun /\ run'.pc \in {"step", "end"} /\ run'.plan = run.plan
      /\ run'.written = run.written /\ run'.failed = run.failed
    BY <1>1 DEF CloseSteam, SameRun, Runs
<1>4. steamUp' = FALSE \/ steamUp' = steamUp
    BY DEF CloseSteam
<1>5. Todo' = Todo /\ Spared' = Spared
    BY <1>3 DEF Todo, Spared, SameRun
<1>6. CleanTypes'
    BY <1>2, <1>3, <1>4 DEF CleanInd, CleanTypes, SameRun
<1>7. OneCleaner'
    BY <1>1, <1>2, <1>3, <1>4 DEF CleanInd, OneCleaner, SameRun
<1>8. Planned /\ Planned'
    BY <1>1, <1>3 DEF Planned
<1>9. Saving' /\ LaunchReadsLatest'
    BY <1>3, <1>8 DEF Saving, LaunchReadsLatest
<1>10. PlanSpares' /\ SparedKept'
    BY <1>2, <1>3, <1>5, <1>8, PlanStaysSparing, FilesUntouched DEF CleanInd
<1>11. RestPlanned'
    BY <1>2, <1>3, <1>5, <1>8 DEF CleanInd, RestPlanned, SameRun
<1> QED
    BY <1>6, <1>7, <1>9, <1>10, <1>11 DEF CleanInd

LEMMA AllDoneKeeps ==
    ASSUME CleanInd, AllDone PROVE CleanInd'
<1>1. run.pc = "step" /\ run \in Runs
    BY DEF AllDone, CleanInd, CleanTypes
<1>2. UNCHANGED <<listed, logins, userdata, residue, caches, autoUser, readable, steamUp, keep,
                  profile, busy, launching>>
    BY DEF AllDone, pcVars
<1>3. /\ SameRun /\ run'.pc = "end" /\ run'.plan = run.plan
      /\ run'.written = run.written /\ run'.failed = run.failed
    BY <1>1 DEF AllDone, SameRun, Runs
<1>5. Todo' = Todo /\ Spared' = Spared
    BY <1>3 DEF Todo, Spared, SameRun
<1>6. CleanTypes'
    BY <1>2, <1>3 DEF CleanInd, CleanTypes, SameRun
<1>7. OneCleaner'
    BY <1>1, <1>2, <1>3 DEF CleanInd, OneCleaner, SameRun
<1>8. Planned /\ Planned'
    BY <1>1, <1>3 DEF Planned
<1>9. Saving' /\ LaunchReadsLatest'
    BY <1>3, <1>8 DEF Saving, LaunchReadsLatest
<1>10. PlanSpares' /\ SparedKept'
    BY <1>2, <1>3, <1>5, <1>8, PlanStaysSparing, FilesUntouched DEF CleanInd
<1>11. RestPlanned'
    BY <1>2, <1>3, <1>5, <1>8 DEF CleanInd, RestPlanned, SameRun
<1> QED
    BY <1>6, <1>7, <1>9, <1>10, <1>11 DEF CleanInd

LEMMA RunEndsKeeps ==
    ASSUME CleanInd, RunEnds PROVE CleanInd'
<1>1. run.pc = "end" /\ run' = NoRun /\ busy' = FALSE /\ run \in Runs /\ launching \in CleanLaunches
    BY DEF RunEnds, CleanInd, CleanTypes
<1>2. UNCHANGED <<listed, logins, userdata, residue, caches, autoUser, readable, steamUp, keep, profile>>
    BY DEF RunEnds, pcVars
<1>3. run'.pc = "none" /\ run' \in Runs
    BY <1>1 DEF NoRun, Runs, Profiles
<1>4. \/ run.by = "worker" /\ launching.pc = "none" /\ launching' = launching
      \/ run.by = "launch" /\ launching.pc = "cleaning" /\ launching' = [launching EXCEPT !.pc = "auto"]
    BY <1>1 DEF RunEnds, Runs, CleanInd, OneCleaner
<1>5. /\ launching' \in CleanLaunches /\ launching'.acct = launching.acct
      /\ \/ launching'.pc = "none" /\ launching.pc = "none"
         \/ launching'.pc = "auto" /\ launching.pc = "cleaning"
    BY <1>1, <1>4 DEF CleanLaunches
<1>6. CleanTypes'
    BY <1>1, <1>2, <1>3, <1>5 DEF CleanInd, CleanTypes
<1>7. OneCleaner' /\ LaunchReadsLatest'
    BY <1>1, <1>2, <1>3, <1>5 DEF CleanInd, OneCleaner, LaunchReadsLatest
<1> QED
    BY <1>3, <1>6, <1>7, NotPlanned DEF CleanInd, Planned

\* A step on a VDF file begins: the run has a copy of the file.
LEMMA LoadVdfKeeps ==
    ASSUME CleanInd, ExecuteOne, Step.what \in {"tokens", "listed"}, Step.acct # Whole,
           run' = [run EXCEPT !.pc = "save", !.read = File(Step.what)], UNCHANGED pcVars
    PROVE  CleanInd'
<1>1. run.pc = "step" /\ run.plan # <<>> /\ run \in Runs
    BY DEF ExecuteOne, CleanInd, CleanTypes
<1>2. UNCHANGED <<listed, logins, userdata, residue, caches, autoUser, readable, steamUp, keep,
                  profile, busy, launching>>
    BY DEF ExecuteOne, pcVars
<1>3. File(Step.what) \in SUBSET Acct
    BY DEF File, CleanInd, CleanTypes
<1>4. /\ SameRun /\ run'.pc = "save" /\ run'.plan = run.plan /\ run'.read = File(Step.what)
      /\ run'.written = run.written /\ run'.failed = run.failed
    BY <1>1, <1>3 DEF SameRun, Runs
<1>5. Todo' = Todo /\ Spared' = Spared /\ Step' = Step
    BY <1>4 DEF Todo, Spared, SameRun, Step
<1>6. Planned /\ Planned'
    BY <1>1, <1>4 DEF Planned
<1>7. CleanTypes' /\ OneCleaner'
    BY <1>1, <1>2, <1>4 DEF CleanInd, CleanTypes, OneCleaner, SameRun
<1>8. Saving' /\ LaunchReadsLatest' /\ PlanSpares'
    BY <1>1, <1>4, <1>5, <1>6, PlanStaysSparing DEF CleanInd, Saving, LaunchReadsLatest
<1>9. SparedKept'
    BY <1>2, <1>4, <1>5, <1>6 DEF CleanInd, SparedKept, SameRun, File
<1>10. RestPlanned'
    BY <1>2, <1>4, <1>5, <1>6 DEF CleanInd, RestPlanned, SameRun, File
<1> QED
    BY <1>7, <1>8, <1>9, <1>10 DEF CleanInd

\* A step is over: the rest of the plan is left.
LEMMA DoneLeavesRest ==
    ASSUME run \in Runs, run.plan # <<>>
    PROVE  /\ Done(run) \in Runs /\ Done(run).pc = "step" /\ Done(run).plan = Tail(run.plan)
           /\ Done(run).by = run.by /\ Done(run).keep = run.keep /\ Done(run).profile = run.profile
           /\ Done(run).before = run.before /\ Done(run).written = run.written
           /\ Done(run).failed = run.failed
           /\ Step \in Todo /\ Step \in CleanSteps
           /\ ElementsOf(Tail(run.plan)) \subseteq Todo
           /\ Todo \subseteq {Step} \cup ElementsOf(Tail(run.plan))
<1>1. run.plan \in Seq(CleanSteps)
    BY DEF Runs
<1>2. Tail(run.plan) \in Seq(CleanSteps)
    BY <1>1, HeadAndTail
<1>3. Done(run) = [run EXCEPT !.plan = Tail(run.plan), !.pc = "step"]
    BY DEF Done, Runs
<1>4. /\ Done(run) \in Runs /\ Done(run).pc = "step" /\ Done(run).plan = Tail(run.plan)
      /\ Done(run).by = run.by /\ Done(run).keep = run.keep /\ Done(run).profile = run.profile
      /\ Done(run).before = run.before /\ Done(run).written = run.written
      /\ Done(run).failed = run.failed
    BY <1>2, <1>3 DEF Runs
<1>5. /\ Step \in Todo /\ Step \in CleanSteps
      /\ ElementsOf(Tail(run.plan)) \subseteq Todo
      /\ Todo \subseteq {Step} \cup ElementsOf(Tail(run.plan))
    BY <1>1, HeadAndTail DEF Step, Todo
<1> QED
    BY <1>4, <1>5

\* What a step takes is what it names, if nobody else writes.
StepTakes ==
    /\ \A a \in listed' : a \in listed /\ ~(Step.what = "listed" /\ Takes(Step, a))
    /\ \A a \in logins' : a \in logins /\ ~(Step.what = "tokens" /\ Takes(Step, a))
    /\ \A a \in residue' : a \in residue /\ ~(Step.what = "residue" /\ Step.acct = a)
    /\ \A a \in userdata' : a \in userdata /\ ~(Step.what = "userdata" /\ Step.acct = a)
    /\ autoUser' = IF Step.what = "auto" THEN Step.acct ELSE autoUser

\* It leaves what the spared accounts had.
StepSpares ==
    \A a \in Spared \ run.written :
        /\ a \in run.before.listed => a \in listed'
        /\ a \in run.before.logins => a \in logins'
        /\ a \in run.before.residue => a \in residue'
        /\ a \in run.before.userdata => a \in userdata'

FilesTyped ==
    /\ listed' \in SUBSET Acct /\ logins' \in SUBSET Acct
    /\ userdata' \in SUBSET Acct /\ residue' \in SUBSET Acct
    /\ autoUser' \in Acct \cup {Nobody}
    /\ caches' \in BOOLEAN /\ readable' \in BOOLEAN

LEMMA StepKeeps ==
    ASSUME CleanInd, run.pc \in {"step", "save"}, run.plan # <<>>,
           UNCHANGED <<steamUp, keep, profile, busy, launching>>,
           SameRun, run'.pc = "step", run'.plan = Tail(run.plan), run'.written = run.written,
           FilesTyped, StepSpares, ~run'.failed => ~run.failed,
           ~run'.failed /\ run.profile # "quick" /\ run.written = {} => StepTakes
    PROVE  CleanInd'
<1>1. run \in Runs
    BY DEF CleanInd, CleanTypes
<1>2. /\ Step \in Todo /\ Step \in CleanSteps /\ Todo' \subseteq Todo /\ Todo \subseteq {Step} \cup Todo'
    BY <1>1, DoneLeavesRest DEF Todo
<1>3. Spared' = Spared
    BY DEF Spared, SameRun
<1>4. Planned /\ Planned'
    BY DEF Planned
<1>5. CleanTypes' /\ OneCleaner'
    BY DEF CleanInd, CleanTypes, OneCleaner, SameRun, FilesTyped
<1>6. Saving' /\ LaunchReadsLatest' /\ PlanSpares'
    BY <1>2, <1>4, PlanStaysSparing DEF CleanInd, Saving, LaunchReadsLatest
<1>7. SparedKept'
    BY <1>3, <1>4 DEF CleanInd, SparedKept, SameRun, StepSpares
<1>8. RestPlanned'
  <2> SUFFICES ASSUME run'.profile # "quick", ~run'.failed, run'.written = {}
               PROVE  RestPlanned'
    BY DEF RestPlanned
  <2>1. run.profile # "quick" /\ ~run.failed /\ run.written = {} /\ StepTakes
    BY DEF SameRun
  <2>2. /\ \A a \in listed \ run.keep : \E s \in Todo : s.what = "listed" /\ Takes(s, a)
        /\ \A a \in logins \ run.keep : \E s \in Todo : s.what = "tokens" /\ Takes(s, a)
        /\ \A a \in residue \ run.keep : \E s \in Todo : s.what = "residue" /\ s.acct = a
        /\ run.profile = "full" =>
              \A a \in userdata \ run.keep : \E s \in Todo : s.what = "userdata" /\ s.acct = a
        /\ Spared # {} /\ autoUser \notin run.keep \cup {Nobody} => \E s \in Todo : s.what = "auto"
    BY <1>4, <2>1 DEF CleanInd, RestPlanned
  <2>3. \A a \in listed' \ run.keep : \E s \in Todo' : s.what = "listed" /\ Takes(s, a)
    BY <1>2, <2>1, <2>2 DEF StepTakes
  <2>4. \A a \in logins' \ run.keep : \E s \in Todo' : s.what = "tokens" /\ Takes(s, a)
    BY <1>2, <2>1, <2>2 DEF StepTakes
  <2>5. \A a \in residue' \ run.keep : \E s \in Todo' : s.what = "residue" /\ s.acct = a
    BY <1>2, <2>1, <2>2 DEF StepTakes
  <2>6. run.profile = "full" =>
            \A a \in userdata' \ run.keep : \E s \in Todo' : s.what = "userdata" /\ s.acct = a
    BY <1>2, <2>1, <2>2 DEF StepTakes
  <2>7. Spared # {} /\ autoUser' \notin run.keep \cup {Nobody} => \E s \in Todo' : s.what = "auto"
    <3>1. Step.what = "auto" => Step.acct \in run.keep \cup {Nobody}
        BY <1>2, <1>4 DEF CleanInd, PlanSpares
    <3> QED
        BY <1>2, <2>1, <2>2, <3>1 DEF StepTakes
  <2>8. run'.keep = run.keep /\ run'.profile = run.profile
    BY DEF SameRun
  <2> QED
    BY <1>3, <2>3, <2>4, <2>5, <2>6, <2>7, <2>8 DEF RestPlanned, Takes
<1> QED
    BY <1>5, <1>6, <1>7, <1>8 DEF CleanInd

LEMMA ExecuteOneKeeps ==
    ASSUME CleanInd, ExecuteOne PROVE CleanInd'
<1> DEFINE take == Step.acct = Whole \/ Step.what \in {"auto", "residue", "userdata"}
<1>1. run.pc = "step" /\ run.plan # <<>> /\ run \in Runs /\ Planned
    BY DEF ExecuteOne, CleanInd, CleanTypes, Planned
<1>2. UNCHANGED <<steamUp, keep, profile, busy, launching>>
    BY DEF ExecuteOne
<1>3. Step \in Todo /\ Step \in CleanSteps
    BY <1>1, DoneLeavesRest
<1>4. CASE run' = [run EXCEPT !.pc = "save", !.read = File(Step.what)]
           /\ Step.what \in {"tokens", "listed"} /\ Step.acct # Whole /\ UNCHANGED pcVars
    BY <1>4, LoadVdfKeeps
<1>5. CASE run' = [Done(run) EXCEPT !.failed = TRUE] /\ UNCHANGED pcVars
  <2>1. /\ SameRun /\ run'.pc = "step" /\ run'.plan = Tail(run.plan) /\ run'.written = run.written
        /\ run'.failed
    <3> HIDE DEF Done
    <3>1. Done(run) \in Runs
        BY <1>1, DoneLeavesRest
    <3>2. /\ run' \in Runs /\ run'.by = Done(run).by /\ run'.keep = Done(run).keep
          /\ run'.profile = Done(run).profile /\ run'.before = Done(run).before
          /\ run'.pc = Done(run).pc /\ run'.plan = Done(run).plan
          /\ run'.written = Done(run).written /\ run'.failed
        BY <1>5, <3>1 DEF Runs
    <3> QED
        BY <1>1, <3>2, DoneLeavesRest DEF SameRun
  <2>2. FilesTyped /\ StepSpares
    BY <1>1, <1>5 DEF FilesTyped, StepSpares, pcVars, CleanInd, CleanTypes, SparedKept
  <2> QED
    BY <1>1, <1>2, <2>1, <2>2, StepKeeps
<1>6. CASE /\ take /\ run' = Done(run)
           /\ logins' = IF Step.what = "tokens" THEN {} ELSE logins
           /\ listed' = IF Step.what = "listed" THEN {} ELSE listed
           /\ userdata' = IF Step.what = "userdata" THEN userdata \ {Step.acct} ELSE userdata
           /\ residue' = IF Step.what \in {"residue", "userdata"} THEN residue \ {Step.acct} ELSE residue
           /\ caches' = (caches /\ Step.what # "caches")
           /\ autoUser' = IF Step.what = "auto" THEN Step.acct ELSE autoUser
           /\ readable' = (readable \/ Step.what = "tokens")
  <2>1. /\ SameRun /\ run'.pc = "step" /\ run'.plan = Tail(run.plan) /\ run'.written = run.written
        /\ run'.failed = run.failed
    BY <1>1, <1>6, DoneLeavesRest DEF SameRun
  <2>2. caches' \in BOOLEAN /\ readable' \in BOOLEAN
    BY <1>6
  <2>3. Step.acct \in Acct \cup {Nobody}
    BY <1>3 DEF CleanSteps
  <2>4. FilesTyped
    BY <1>6, <2>2, <2>3 DEF FilesTyped, CleanInd, CleanTypes
  <2>5. /\ Step.what \in {"tokens", "listed"} => Step.acct = Whole
        /\ Step.what = "listed" => Spared \cap run.before.listed = {}
        /\ Step.what = "tokens" => Spared \cap run.before.logins = {}
        /\ Step.what \in {"residue", "userdata"} => Step.acct \notin Spared
    BY <1>1, <1>3, <1>6 DEF CleanInd, PlanSpares, Takes
  <2>6. StepSpares
    BY <1>1, <1>6, <2>5 DEF StepSpares, CleanInd, SparedKept
  <2>7. StepTakes
    BY <1>6, <2>5 DEF StepTakes, Takes
  <2> QED
    BY <1>1, <1>2, <2>1, <2>4, <2>6, <2>7, StepKeeps
<1> QED
    BY <1>4, <1>5, <1>6 DEF ExecuteOne

LEMMA SaveVdfKeeps ==
    ASSUME CleanInd, SaveVdf PROVE CleanInd'
<1>1. run.pc = "save" /\ run.plan # <<>> /\ run \in Runs /\ Planned /\ run' = Done(run)
    BY DEF SaveVdf, CleanInd, CleanTypes, Planned, Saving
<1>2. UNCHANGED <<steamUp, keep, profile, busy, launching, userdata, residue, caches, autoUser, readable>>
    BY DEF SaveVdf
<1>3. Step \in Todo /\ Step \in CleanSteps /\ Step.what \in {"tokens", "listed"} /\ Step.acct # Whole
    BY <1>1, DoneLeavesRest DEF CleanInd, Saving
<1>4. /\ SameRun /\ run'.pc = "step" /\ run'.plan = Tail(run.plan) /\ run'.written = run.written
      /\ run'.failed = run.failed
    BY <1>1, DoneLeavesRest DEF SameRun
<1>5. /\ Step.what = "tokens" => logins' = run.read \ {Step.acct} /\ UNCHANGED listed
      /\ Step.what = "listed" => listed' = run.read \ {Step.acct} /\ UNCHANGED logins
    BY DEF SaveVdf
<1>6. run.read \in SUBSET Acct
    BY <1>1 DEF Runs
<1>7. FilesTyped
    BY <1>2, <1>3, <1>5, <1>6 DEF FilesTyped, CleanInd, CleanTypes
<1>8. StepSpares
  <2>1. /\ Step.what = "listed" => \A a \in Spared \cap run.before.listed : a # Step.acct
        /\ Step.what = "tokens" => \A a \in Spared \cap run.before.logins : a # Step.acct
    BY <1>1, <1>3 DEF CleanInd, PlanSpares, Takes
  <2>2. \A a \in Spared \ run.written :
           /\ a \in run.before.userdata => a \in userdata
           /\ a \in run.before.residue => a \in residue
           /\ a \in run.before.listed => a \in listed /\ (Step.what = "listed" => a \in run.read)
           /\ a \in run.before.logins => a \in logins /\ (Step.what = "tokens" => a \in run.read)
    BY <1>1 DEF CleanInd, SparedKept
  <2> QED
    BY <1>2, <1>3, <1>5, <2>1, <2>2 DEF StepSpares
<1>9. run.profile # "quick" /\ ~run'.failed /\ run.written = {} => StepTakes
  <2> SUFFICES ASSUME run.profile # "quick", ~run'.failed, run.written = {} PROVE StepTakes
    OBVIOUS
  <2>1. run.read \subseteq File(Step.what)
    BY <1>1, <1>4 DEF CleanInd, RestPlanned
  <2> QED
    BY <1>2, <1>3, <1>5, <2>1 DEF StepTakes, File, Takes
<1> QED
    BY <1>1, <1>2, <1>4, <1>7, <1>8, <1>9, StepKeeps

-------------------------------------------------------------------------------
\* The settings, Steam and the launch.

LEMMA WroteOnlyWritten ==
    ASSUME run \in Runs, NEW a \in Acct, Wrote(a)
    PROVE  /\ SameRun /\ run'.pc = run.pc /\ run'.plan = run.plan /\ run'.read = run.read
           /\ run'.failed = run.failed
           /\ Planned => run'.written = run.written \cup {a}
BY DEF Wrote, Runs, SameRun, Planned

\* Another writer adds to the files: it accounts for itself.
LEMMA WriterKeeps ==
    ASSUME CleanInd, NEW a \in Acct, Wrote(a), FilesTyped, {steamUp', busy'} \subseteq BOOLEAN,
           launching' \in CleanLaunches, launching'.pc # "none" => launching'.acct \in Acct,
           UNCHANGED <<keep, profile>>, OneCleaner', LaunchReadsLatest',
           Planned => \A b \in Spared \ (run.written \cup {a}) :
               /\ b \in run.before.userdata => b \in userdata'
               /\ b \in run.before.residue => b \in residue'
               /\ b \in run.before.listed => b \in listed' /\ (launching'.pc = "list write" => b \in launching'.read)
               /\ b \in run.before.logins => b \in logins' /\ (launching'.pc = "token write" => b \in launching'.read)
    PROVE  CleanInd'
<1>1. run \in Runs
    BY DEF CleanInd, CleanTypes
<1>2. /\ SameRun /\ run'.pc = run.pc /\ run'.plan = run.plan /\ run'.read = run.read
      /\ run'.failed = run.failed
      /\ Planned => run'.written = run.written \cup {a}
    BY <1>1, WroteOnlyWritten
<1>3. Todo' = Todo /\ Spared' = Spared /\ Step' = Step /\ Planned' = Planned
    BY <1>2 DEF Todo, Spared, SameRun, Step, Planned
<1>4. CleanTypes'
    BY <1>2 DEF CleanInd, CleanTypes, SameRun, FilesTyped
<1>5. Saving'
    BY <1>2, <1>3 DEF CleanInd, Saving
<1>6. PlanSpares'
    BY <1>2, <1>3, PlanStaysSparing DEF CleanInd, PlanSpares
<1>7. SparedKept'
  <2> SUFFICES ASSUME Planned PROVE SparedKept'
    BY <1>3 DEF SparedKept
  <2>1. run'.before = run.before /\ Spared' \ run'.written = Spared \ (run.written \cup {a})
    BY <1>2, <1>3 DEF SameRun
  <2>2. \A b \in Spared \ (run.written \cup {a}) :
           /\ b \in run.before.listed => (run.pc = "save" /\ Step.what = "listed" => b \in run.read)
           /\ b \in run.before.logins => (run.pc = "save" /\ Step.what = "tokens" => b \in run.read)
    BY DEF CleanInd, SparedKept
  <2> QED
    BY <1>2, <1>3, <2>1, <2>2 DEF SparedKept
<1>8. RestPlanned'
    BY <1>2, <1>3 DEF RestPlanned
<1> QED
    BY <1>4, <1>5, <1>6, <1>7, <1>8 DEF CleanInd

LEMMA SteamWritesKeeps ==
    ASSUME CleanInd, NEW a \in Acct, SteamWrites(a) PROVE CleanInd'
<1>1. /\ steamUp /\ listed' = listed \cup {a} /\ userdata' = userdata \cup {a}
      /\ residue' = residue \cup {a} /\ caches' = TRUE
      /\ logins' = logins \cup {a} /\ autoUser' = a /\ readable' = TRUE
      /\ Wrote(a) /\ UNCHANGED <<steamUp, keep, profile, busy, launching>>
    BY DEF SteamWrites
<1>2. FilesTyped
    BY <1>1 DEF FilesTyped, CleanInd, CleanTypes
<1>3. /\ {steamUp', busy'} \subseteq BOOLEAN
      /\ launching' \in CleanLaunches /\ (launching'.pc # "none" => launching'.acct \in Acct)
    BY <1>1 DEF CleanInd, CleanTypes
<1>4. run'.pc = run.pc /\ run'.by = run.by
    BY <1>1, WroteOnlyWritten DEF CleanInd, CleanTypes, SameRun
<1>5. OneCleaner' /\ LaunchReadsLatest'
    BY <1>1, <1>4 DEF CleanInd, OneCleaner, LaunchReadsLatest
<1>6. Planned => \A b \in Spared \ (run.written \cup {a}) :
           /\ b \in run.before.userdata => b \in userdata'
           /\ b \in run.before.residue => b \in residue'
           /\ b \in run.before.listed => b \in listed' /\ (launching'.pc = "list write" => b \in launching'.read)
           /\ b \in run.before.logins => b \in logins' /\ (launching'.pc = "token write" => b \in launching'.read)
    BY <1>1 DEF CleanInd, SparedKept
<1> QED
    BY <1>1, <1>2, <1>3, <1>5, <1>6, WriterKeeps

LEMMA LaunchStepKeeps ==
    ASSUME CleanInd, LaunchStep PROVE CleanInd'
<1> DEFINE a == launching.acct
<1>1. /\ Wrote(a) /\ UNCHANGED <<userdata, residue, caches, keep, profile, busy>>
      /\ launching.pc \in {"auto", "list write", "token write"} /\ a \in Acct
      /\ launching \in CleanLaunches /\ run \in Runs
    BY DEF LaunchStep, CleanInd, CleanTypes
<1>2. launching.read \in SUBSET Acct
    BY <1>1 DEF CleanLaunches
<1>3. run'.pc = run.pc /\ run'.by = run.by
    BY <1>1, WroteOnlyWritten DEF SameRun
<1>4. Planned' = Planned
    BY <1>3 DEF Planned
<1>5. CASE /\ launching.pc = "auto" /\ launching' = [launching EXCEPT !.pc = "list"]
           /\ autoUser' = launching.acct /\ UNCHANGED <<listed, logins, readable, steamUp>>
  <2>1. launching' \in CleanLaunches /\ launching'.pc = "list" /\ launching'.acct = a
    BY <1>1, <1>5 DEF CleanLaunches
  <2>2. FilesTyped /\ {steamUp', busy'} \subseteq BOOLEAN
    BY <1>1, <1>5 DEF FilesTyped, CleanInd, CleanTypes
  <2>3. OneCleaner' /\ LaunchReadsLatest'
    BY <1>1, <1>3, <1>5, <2>1 DEF CleanInd, OneCleaner, LaunchReadsLatest
  <2>4. Planned => \A b \in Spared \ (run.written \cup {a}) :
           /\ b \in run.before.userdata => b \in userdata'
           /\ b \in run.before.residue => b \in residue'
           /\ b \in run.before.listed => b \in listed' /\ (launching'.pc = "list write" => b \in launching'.read)
           /\ b \in run.before.logins => b \in logins' /\ (launching'.pc = "token write" => b \in launching'.read)
    BY <1>1, <1>5, <2>1 DEF CleanInd, SparedKept
  <2> QED
    BY <1>1, <2>1, <2>2, <2>3, <2>4, WriterKeeps
<1>6. CASE /\ launching.pc = "list write" /\ launching' = [launching EXCEPT !.pc = "token"]
           /\ listed' = launching.read \cup {launching.acct} /\ UNCHANGED <<autoUser, logins, readable, steamUp>>
  <2>1. launching' \in CleanLaunches /\ launching'.pc = "token" /\ launching'.acct = a
    BY <1>1, <1>6 DEF CleanLaunches
  <2>2. FilesTyped /\ {steamUp', busy'} \subseteq BOOLEAN
    BY <1>1, <1>2, <1>6 DEF FilesTyped, CleanInd, CleanTypes
  <2>3. OneCleaner' /\ LaunchReadsLatest'
    BY <1>1, <1>3, <1>6, <2>1 DEF CleanInd, OneCleaner, LaunchReadsLatest
  <2>4. Planned => \A b \in Spared \ (run.written \cup {a}) :
           /\ b \in run.before.userdata => b \in userdata'
           /\ b \in run.before.residue => b \in residue'
           /\ b \in run.before.listed => b \in listed' /\ (launching'.pc = "list write" => b \in launching'.read)
           /\ b \in run.before.logins => b \in logins' /\ (launching'.pc = "token write" => b \in launching'.read)
    BY <1>1, <1>6, <2>1 DEF CleanInd, SparedKept
  <2> QED
    BY <1>1, <2>1, <2>2, <2>3, <2>4, WriterKeeps
<1>7. CASE /\ launching.pc = "token write" /\ launching' = NotLaunching
           /\ logins' = launching.read \cup {launching.acct}
           /\ readable' = TRUE /\ steamUp' = TRUE /\ UNCHANGED <<autoUser, listed>>
  <2>1. launching' \in CleanLaunches /\ launching'.pc = "none"
    BY <1>7 DEF CleanLaunches, NotLaunching
  <2>2. FilesTyped /\ {steamUp', busy'} \subseteq BOOLEAN
    BY <1>1, <1>2, <1>7 DEF FilesTyped, CleanInd, CleanTypes
  <2>3. OneCleaner' /\ LaunchReadsLatest'
    BY <1>1, <1>3, <1>7, <2>1 DEF CleanInd, OneCleaner, LaunchReadsLatest
  <2>4. Planned => \A b \in Spared \ (run.written \cup {a}) :
           /\ b \in run.before.userdata => b \in userdata'
           /\ b \in run.before.residue => b \in residue'
           /\ b \in run.before.listed => b \in listed' /\ (launching'.pc = "list write" => b \in launching'.read)
           /\ b \in run.before.logins => b \in logins' /\ (launching'.pc = "token write" => b \in launching'.read)
    BY <1>1, <1>7, <2>1 DEF CleanInd, SparedKept
  <2> QED
    BY <1>1, <2>1, <2>2, <2>3, <2>4, WriterKeeps
<1> QED
    BY <1>5, <1>6, <1>7 DEF LaunchStep

\* Only the launch goes on.
LEMMA LaunchMoves ==
    ASSUME CleanInd, UNCHANGED <<pcVars, profile, busy, run>>, keep' \in SUBSET Acct,
           steamUp' \in BOOLEAN, launching' \in CleanLaunches,
           launching'.pc # "none" => launching'.acct \in Acct, OneCleaner',
           launching'.pc = "list write" =>
               launching' = launching \/ launching'.read = listed,
           launching'.pc = "token write" =>
               launching' = launching \/ launching'.read = logins
    PROVE  CleanInd'
<1>1. Spared' = Spared /\ Todo' = Todo /\ Planned' = Planned /\ Step' = Step
    BY DEF Spared, Todo, Planned, Step
<1>2. CleanTypes'
    BY DEF CleanInd, CleanTypes, pcVars
<1>3. Saving' /\ PlanSpares' /\ LaunchReadsLatest'
    BY <1>1 DEF CleanInd, Saving, PlanSpares, LaunchReadsLatest, pcVars, Takes
<1>4. SparedKept'
    BY <1>1 DEF CleanInd, SparedKept, pcVars
<1>5. RestPlanned'
    BY <1>1 DEF CleanInd, RestPlanned, pcVars, Takes, File
<1> QED
    BY <1>2, <1>3, <1>4, <1>5 DEF CleanInd

LEMMA ToggleKeepKeeps ==
    ASSUME CleanInd, NEW a \in Acct, ToggleKeep(a) PROVE CleanInd'
<1>1. UNCHANGED <<pcVars, profile, busy, run, steamUp, launching>> /\ keep' \in SUBSET Acct
    BY DEF ToggleKeep, CleanInd, CleanTypes
<1>2. OneCleaner' /\ launching' \in CleanLaunches /\ steamUp' \in BOOLEAN
      /\ (launching'.pc # "none" => launching'.acct \in Acct)
    BY <1>1 DEF CleanInd, CleanTypes, OneCleaner
<1> QED
    BY <1>1, <1>2, LaunchMoves

LEMMA BeginLaunchKeeps ==
    ASSUME CleanInd, NEW a \in Acct, NEW minted \in BOOLEAN, BeginLaunch(a, minted) PROVE CleanInd'
<1>1. /\ UNCHANGED <<pcVars, profile, busy, run, steamUp, keep>>
      /\ launching.pc = "none" /\ ~(run.pc # "none" /\ run.by = "launch")
      /\ launching' = [pc |-> "down", acct |-> a, clean |-> ~busy, read |-> {}]
      /\ busy \in BOOLEAN /\ run \in Runs
    BY DEF BeginLaunch, CleanInd, CleanTypes, UiFreeToClean
<1>2. launching' \in CleanLaunches
    BY <1>1 DEF CleanLaunches
<1>3. launching'.pc = "down" /\ launching'.acct = a /\ (launching'.clean => ~busy)
    BY <1>1
<1>4. run.by \in {"worker", "launch"}
    BY <1>1 DEF Runs
<1>5. OneCleaner'
    BY <1>1, <1>3, <1>4 DEF CleanInd, OneCleaner
<1> QED
    BY <1>1, <1>2, <1>3, <1>5, LaunchMoves DEF CleanInd, CleanTypes

LEMMA LaunchDownKeeps ==
    ASSUME CleanInd, LaunchDown PROVE CleanInd'
<1>1. /\ UNCHANGED <<pcVars, profile, busy, keep>> /\ steamUp' = FALSE
      /\ launching.pc = "down" /\ launching \in CleanLaunches /\ launching.acct \in Acct
      /\ keep \in SUBSET Acct /\ profile \in Profiles
    BY DEF LaunchDown, CleanInd, CleanTypes
<1>2. CASE launching' = [launching EXCEPT !.pc = "auto"] /\ UNCHANGED run
  <2>1. launching' \in CleanLaunches /\ launching'.pc = "auto" /\ launching'.acct = launching.acct
    BY <1>1, <1>2 DEF CleanLaunches
  <2>2. OneCleaner'
    BY <1>1, <1>2, <2>1 DEF CleanInd, OneCleaner
  <2> QED
    BY <1>1, <1>2, <2>1, <2>2, LaunchMoves DEF CleanInd, CleanTypes
<1>3. CASE launching.clean /\ launching' = [launching EXCEPT !.pc = "cleaning"]
           /\ run' = Before("launch", profile)
  <2>1. launching' \in CleanLaunches /\ launching'.pc = "cleaning" /\ launching'.acct = launching.acct
    BY <1>1, <1>3 DEF CleanLaunches
  <2>2. NoRun \in Runs
    BY DEF NoRun, Runs, Profiles
  <2>3. run'.pc = "queued" /\ run'.by = "launch" /\ run' \in Runs
    <3>1. run' = [NoRun EXCEPT !.pc = "queued", !.by = "launch", !.keep = keep, !.profile = profile]
        BY <1>3 DEF Before
    <3> HIDE DEF NoRun
    <3> QED
        BY <1>1, <2>2, <3>1 DEF Runs
  <2>4. CleanTypes'
    BY <1>1, <2>1, <2>3 DEF CleanInd, CleanTypes, pcVars
  <2>5. OneCleaner' /\ LaunchReadsLatest'
    BY <1>1, <1>3, <2>1, <2>3 DEF CleanInd, OneCleaner, LaunchReadsLatest
  <2> QED
    BY <2>3, <2>4, <2>5, NotPlanned DEF CleanInd, Planned
<1> QED
    BY <1>2, <1>3 DEF LaunchDown

LEMMA LaunchReadsKeeps ==
    ASSUME CleanInd, LaunchReads PROVE CleanInd'
<1>1. /\ UNCHANGED <<pcVars, profile, busy, keep, steamUp, run>>
      /\ launching.pc \in {"list", "token"} /\ launching \in CleanLaunches /\ launching.acct \in Acct
      /\ listed \in SUBSET Acct /\ logins \in SUBSET Acct
    BY DEF LaunchReads, CleanInd, CleanTypes
<1>2. \/ launching' = [launching EXCEPT !.pc = "list write", !.read = listed]
      \/ launching' = [launching EXCEPT !.pc = "token write", !.read = logins]
    BY DEF LaunchReads, File
<1>3. /\ launching' \in CleanLaunches /\ launching'.acct = launching.acct
      /\ \/ launching'.pc = "list write" /\ launching'.read = listed
         \/ launching'.pc = "token write" /\ launching'.read = logins
    BY <1>1, <1>2 DEF CleanLaunches
<1>4. OneCleaner'
    BY <1>1, <1>3 DEF CleanInd, OneCleaner
<1> QED
    BY <1>1, <1>3, <1>4, LaunchMoves DEF CleanInd, CleanTypes

-------------------------------------------------------------------------------
LEMMA CleanStutters ==
    ASSUME CleanInd, UNCHANGED cleanVars PROVE CleanInd'
<1>1. UNCHANGED <<pcVars, profile, busy, run, steamUp, launching, keep>>
    BY DEF cleanVars
<1>2. OneCleaner' /\ launching' \in CleanLaunches /\ steamUp' \in BOOLEAN /\ keep' \in SUBSET Acct
      /\ (launching'.pc # "none" => launching'.acct \in Acct)
    BY <1>1 DEF CleanInd, CleanTypes, OneCleaner
<1> QED
    BY <1>1, <1>2, LaunchMoves

LEMMA CleanNextKeeps ==
    ASSUME CleanInd, CleanNext PROVE CleanInd'
<1>1. ASSUME NEW p \in {"quick", "reset", "full"}, RunAsync(p) PROVE CleanInd'
    BY <1>1, RunAsyncKeeps DEF Profiles
<1>2. CASE Build
    BY <1>2, BuildKeeps
<1>3. CASE CloseSteam
    BY <1>3, CloseSteamKeeps
<1>4. CASE ExecuteOne
    BY <1>4, ExecuteOneKeeps
<1>5. CASE SaveVdf
    BY <1>5, SaveVdfKeeps
<1>6. CASE AllDone
    BY <1>6, AllDoneKeeps
<1>7. CASE RunEnds
    BY <1>7, RunEndsKeeps
<1>8. ASSUME NEW a \in Acct, ToggleKeep(a) PROVE CleanInd'
    BY <1>8, ToggleKeepKeeps
<1>9. ASSUME NEW a \in Acct, SteamWrites(a) PROVE CleanInd'
    BY <1>9, SteamWritesKeeps
<1>10. ASSUME NEW a \in Acct, NEW minted \in BOOLEAN, BeginLaunch(a, minted) PROVE CleanInd'
    BY <1>10, BeginLaunchKeeps
<1>11. CASE LaunchDown
    BY <1>11, LaunchDownKeeps
<1>12. CASE LaunchReads
    BY <1>12, LaunchReadsKeeps
<1>13. CASE LaunchStep
    BY <1>13, LaunchStepKeeps
<1> QED
    BY <1>1, <1>2, <1>3, <1>4, <1>5, <1>6, <1>7, <1>8, <1>9, <1>10, <1>11, <1>12, <1>13 DEF CleanNext

\* What the invariant says of a run that is over.
LEMMA CleanIndIsEnough == CleanInd => CleanerInv
<1> SUFFICES ASSUME CleanInd PROVE CleanerInv
    OBVIOUS
<1>1. CleanTypeOK
    BY DEF CleanInd, CleanTypes, CleanTypeOK, Runs, CleanLaunches
<1>2. ASSUME run.pc = "end", run.plan = <<>> PROVE CleanIsExact
  <2>1. Planned /\ Todo = {}
    BY <1>2, EmptyPlan DEF Planned, Todo
  <2>2. \A a \in Spared \ run.written :
           /\ a \in run.before.listed => a \in listed
           /\ a \in run.before.logins => a \in logins
           /\ a \in run.before.userdata => a \in userdata
           /\ a \in run.before.residue => a \in residue
    BY <2>1 DEF CleanInd, SparedKept
  <2>3. run.profile # "quick" /\ ~run.failed /\ run.written = {} =>
           /\ listed \cup logins \subseteq run.keep
           /\ residue \subseteq run.keep
           /\ run.profile = "full" => userdata \subseteq run.keep
           /\ Spared # {} => autoUser \in run.keep \cup {Nobody}
    BY <2>1 DEF CleanInd, RestPlanned
  <2> QED
    BY <2>2, <2>3 DEF CleanIsExact
<1> QED
    BY <1>1, <1>2 DEF CleanerInv, CleanIsExact

\* The cleaner keeps its inductive invariant: what a spared account had is in
\* the files, and in every copy of them that will be written back; what an
\* unticked account has is in the plan.
THEOREM CleanAlways == CleanSpec => []CleanInd
<1>1. CleanInit => CleanInd
    BY CleanInitially
<1>2. CleanInd /\ [CleanNext]_cleanVars => CleanInd'
    BY CleanNextKeeps, CleanStutters
<1> QED
    BY <1>1, <1>2, PTL DEF CleanSpec

\* A run of the cleaner that went through its plan (execute.cpp:167) took what
\* its profile names of the unticked accounts and left the others what they had,
\* whatever was launched, edited or failed meanwhile.
THEOREM CleanSafe == CleanSpec => []CleanerInv
<1>1. CleanInd => CleanerInv
    BY CleanIndIsEnough
<1> QED
    BY <1>1, CleanAlways, PTL
================================================================================
