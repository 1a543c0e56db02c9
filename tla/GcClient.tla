------------------------------- MODULE GcClient -------------------------------
(***************************************************************************)
(* The CS2 game coordinator client (src/core/cs2_gc, src/core/steam_cm):   *)
(* one thread per connected account.                                       *)
(*                                                                         *)
(* The thread signs in to Steam and to the coordinator, then runs the      *)
(* commands its owner queued, in order.  Whatever it learns it hands to    *)
(* the UI thread as a callback, which the UI thread runs later; by then    *)
(* the owner may have retired the client, opened another unit or turned to *)
(* another account.  Retiring only sets a flag: the reaper waits for the   *)
(* thread, whose last callbacks still arrive.                              *)
(***************************************************************************)
EXTENDS Naturals, Sequences, FiniteSets

CONSTANTS
    GAcct, NoAcct,   \* accounts; none is chosen
    Unit, Inv,       \* storage units; the place of an item in none of them
    Item,
    MaxClients,      \* bound: clients ever started
    MaxPosts         \* bound: a thread posts while at most this many callbacks wait

ASSUME GcAssumption ==
    /\ IsFiniteSet(GAcct) /\ IsFiniteSet(Unit) /\ IsFiniteSet(Item)
    /\ NoAcct \notin GAcct /\ Inv \notin Unit

VARIABLES
    clients,   \* the clients started so far
    posts,     \* callbacks for the UI thread
    where,     \* where Steam keeps each item
    drop       \* the weekly drop on Steam: "locked", "ready" or "claimed"

gcVars == <<clients, posts, where, drop>>

kMaxAttempts == 3
Owner == {"screen", "pull", "val"}
\* CmSession::connect(): logged on, refused by Steam, or nobody answered.
LogonResult == {"ok", "refused", "none"}

\* What commands and callbacks name: an account, or an item and where it is listed.
Place == Unit \cup {Inv}
Named == {<<a>> : a \in GAcct} \cup (GAcct \X Place \X Item)
Commands == [op : {"refresh", "load", "in", "out", "claim", "pull"}, unit : Place, items : SUBSET Named]
Client == [acct : GAcct, owner : Owner, stop : BOOLEAN, tries : 0..kMaxAttempts,
           pc : {"signin", "logon", "ready", "gone"}, up : BOOLEAN, logon : LogonResult,
           redeemed : BOOLEAN, behind : BOOLEAN, cmds : Seq(Commands)]

\* The callbacks an owner passes; the others are empty.
Handlers(owner) ==
    CASE owner = "screen" -> {"status", "Ready", "snapshot", "contents", "error", "done", "claimed"}
      [] owner = "pull" -> {"Ready", "profile", "error", "profiles done"}
      [] owner = "val" -> {"logon", "Ready", "profile", "error", "profiles done"}
Callbacks == [to : Owner, acct : GAcct, kind : UNION {Handlers(o) : o \in Owner}, unit : Place,
              items : SUBSET Named, drop : {"locked", "ready", "claimed"}, logon : LogonResult]

GcInit ==
    /\ clients = <<>> /\ posts = <<>>
    /\ where \in [GAcct -> [Item -> Place]]
    /\ drop \in [GAcct -> {"locked", "ready"}]

GcTypeOK ==
    /\ clients \in Seq(Client) /\ posts \in Seq(Callbacks)
    /\ where \in [GAcct -> [Item -> Place]]
    /\ drop \in [GAcct -> {"locked", "ready", "claimed"}]
-----------------------------------------------------------------------------
(* What the owners do with a client, on the UI thread.                     *)

Started(a, owner) ==
    [acct |-> a, owner |-> owner, pc |-> "signin", tries |-> 0, up |-> FALSE, logon |-> "none",
     stop |-> FALSE, redeemed |-> FALSE, behind |-> FALSE, cmds |-> <<>>]
Start(cs, a, owner) == Append(cs, Started(a, owner))

\* retire(): 0 is the null pointer.
Retire(cs, c) == IF c = 0 THEN cs ELSE [cs EXCEPT ![c].stop = TRUE]

\* A set in any order.
Orders(S) == {s \in [1..Cardinality(S) -> S] : \A x \in S : \E i \in DOMAIN s : s[i] = x}

Command(op, unit, items) == [op |-> op, unit |-> unit, items |-> items]
Enqueue(cs, c, cmds) == [cs EXCEPT ![c].cmds = @ \o cmds]
-----------------------------------------------------------------------------
(* The thread.                                                             *)

\* A callback its owner passed, as a sequence; none if it passed none.
Callback(c, kind, unit, items) ==
    IF kind \notin Handlers(clients[c].owner) THEN <<>>
    ELSE <<[to |-> clients[c].owner, acct |-> clients[c].acct, kind |-> kind, unit |-> unit,
            items |-> items, drop |-> drop'[clients[c].acct], logon |-> clients[c].logon]>>
Plain(c, kind) == Callback(c, kind, Inv, {})

Post(cbs) == Len(posts) <= MaxPosts /\ posts' = posts \o cbs
\* The last callbacks of a thread; one that was told to stop ends in any case.
PostLast(c, cbs) == (clients[c].stop \/ Len(posts) <= MaxPosts) /\ posts' = posts \o cbs

\* A display item: the account and the place it was listed in.
Listed(a, place) == {<<a, place, i>> : i \in {j \in Item : where[a][j] = place}}
ListedNext(a, place) == {<<a, place, i>> : i \in {j \in Item : where'[a][j] = place}}

\* post_snapshot(): the items outside the units, and the drop.
Snapshot(c) == Callback(c, "snapshot", Inv, ListedNext(clients[c].acct, Inv))

\* GcSession::launch(): the coordinator welcomes, drops the session (somebody
\* else plays), or stays silent.
LaunchResult == {"welcome", "dropped", "silent"}

Attempt(c) ==
    LET me == clients[c] IN
    /\ me.pc = "signin" /\ ~me.stop
    /\ \E cm \in LogonResult, gc \in LaunchResult, loggedOff \in BOOLEAN :
         LET up == cm = "ok" /\ gc = "welcome"
             retry == ~up /\ (loggedOff \/ (cm = "ok" /\ gc = "dropped")) /\ me.tries + 1 < kMaxAttempts
         IN /\ loggedOff => ~up
            /\ clients' = [clients EXCEPT ![c].tries = @ + 1, ![c].up = up, ![c].logon = IF me.owner = "val" THEN cm ELSE "none",
                                          ![c].pc = IF retry THEN "signin" ELSE "logon"]
    /\ UNCHANGED <<where, drop>>
    /\ Post(Plain(c, "status"))

\* What the attempts left behind is not looked at any more.
InState(me, pc) == [me EXCEPT !.pc = pc, !.tries = 0, !.up = FALSE, !.logon = "none"]
Ended(me) == [InState(me, "gone") EXCEPT !.cmds = <<>>, !.behind = FALSE]

\* The loop is over, by an attempt or by stop.
LoggedOn(c) ==
    LET me == clients[c]
        logon == IF me.tries > 0 THEN Plain(c, "logon") ELSE <<>>
    IN
    /\ me.pc = "logon" \/ (me.pc = "signin" /\ me.stop)
    /\ UNCHANGED <<where, drop>>
    /\ clients' = [clients EXCEPT ![c] = IF me.up /\ ~me.stop THEN InState(me, "ready") ELSE Ended(me)]
    /\ PostLast(c, logon \o (CASE me.stop -> <<>>
                        [] ~me.stop /\ ~me.up -> Plain(c, "error")
                        [] OTHER -> Snapshot(c) \o Plain(c, "Ready")))

\* stop is seen before the next command; or pump() returns false, because the
\* connection is lost or of a stop.  The commands queued by then are dropped.
Leave(c) ==
    /\ clients[c].pc = "ready"
    /\ clients' = [clients EXCEPT ![c] = Ended(@)]
    /\ UNCHANGED <<where, drop>>
    /\ \/ clients[c].stop /\ PostLast(c, Plain(c, "status"))
       \/ PostLast(c, Plain(c, "error") \o Plain(c, "status"))

\* pump(): Steam said that something changed (so_seq).
Changed(c) ==
    /\ clients[c].pc = "ready" /\ ~clients[c].stop /\ clients[c].cmds = <<>> /\ clients[c].behind
    /\ clients' = [clients EXCEPT ![c].behind = FALSE]
    /\ UNCHANGED <<where, drop>>
    /\ Post(Snapshot(c))

Due(c, op) == clients[c].pc = "ready" /\ clients[c].cmds # <<>> /\ Head(clients[c].cmds).op = op
Taken(c, op) ==
    /\ Due(c, op)
    /\ clients' = [clients EXCEPT ![c].cmds = Tail(@)]

\* load_unit(): what arrived before the deadline, or the connection dropped.
LoadUnit(c) ==
    LET unit == Head(clients[c].cmds).unit IN
    /\ Taken(c, "load") /\ UNCHANGED <<where, drop>>
    /\ \/ \E got \in SUBSET Listed(clients[c].acct, unit) : Post(Callback(c, "contents", unit, got))
       \/ Post(Plain(c, "error"))

\* move_in(), move_out(): each item of the command moves if it is where the
\* command says and Steam agrees; a late answer is an error here and a move there.
MoveTo(c, from, to) ==
    LET a == clients[c].acct
        cmd == Head(clients[c].cmds)
        able == {i \in Item : (\E x \in cmd.items : x[3] = i) /\ where[a][i] = from}
    IN
    /\ UNCHANGED drop
    /\ \E moved \in SUBSET able :
         where' = [where EXCEPT ![a] = [i \in Item |-> IF i \in moved THEN to ELSE @[i]]]
    /\ Post(Snapshot(c) \o Plain(c, "done"))
MoveIn(c) == Taken(c, "in") /\ MoveTo(c, Inv, Head(clients[c].cmds).unit)
MoveOut(c) == Taken(c, "out") /\ MoveTo(c, Head(clients[c].cmds).unit, Inv)

\* redeem_free_reward(): Steam claims and says so, claims unheard, or does not.
ClaimReward(c) ==
    LET a == clients[c].acct IN
    /\ Due(c, "claim") /\ UNCHANGED where
    /\ \E taken, heard \in BOOLEAN :
         /\ taken => drop[a] = "ready"
         /\ heard => taken
         /\ drop' = IF taken THEN [drop EXCEPT ![a] = "claimed"] ELSE drop
         /\ clients' = [clients EXCEPT ![c].cmds = Tail(@), ![c].redeemed = @ \/ heard]
         /\ Post((IF heard THEN Plain(c, "claimed") \o Plain(c, "done") ELSE Plain(c, "error"))
                  \o Snapshot(c))

Refresh(c) == Taken(c, "refresh") /\ UNCHANGED <<where, drop>> /\ Post(Snapshot(c))

\* PullProfiles: only the profiles asked for, each at most once; a stop or a lost
\* connection cuts it short.
PullProfiles(c) ==
    LET asked == Head(clients[c].cmds).items IN
    /\ Taken(c, "pull") /\ UNCHANGED <<where, drop>>
    /\ \E got \in SUBSET asked :
         \E order \in Orders(got) :
           Post((IF "profile" \in Handlers(clients[c].owner)
                 THEN [i \in DOMAIN order |-> Callback(c, "profile", Inv, {order[i]})[1]] ELSE <<>>)
                \o Plain(c, "profiles done"))

\* The account ranks up in CS2.
RankUp(a) ==
    /\ drop[a] = "locked" /\ drop' = [drop EXCEPT ![a] = "ready"]
    /\ clients' = [c \in DOMAIN clients |->
                     [clients[c] EXCEPT !.behind = @ \/ (clients[c].acct = a /\ clients[c].pc = "ready")]]
    /\ UNCHANGED <<posts, where>>

Thread(c) ==
    \/ Attempt(c) \/ LoggedOn(c) \/ Leave(c) \/ Changed(c) \/ LoadUnit(c) \/ MoveIn(c) \/ MoveOut(c)
    \/ ClaimReward(c) \/ Refresh(c) \/ PullProfiles(c)
=============================================================================
