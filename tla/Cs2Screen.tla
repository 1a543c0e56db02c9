------------------------------ MODULE Cs2Screen ------------------------------
(***************************************************************************)
(* The CS2 screen (src/ui/screens/cs2_screen.cpp): one account at a time   *)
(* is connected, its storage units opened, items moved in and out of them, *)
(* and the weekly drop claimed.                                            *)
(*                                                                         *)
(* Every button queues a command for the client; every answer is a         *)
(* callback that finds the screen as it is when the UI thread runs it:     *)
(* perhaps of another account, without a client, or with another unit      *)
(* open.  Callbacks are bound to the account, not to the client.           *)
(*                                                                         *)
(* An account is removed on another screen while its client runs on.  The  *)
(* vault is locked when the user is idle (clear_session_secrets): the UI   *)
(* thread waits for the client's thread to end, then empties the vault,    *)
(* and callbacks run while it is locked too.                               *)
(***************************************************************************)
EXTENDS GcClient

CONSTANTS AutoMark,    \* settings.cs2_gc.auto_mark_claimed
          MaxPresses   \* bound: buttons pressed that queue a command

VARIABLES
    screen,     \* Cs2ScreenState of the selected account
    session,    \* the vault is "open", the screen is "closing", it is "locked"
    accounts,   \* accounts of the vault, loaded while it is open
    tokens,     \* those with a token for the client
    signing,    \* accounts a worker signs in for one
    marked,     \* weekly_drop_reset_unix is in the future
    recorded,   \* the claim is in the vault
    missed,     \* history: a claim's callback found no such account
    presses     \* buttons pressed so far

vaultVars == <<session, accounts, tokens, signing, marked, recorded, missed>>
cs2Vars == <<gcVars, screen, vaultVars, presses>>

Blank(a) ==
    [acct |-> a, client |-> 0, connected |-> FALSE, busy |-> FALSE, acquiring |-> FALSE,
     open |-> Inv, loading |-> FALSE, contents |-> {}, picked |-> {},
     items |-> {}, pickedInv |-> {}, drop |-> "unknown"]

ScreenInit ==
    /\ screen = Blank(NoAcct) /\ tokens \in SUBSET GAcct /\ signing = {}
    /\ session = "open" /\ accounts = GAcct
    /\ marked = {} /\ recorded = {} /\ missed = {} /\ presses = 0

ScreenTypeOK ==
    /\ screen.acct \in GAcct \cup {NoAcct} /\ screen.client \in 0..Len(clients)
    /\ session \in {"open", "closing", "locked"} /\ accounts \cup signing \cup missed \subseteq GAcct
    /\ tokens \cup marked \cup recorded \subseteq accounts
-----------------------------------------------------------------------------
(* The user.                                                               *)

\* find_account: a locked vault has none.
Found(a) == session = "open" /\ a \in accounts

\* Another account, or none, or the one of the screen is gone: the client is
\* retired and the state starts over.
PickAccount(a) ==
    /\ a # screen.acct /\ (Found(a) \/ (a = NoAcct /\ session = "open"))
    /\ clients' = Retire(clients, screen.client) /\ screen' = Blank(a)
    /\ UNCHANGED <<posts, where, drop, vaultVars, presses>>

\* "Set up CS2 sign-in": a worker signs in; its answer is for the account.
PressSetUp ==
    /\ Found(screen.acct) /\ screen.acct \notin tokens /\ ~screen.acquiring
    /\ screen' = [screen EXCEPT !.acquiring = TRUE] /\ signing' = signing \cup {screen.acct}
    /\ UNCHANGED <<gcVars, session, accounts, tokens, marked, recorded, missed, presses>>
SetUpDone(a) ==
    /\ session # "closing" /\ a \in signing /\ signing' = signing \ {a}
    /\ \/ tokens' = tokens
       \/ Found(a) /\ tokens' = tokens \cup {a}
    /\ screen' = IF screen.acct = a THEN [screen EXCEPT !.acquiring = FALSE] ELSE screen
    /\ UNCHANGED <<gcVars, session, accounts, marked, recorded, missed, presses>>

\* start_client(): neither the busy and loading flags nor the selections are reset.
Connect ==
    /\ Found(screen.acct) /\ screen.acct \in tokens /\ screen.client = 0 /\ Len(clients) < MaxClients
    /\ clients' = Start(clients, screen.acct, "screen")
    /\ screen' = [screen EXCEPT !.client = Len(clients) + 1, !.connected = FALSE, !.open = Inv,
                                !.contents = {}, !.items = {}, !.drop = "unknown"]
    /\ UNCHANGED <<posts, where, drop, vaultVars, presses>>

Disconnect ==
    /\ Found(screen.acct) /\ screen.client # 0
    /\ clients' = Retire(clients, screen.client)
    /\ screen' = [screen EXCEPT !.client = 0, !.connected = FALSE]
    /\ UNCHANGED <<posts, where, drop, vaultVars, presses>>

\* The cards are drawn while the screen is connected.
Shown == Found(screen.acct) /\ screen.acct \in tokens /\ screen.client # 0 /\ screen.connected
Queue(cmds) ==
    /\ Shown /\ presses < MaxPresses /\ presses' = presses + 1
    /\ clients' = Enqueue(clients, screen.client, cmds)
    /\ UNCHANGED <<posts, where, drop, vaultVars>>

PressRefresh == Queue(<<Command("refresh", Inv, {})>>) /\ UNCHANGED screen

OpenUnit(u) ==
    /\ screen.open = Inv /\ screen.drop # "unknown"
    /\ Queue(<<Command("load", u, {})>>)
    /\ screen' = [screen EXCEPT !.open = u, !.contents = {}, !.loading = TRUE, !.picked = {}]

CloseUnit ==
    /\ Shown /\ screen.open # Inv
    /\ screen' = [screen EXCEPT !.open = Inv, !.contents = {}, !.picked = {}]
    /\ UNCHANGED <<gcVars, vaultVars, presses>>

Toggled(S, x) == IF x \in S THEN S \ {x} ELSE S \cup {x}

\* A tile of the unit's grid, or of the inventory's.
PickItem(x) ==
    /\ Shown /\ screen.open # Inv /\ ~screen.loading
    /\ screen' = [screen EXCEPT !.picked = Toggled(@, x)]
    /\ UNCHANGED <<gcVars, vaultVars, presses>>
PickInventory(x) ==
    /\ Shown
    /\ screen' = [screen EXCEPT !.pickedInv = Toggled(@, x)]
    /\ UNCHANGED <<gcVars, vaultVars, presses>>

\* The unit is loaded again after the move.
PressMoveOut ==
    /\ screen.open # Inv /\ ~screen.loading /\ screen.contents # {} /\ ~screen.busy /\ screen.picked # {}
    /\ Queue(<<Command("out", screen.open, screen.picked), Command("load", screen.open, {})>>)
    /\ screen' = [screen EXCEPT !.busy = TRUE, !.picked = {}, !.loading = TRUE]
PressStore ==
    /\ screen.items # {} /\ ~screen.busy /\ screen.pickedInv # {} /\ screen.open # Inv
    /\ Queue(<<Command("in", screen.open, screen.pickedInv), Command("load", screen.open, {})>>)
    /\ screen' = [screen EXCEPT !.busy = TRUE, !.pickedInv = {}, !.loading = TRUE]

PressClaim ==
    /\ screen.drop = "ready" /\ ~screen.busy
    /\ Queue(<<Command("claim", Inv, {})>>)
    /\ screen' = [screen EXCEPT !.busy = TRUE]

\* On the accounts screen; the CS2 screen finds out when it is drawn again.
RemoveAccount(a) ==
    /\ Found(a) /\ accounts' = accounts \ {a}
    /\ tokens' = tokens \ {a} /\ marked' = marked \ {a} /\ recorded' = recorded \ {a}
    /\ UNCHANGED <<gcVars, screen, session, signing, missed, presses>>

\* clear_session_secrets(): the client is told to stop and its thread joined.
CloseScreen ==
    /\ session = "open" /\ session' = "closing"
    /\ clients' = Retire(clients, screen.client)
    /\ UNCHANGED <<posts, where, drop, screen, accounts, tokens, signing, marked, recorded, missed, presses>>

\* The thread is gone: lock_vault() empties the vault; privacy mode does not.
ScreenClosed ==
    /\ session = "closing" /\ session' \in {"locked", "open"}
    /\ screen.client # 0 => clients[screen.client].pc = "gone"
    /\ screen' = Blank(NoAcct)
    /\ UNCHANGED <<gcVars, accounts, tokens, signing, marked, recorded, missed, presses>>

Unlock ==
    /\ session = "locked" /\ session' = "open"
    /\ UNCHANGED <<gcVars, screen, accounts, tokens, signing, marked, recorded, missed, presses>>
-----------------------------------------------------------------------------
(* The callbacks.                                                          *)

\* Mutant: the account is not compared.
IsFor_mutant(p) == screen.acct # NoAcct
IsFor(p) == screen.acct = p.acct
OfOpenUnit(p) == screen.open = p.unit

Answered(p) ==
    CASE p.kind = "status" -> [screen EXCEPT !.connected = FALSE]
      [] p.kind = "Ready" -> [screen EXCEPT !.connected = TRUE]
      [] p.kind = "snapshot" -> [screen EXCEPT !.items = p.items, !.drop = p.drop]
      [] p.kind = "contents" -> [screen EXCEPT !.loading = FALSE,
                                               !.contents = IF OfOpenUnit(p) THEN p.items ELSE @]
      [] p.kind = "error" -> [screen EXCEPT !.busy = FALSE, !.loading = FALSE]
      [] p.kind = "done" -> [screen EXCEPT !.busy = FALSE]

\* A snapshot without a drop to claim sets or clears the account's mark.
MarkBy(p) ==
    IF p.kind = "snapshot" /\ Found(p.acct) /\ AutoMark /\ p.drop # "ready"
    THEN IF p.drop = "claimed" THEN marked \cup {p.acct} ELSE marked \ {p.acct}
    ELSE marked

\* on_reward_claimed goes to the vault whatever the screen shows, if the account
\* is still found there.
\* Mutant: it is dropped like the others when the screen has moved on.
Records_mutant(p) == Found(p.acct) /\ IsFor(p)
Records(p) == Found(p.acct)

ApplyScreen ==
    LET p == Head(posts) IN
    /\ session # "closing"
    /\ posts # <<>> /\ posts' = Tail(posts)
    /\ IF p.kind = "claimed"
       THEN /\ UNCHANGED screen
            /\ recorded' = IF Records(p) THEN recorded \cup {p.acct} ELSE recorded
            /\ marked' = IF Records(p) THEN marked \cup {p.acct} ELSE marked
            /\ missed' = IF Found(p.acct) THEN missed ELSE missed \cup {p.acct}
       ELSE /\ screen' = IF IsFor(p) THEN Answered(p) ELSE screen
            /\ marked' = IF IsFor(p) THEN MarkBy(p) ELSE marked
            /\ UNCHANGED <<recorded, missed>>
    /\ UNCHANGED <<clients, where, drop, session, accounts, tokens, signing, presses>>

ScreenNext ==
    \/ \E a \in GAcct \cup {NoAcct} : PickAccount(a)
    \/ PressSetUp \/ Connect \/ Disconnect \/ PressRefresh \/ CloseUnit
    \/ CloseScreen \/ ScreenClosed \/ Unlock
    \/ \E a \in GAcct : SetUpDone(a) \/ RemoveAccount(a)
    \/ \E u \in Unit : OpenUnit(u)
    \/ \E x \in screen.contents : PickItem(x)
    \/ \E x \in screen.items : PickInventory(x)
    \/ PressMoveOut \/ PressStore \/ PressClaim \/ ApplyScreen
    \/ (\E c \in DOMAIN clients : Thread(c)) /\ UNCHANGED <<screen, vaultVars, presses>>
    \/ (\E a \in GAcct : RankUp(a)) /\ UNCHANGED <<screen, vaultVars, presses>>

ScreenSpec == GcInit /\ ScreenInit /\ [][ScreenNext]_cs2Vars
-----------------------------------------------------------------------------
\* What is shown as the content of the open unit was loaded from that unit of
\* that account, however late it arrives, and so every move out of a unit names
\* items of the unit and goes to a client of the account.
ContentsAreTheUnits ==
    /\ \A x \in screen.contents : x[1] = screen.acct /\ x[2] = screen.open
    /\ \A c \in DOMAIN clients : \A i \in DOMAIN clients[c].cmds :
         LET cmd == clients[c].cmds[i]
         IN \A x \in cmd.items : cmd.op = "out" => x[1] = clients[c].acct /\ x[2] = cmd.unit

\* A claim that Steam confirmed to the client is in the vault or on its way
\* there, whatever the screen shows by then, and no account is marked as claimed
\* whose drop is not.  It is lost with an account that is removed, and when its
\* callback runs while the vault is locked: on_reward_claimed finds no account
\* then, and returns.
ClaimIsRemembered ==
    /\ \A a \in recorded \cup marked : drop[a] = "claimed"
    /\ \A c \in DOMAIN clients : clients[c].redeemed =>
         \/ clients[c].acct \in recorded \cup missed
         \/ clients[c].acct \notin accounts
         \/ \E i \in DOMAIN posts : posts[i].kind = "claimed" /\ posts[i].acct = clients[c].acct

\* Types, and what the screen shows of a unit is that unit's.
Cs2Inv == GcTypeOK /\ ScreenTypeOK /\ ContentsAreTheUnits
=============================================================================
