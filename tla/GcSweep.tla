------------------------------- MODULE GcSweep -------------------------------
(***************************************************************************)
(* What uses the CS2 client in the background (src/app/cs2_autopull.cpp):  *)
(* the auto-pull connects one account, the puller, and asks it for the     *)
(* profiles of all the others, trying the next candidate when one cannot   *)
(* connect; the validation connects NFA accounts one after the other to    *)
(* learn whether their tokens still work.                                  *)
(*                                                                         *)
(* Each keeps one record, which a tick of the frame loop moves on, and one *)
(* client.  The client is retired and the record goes on with the next     *)
(* account, while callbacks of the retired client are still to come.       *)
(*                                                                         *)
(* Left out: accounts removed, or the vault locked, during a sweep.  The   *)
(* callbacks and ticks then find no account: they skip it or return.       *)
(***************************************************************************)
EXTENDS GcClient

CONSTANT MaxSweeps   \* bound: sweeps started

VARIABLES
    pull,     \* GcAutoPull
    val,      \* GcValidate
    token,    \* accounts with a valid token for the client
    signin,   \* accounts acquire_cm_token is at work for
    cache,    \* whose profile an account shows
    nfa,      \* nfa_status; "full" for an account that is not is_nfa
    sweeps    \* sweeps started so far

sweepVars == <<gcVars, pull, val, token, signin, cache, nfa, sweeps>>

NoPull == [active |-> FALSE, phase |-> "Idle", cands |-> <<>>, idx |-> 1, puller |-> NoAcct,
           targets |-> {}, pending |-> FALSE, ok |-> FALSE, connected |-> FALSE, done |-> FALSE,
           client |-> 0]
NoVal == [active |-> FALSE, queue |-> <<>>, idx |-> 1, current |-> NoAcct, connected |-> FALSE,
          issued |-> FALSE, logonSeen |-> FALSE, logon |-> "none", finished |-> FALSE, client |-> 0]

Nfa == {a \in GAcct : nfa[a] # "full"}

SweepInit ==
    /\ nfa \in [GAcct -> {"full", "Unknown"}] /\ token \in {T \in SUBSET GAcct : Nfa \subseteq T}
    /\ pull = NoPull /\ val = NoVal /\ signin = {}
    /\ cache = [a \in GAcct |-> NoAcct] /\ sweeps = 0

SweepTypeOK ==
    /\ pull.client \in 0..Len(clients) /\ val.client \in 0..Len(clients)
    /\ pull.phase \in {"Idle", "SigningIn", "Connecting", "Pulling"}
    /\ token \cup signin \subseteq GAcct /\ nfa \in [GAcct -> {"full", "Unknown", "Valid", "Revoked"}]
-----------------------------------------------------------------------------
(* The auto-pull.                                                          *)

kMaxPullerAttempts == 3

\* build_puller_candidates(): full accounts that are ready, full accounts to be
\* signed in, NFA accounts that are ready.
Candidates ==
    {x \o y \o z : x \in Orders((GAcct \ Nfa) \cap token), y \in Orders((GAcct \ Nfa) \ token),
                   z \in Orders(Nfa \cap token)}

EndedPull(p) == [p EXCEPT !.active = FALSE, !.phase = "Idle", !.connected = FALSE, !.pending = FALSE,
                          !.client = 0]

\* start_puller(), begin_connect(): the candidate signs in, or connects.
StartPuller(p, cs) ==
    LET a == p.cands[p.idx]
        q == [p EXCEPT !.puller = a, !.connected = FALSE, !.done = FALSE]
    IN IF a \notin token
       THEN /\ pull' = [q EXCEPT !.phase = "SigningIn", !.pending = TRUE, !.ok = FALSE]
            /\ signin' = signin \cup {a} /\ clients' = cs
       ELSE /\ pull' = [q EXCEPT !.phase = "Connecting", !.client = Len(cs) + 1]
            /\ clients' = Start(cs, a, "pull") /\ UNCHANGED signin

AdvancePuller ==
    LET p == [pull EXCEPT !.client = 0, !.connected = FALSE, !.pending = FALSE, !.done = FALSE,
                          !.idx = @ + 1]
        cs == Retire(clients, pull.client)
    IN IF p.idx > Len(p.cands) \/ p.idx > kMaxPullerAttempts
       THEN pull' = EndedPull(p) /\ clients' = cs /\ UNCHANGED signin
       ELSE StartPuller(p, cs)

Room == Len(clients) < MaxClients
Begins == Room /\ sweeps < MaxSweeps /\ sweeps' = sweeps + 1
Untouched == UNCHANGED <<posts, where, drop, cache>>

\* start_gc_autopull(): the full accounts whose data is old.
StartPull ==
    /\ ~pull.active /\ Begins
    /\ \E targets \in (SUBSET (GAcct \ Nfa)) \ {{}}, cands \in Candidates :
         /\ cands # <<>>
         /\ StartPuller([NoPull EXCEPT !.active = TRUE, !.targets = targets, !.cands = cands],
                        Retire(clients, pull.client))
    /\ Untouched /\ UNCHANGED <<val, token, nfa>>

\* The worker's answer counts for the puller that asked.
TokenMinted(a) ==
    /\ a \in signin /\ signin' = signin \ {a}
    /\ \E ok \in BOOLEAN :
         /\ token' = IF ok THEN token \cup {a} ELSE token
         /\ pull' = IF pull.active /\ pull.puller = a
                    THEN [pull EXCEPT !.pending = FALSE, !.ok = ok] ELSE pull
    /\ Untouched /\ UNCHANGED <<clients, val, nfa, sweeps>>

\* tick_gc_autopull().  A time-out may strike while nothing is known yet.
TickSigningIn ==
    /\ pull.active /\ pull.phase = "SigningIn" /\ Room
    /\ IF ~pull.pending /\ pull.ok THEN StartPuller(pull, clients) ELSE AdvancePuller
    /\ Untouched /\ UNCHANGED <<val, token, nfa, sweeps>>
TickConnecting ==
    /\ pull.active /\ pull.phase = "Connecting"
    /\ IF pull.connected
       THEN /\ clients' = Enqueue(clients, pull.client, <<Command("pull", Inv, {<<a>> : a \in pull.targets})>>)
            /\ pull' = [pull EXCEPT !.phase = "Pulling"] /\ UNCHANGED signin
       ELSE Room /\ AdvancePuller
    /\ Untouched /\ UNCHANGED <<val, token, nfa, sweeps>>
TickPulling ==
    /\ pull.active /\ pull.phase = "Pulling"
    /\ clients' = Retire(clients, pull.client) /\ pull' = EndedPull(pull)
    /\ Untouched /\ UNCHANGED <<val, token, signin, nfa, sweeps>>

CancelPull ==
    /\ pull.active \/ pull.client # 0
    /\ clients' = Retire(clients, pull.client) /\ pull' = EndedPull(pull)
    /\ Untouched /\ UNCHANGED <<val, token, signin, nfa, sweeps>>
-----------------------------------------------------------------------------
(* The validation.                                                         *)

BeginValidate(v, cs) ==
    /\ val' = [v EXCEPT !.current = v.queue[v.idx], !.connected = FALSE, !.issued = FALSE,
                        !.logonSeen = FALSE, !.logon = "none", !.finished = FALSE,
                        !.client = Len(cs) + 1]
    /\ clients' = Start(cs, v.queue[v.idx], "val")

\* collect_nfa_validate_ids(): NFA accounts that are due.
Fresh(queue) == [NoVal EXCEPT !.active = TRUE, !.queue = queue]
StartValidate ==
    /\ ~val.active /\ Begins
    /\ \E S \in (SUBSET Nfa) \ {{}} : \E queue \in Orders(S) :
         BeginValidate(Fresh(queue), Retire(clients, val.client))
    /\ Untouched /\ UNCHANGED <<pull, token, signin, nfa>>

\* start_gc_validate_feed(): "Refresh all" takes over from a sweep under way.
FeedValidate(queue) == BeginValidate(Fresh(queue), Retire(clients, val.client))
StartFeed ==
    /\ Begins
    /\ \E S \in (SUBSET Nfa) \ {{}} : \E queue \in Orders(S) : FeedValidate(queue)
    /\ Untouched /\ UNCHANGED <<pull, token, signin, nfa>>

QueueValidate(a) ==
    /\ Begins
    /\ IF val.active
       THEN /\ \A i \in DOMAIN val.queue : val.queue[i] # a
            /\ val' = [val EXCEPT !.queue = Append(@, a)] /\ UNCHANGED clients
       ELSE BeginValidate(Fresh(<<a>>), clients)
    /\ Untouched /\ UNCHANGED <<pull, token, signin, nfa>>

\* tick_gc_validate(): the stagger is over.
TickNext ==
    /\ val.active /\ val.client = 0 /\ Room
    /\ BeginValidate(val, clients)
    /\ Untouched /\ UNCHANGED <<pull, token, signin, nfa, sweeps>>
TickIssue ==
    /\ val.active /\ val.client # 0 /\ val.connected /\ ~val.issued
    /\ clients' = Enqueue(clients, val.client, <<Command("pull", Inv, {<<val.current>>})>>)
    /\ val' = [val EXCEPT !.issued = TRUE]
    /\ Untouched /\ UNCHANGED <<pull, token, signin, nfa, sweeps>>

\* The verdict; without an answer to the logon the status stays.
Verdict(v) ==
    CASE v.logonSeen /\ v.logon = "ok" -> "Valid"
      [] v.logonSeen /\ v.logon = "refused" -> "Revoked"
      [] OTHER -> nfa[v.current]

\* advance_validate(), finished or timed out.
TickFinish ==
    /\ val.active /\ val.client # 0
    /\ nfa' = [nfa EXCEPT ![val.current] = Verdict(val)]
    /\ clients' = Retire(clients, val.client)
    /\ val' = [val EXCEPT !.client = 0, !.connected = FALSE, !.issued = FALSE, !.idx = @ + 1,
                          !.active = val.idx < Len(val.queue)]
    /\ Untouched /\ UNCHANGED <<pull, token, signin, sweeps>>

CancelValidate ==
    /\ val.active \/ val.client # 0
    /\ clients' = Retire(clients, val.client)
    /\ val' = [val EXCEPT !.active = FALSE, !.client = 0]
    /\ Untouched /\ UNCHANGED <<pull, token, signin, nfa, sweeps>>
-----------------------------------------------------------------------------
(* The callbacks.                                                          *)

\* apply_gc_snapshot_cache()
Shows(a, p) == [cache EXCEPT ![a] = (CHOOSE x \in p.items : TRUE)[1]]

PullCallback(p) ==
    /\ UNCHANGED val
    /\ pull' = CASE p.kind = "Ready" -> [pull EXCEPT !.connected = TRUE]
                 [] p.kind \in {"profiles done", "error"} -> [pull EXCEPT !.done = TRUE]
                 [] OTHER -> pull
    /\ cache' = IF p.kind = "profile" /\ \E a \in pull.targets : p.items = {<<a>>}
                THEN Shows(CHOOSE a \in pull.targets : p.items = {<<a>>}, p) ELSE cache

\* Mutant: whatever profile comes is taken for the current account's.
OfCurrent_mutant(p) == TRUE
OfCurrent(p) == p.items = {<<val.current>>}

ValCallback(p) ==
    /\ UNCHANGED pull
    /\ val' = CASE p.kind = "logon" -> [val EXCEPT !.logonSeen = TRUE, !.logon = p.logon]
                [] p.kind = "Ready" -> [val EXCEPT !.connected = TRUE]
                [] p.kind \in {"profiles done", "error"} -> [val EXCEPT !.finished = TRUE]
                [] OTHER -> val
    /\ cache' = IF p.kind = "profile" /\ OfCurrent(p) THEN Shows(val.current, p) ELSE cache

ApplySweep ==
    LET p == Head(posts) IN
    /\ posts # <<>> /\ posts' = Tail(posts)
    /\ CASE p.to = "pull" /\ pull.active -> PullCallback(p)
         [] p.to = "val" /\ val.active -> ValCallback(p)
         [] OTHER -> UNCHANGED <<pull, val, cache>>
    /\ UNCHANGED <<clients, where, drop, token, signin, nfa, sweeps>>

SweepNext ==
    \/ StartPull \/ TickSigningIn \/ TickConnecting \/ TickPulling \/ CancelPull
    \/ \E a \in GAcct : TokenMinted(a)
    \/ StartValidate \/ StartFeed \/ TickNext \/ TickIssue \/ TickFinish \/ CancelValidate
    \/ \E a \in Nfa : QueueValidate(a)
    \/ ApplySweep
    \/ (\E c \in DOMAIN clients : Thread(c)) /\ UNCHANGED <<pull, val, token, signin, cache, nfa, sweeps>>

SweepSpec == GcInit /\ SweepInit /\ [][SweepNext]_sweepVars
-----------------------------------------------------------------------------
\* A profile is kept for the account it is of, although callbacks of a retired
\* client come while the sweep is at another account already; and whatever
\* starts, replaces or cancels a sweep, every client they still have running belongs
\* to the auto-pull or to the validation: none is left connected to Steam, and none is
\* destroyed by the UI thread, which would wait for it.
SweepsAreClean ==
    /\ \A a \in GAcct : cache[a] \in {a, NoAcct}
    /\ \A c \in DOMAIN clients :
         clients[c].owner # "screen" /\ ~clients[c].stop => c \in {pull.client, val.client}

\* Types, and no sweep writes what its account did not answer.
SweepInv == SweepTypeOK /\ SweepsAreClean
=============================================================================
