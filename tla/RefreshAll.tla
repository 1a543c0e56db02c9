------------------------------ MODULE RefreshAll ------------------------------
(***************************************************************************)
(* "Refresh all" (app_state_refresh.cpp, cs2_autopull.cpp): one bulk web    *)
(* request, then a staggered fetch of every account that has a web session, *)
(* beside a GC login of every NFA account, all counted by one pair of       *)
(* counters, refresh_all_done of refresh_all_total.  Everything below runs  *)
(* on the UI thread, in frames or in results posted to it; what is pending  *)
(* in workers is what the frames still have to hear of.  A web API key is   *)
(* set and the CS2 GC is enabled: without them the operations return.       *)
(***************************************************************************)
EXTENDS Naturals, Sequences, FiniteSets, SequencesExt

CONSTANTS Full,      \* accounts with a web session
          Nfa,       \* accounts known by a client token only
          Handled,   \* bound: accounts the user refreshes, validates or imports by hand
          Removable, \* bound: accounts the user may remove
          MaxCalls,  \* bound: callbacks outstanding for one account
          MaxWeb     \* bound: bulk web requests outstanding

ASSUME Kinds == Full \cap Nfa = {} /\ Handled \cup Removable \subseteq Full \cup Nfa
ASSUME Finite == IsFiniteSet(Full) /\ IsFiniteSet(Nfa)
ASSUME Bounds == MaxCalls \in Nat \ {0} /\ MaxWeb \in Nat \ {0}

Accounts == Full \cup Nfa

VARIABLES
    headless, \* AppState::headless: the --startup run, without a user or a frame loop
    unlocked, \* AppState::unlocked
    vault,    \* the accounts in the vault
    total,    \* refresh_all_total
    done,     \* refresh_all_done
    webDone,  \* refresh_web_phase_done
    web,      \* the bulk web requests under way, each with the gcpd_ids to go on with
    calls,    \* calls[a]: refresh_single_account(a, batch) callbacks not yet applied
    fetch,    \* fetch[a]: the fetch of a under way ("batch", "single") or "no"
    recent,   \* accounts whose last_refresh_unix is less than 30 seconds old
    val,      \* GcValidate
    dropped   \* while counting, some account of a batch left uncounted (history)

vars == <<headless, unlocked, vault, total, done, webDone, web, calls, fetch, recent, val, dropped>>
counters == <<total, done>>
userVars == <<headless, unlocked, vault>>

\* What find_account can find: lock_vault empties the vault.
Present == IF unlocked THEN vault ELSE {}

Idle == [active |-> FALSE, feed |-> FALSE, queue |-> <<>>, idx |-> 1, client |-> FALSE]

Init ==
    /\ headless \in BOOLEAN
    /\ unlocked = TRUE
    /\ vault = Accounts
    /\ total = 0 /\ done = 0
    /\ webDone = FALSE /\ web = <<>>
    /\ calls = [a \in Accounts |-> 0]
    /\ fetch = [a \in Accounts |-> "no"]
    /\ recent = {}
    /\ val = Idle
    /\ dropped = FALSE

-------------------------------------------------------------------------------
(* The shared counters. *)

\* A slip: the last account leaves the counters as they are.
NoReset_mutant == done' = done + 1 /\ UNCHANGED total

\* One more account is finished; the last one resets the counters.
Bump ==
    IF done + 1 >= total
    THEN total' = 0 /\ done' = 0
    ELSE done' = done + 1 /\ UNCHANGED total

-------------------------------------------------------------------------------
(* GcValidate. *)

\* advance_validate(): the counters move if this sweep feeds them, and the sweep
\* ends after its last account.
Advance(v) ==
    IF v.idx < Len(v.queue) THEN [v EXCEPT !.client = FALSE, !.idx = @ + 1] ELSE Idle

\* begin_validate(): connects as the next account, or passes over one that is gone.
Begin(v) == IF v.queue[v.idx] \in Present THEN [v EXCEPT !.client = TRUE] ELSE Advance(v)

Sweep(ids, feed) ==
    [active |-> TRUE, feed |-> feed, queue |-> ids, idx |-> 1, client |-> TRUE]

\* tick_gc_validate(): the stagger is over and the next account begins ...
ValidateNext ==
    /\ ~headless
    /\ val.active /\ ~val.client
    /\ val' = Begin(val)
    /\ IF val.feed /\ val.queue[val.idx] \notin Present THEN Bump ELSE UNCHANGED counters
    /\ UNCHANGED <<userVars, webDone, web, calls, fetch, recent, dropped>>

\* ... or the account connected to has its result, or has timed out.
ValidateEnds ==
    /\ ~headless
    /\ val.active /\ val.client
    /\ val' = Advance(val)
    /\ IF val.feed THEN Bump ELSE UNCHANGED counters
    /\ UNCHANGED <<userVars, webDone, web, calls, fetch, recent, dropped>>

\* start_gc_validate(): the accounts that are due, unless a sweep is active.
StartValidate ==
    IF val.active THEN UNCHANGED val
    ELSE \E ids \in SUBSET (Present \cap Nfa) :
            val' = IF ids = {} THEN Idle ELSE Sweep(SetToSeq(ids), FALSE)

\* queue_gc_validate(): one account, added to the sweep under way or alone.
QueueValidate(a) ==
    val' = IF a \notin Nfa \/ a \in ToSet(val.queue) THEN val
           ELSE IF val.active THEN [val EXCEPT !.queue = Append(@, a)]
           ELSE Sweep(<<a>>, FALSE)

\* "Refresh GC", or the timer while a refresh is under way.
RefreshGcAll ==
    /\ ~headless
    /\ StartValidate
    /\ UNCHANGED <<userVars, counters, webDone, web, calls, fetch, recent, dropped>>

\* "Validate token" in an account's menu.
ValidateOne(a) ==
    /\ ~headless
    /\ a \in Present \cap Nfa \cap Handled
    /\ QueueValidate(a)
    /\ UNCHANGED <<userVars, counters, webDone, web, calls, fetch, recent, dropped>>

-------------------------------------------------------------------------------
(* refresh_account_data and what follows it. *)

\* post_gcpd_sweep() and refresh_accounts_staggered(): a worker posts one call
\* per account.
CallsFor(ids) == [a \in Accounts |-> calls[a] + (IF a \in ids THEN 1 ELSE 0)]

\* A slip: the denominator counts the GC logins alone.
ArmNfaOnly_mutant(full, nfa) == total' = Cardinality(nfa) /\ done' = 0

Arm(full, nfa) == total' = Cardinality(full) + Cardinality(nfa) /\ done' = 0

\* A refresh starts with the accounts out of the cache window: webIds tells if any
\* is due for the bulk request.
StartRefresh(full, nfa, webIds) ==
    /\ Arm(full, nfa)
    /\ val' = IF nfa = {} THEN val ELSE Sweep(SetToSeq(nfa), TRUE)
    /\ dropped' = FALSE
    /\ IF webIds
       THEN webDone' = FALSE /\ web' = Append(web, full) /\ UNCHANGED calls
       ELSE webDone' = TRUE /\ calls' = CallsFor(full) /\ UNCHANGED web

\* Nothing is due: done at once.
NothingDue ==
    /\ webDone' = TRUE
    /\ total' = 0
    /\ UNCHANGED <<done, val, web, calls, dropped>>

\* startup_refresh_complete(), tested after every drain of the headless run.
Complete == webDone /\ (total = 0 \/ done >= total)
Leaving == headless /\ Complete

\* refresh_account_data(), from the button, a timer, unlocking, or a second
\* process; it returns while the counters are in use.
RefreshAccountData ==
    /\ total = 0 /\ ~Leaving
    /\ Len(web) < MaxWeb
    /\ \A a \in Accounts : calls[a] < MaxCalls
    /\ \E full \in SUBSET (Present \cap Full), nfa \in SUBSET (Present \cap Nfa), webIds \in BOOLEAN :
          /\ headless => nfa = {}
          /\ webIds => Present # {}
          /\ IF full = {} /\ nfa = {} /\ ~webIds THEN NothingDue
             ELSE StartRefresh(full, nfa, webIds)
    /\ UNCHANGED <<userVars, fetch, recent>>

\* A slip: the result is applied, and no sweep begins.
NoSweep_mutant ==
    /\ web # <<>>
    /\ \E i \in DOMAIN web : web' = RemoveAt(web, i)
    /\ webDone' = TRUE
    /\ UNCHANGED <<userVars, counters, calls, fetch, recent, val, dropped>>

\* The result of the bulk request is applied, and the sweep begins.
WebResult ==
    /\ web # <<>>
    /\ \E i \in DOMAIN web : web' = RemoveAt(web, i) /\ calls' = CallsFor(web[i])
    /\ webDone' = TRUE
    /\ UNCHANGED <<userVars, counters, fetch, recent, val, dropped>>

-------------------------------------------------------------------------------
(* refresh_single_account. *)

\* The account is there, not being fetched, and was not fetched in the last 30 seconds.
MayFetch(a) == a \in Present /\ fetch[a] = "no" /\ a \notin recent

\* Called for a batch; the early returns count nothing.
Call(a) ==
    /\ calls[a] > 0
    /\ calls' = [calls EXCEPT ![a] = @ - 1]
    /\ IF MayFetch(a)
       THEN fetch' = [fetch EXCEPT ![a] = "batch"] /\ UNCHANGED dropped
       ELSE dropped' = (dropped \/ total > 0) /\ UNCHANGED fetch
    /\ UNCHANGED <<userVars, counters, webDone, web, recent, val>>

\* "Refresh" on an account's card, or an account just added: fetched if it may be,
\* and validated.
RefreshOne(a) ==
    /\ ~headless
    /\ a \in Present \cap Handled
    /\ fetch' = IF MayFetch(a) THEN [fetch EXCEPT ![a] = "single"] ELSE fetch
    /\ QueueValidate(a)
    /\ UNCHANGED <<userVars, counters, webDone, web, calls, recent, dropped>>

\* The fetch's result is applied, unless the account has gone.
FetchEnds(a) ==
    /\ fetch[a] # "no"
    /\ fetch' = [fetch EXCEPT ![a] = "no"]
    /\ IF a \in Present
       THEN /\ recent' = recent \cup {a}
            /\ IF fetch[a] = "batch" THEN Bump ELSE UNCHANGED counters
            /\ UNCHANGED dropped
       ELSE /\ dropped' = (dropped \/ (fetch[a] = "batch" /\ total > 0))
            /\ UNCHANGED <<recent, counters>>
    /\ UNCHANGED <<userVars, webDone, web, calls, val>>

\* Thirty seconds have passed.
NoLongerRecent(a) ==
    /\ a \in recent
    /\ recent' = recent \ {a}
    /\ UNCHANGED <<userVars, counters, webDone, web, calls, fetch, val, dropped>>

-------------------------------------------------------------------------------
(* The user. *)

\* An import of several accounts fetches them as a batch, refresh_accounts_staggered(),
\* and when they came from Steam's own cache validates them.
Import(ids) ==
    /\ ~headless
    /\ Cardinality(ids) > 1 /\ ids \subseteq Present \cap Handled
    /\ \A a \in ids : calls[a] < MaxCalls
    /\ calls' = CallsFor(ids)
    /\ UNCHANGED val \/ StartValidate
    /\ UNCHANGED <<userVars, counters, webDone, web, fetch, recent, dropped>>

RemoveAccount(a) ==
    /\ ~headless
    /\ a \in Present \cap Removable
    /\ vault' = vault \ {a}
    /\ recent' = recent \ {a}
    /\ UNCHANGED <<headless, unlocked, counters, webDone, web, calls, fetch, val, dropped>>

\* lock_vault() leaves the refresh, its counters and its callbacks alone.
LockOrUnlock ==
    /\ ~headless
    /\ unlocked' = ~unlocked
    /\ UNCHANGED <<headless, vault, counters, webDone, web, calls, fetch, recent, val, dropped>>

-------------------------------------------------------------------------------
Ends ==
    \/ ValidateNext \/ ValidateEnds \/ WebResult
    \/ \E a \in Accounts : Call(a) \/ FetchEnds(a) \/ NoLongerRecent(a)

Starts ==
    \/ RefreshAccountData \/ RefreshGcAll
    \/ \E a \in Accounts : ValidateOne(a) \/ RefreshOne(a) \/ RemoveAccount(a)
    \/ \E ids \in SUBSET Accounts : Import(ids)
    \/ LockOrUnlock

\* The headless run has left.
Left == Leaving /\ UNCHANGED vars

Next == Ends \/ Starts \/ Left

Spec == Init /\ [][Next]_vars

\* Requests and GC logins end (both have timeouts), and the UI thread applies their
\* results.  Nothing obliges the user to do anything.
Fairness ==
    /\ WF_vars(ValidateNext) /\ WF_vars(ValidateEnds) /\ WF_vars(WebResult)
    /\ \A a \in Accounts : WF_vars(Call(a)) /\ WF_vars(FetchEnds(a))

FairSpec == Spec /\ Fairness

-------------------------------------------------------------------------------
TypeOK ==
    /\ headless \in BOOLEAN /\ unlocked \in BOOLEAN /\ vault \subseteq Accounts
    /\ total \in 0..Cardinality(Accounts) /\ done \in Nat
    /\ webDone \in BOOLEAN
    /\ web \in SeqOf(SUBSET Full, MaxWeb)
    /\ calls \in [Accounts -> Nat]
    /\ fetch \in [Accounts -> {"no", "batch", "single"}]
    /\ recent \subseteq Accounts
    /\ val \in [active : BOOLEAN, feed : BOOLEAN, queue : Seq(Nfa), idx : Nat, client : BOOLEAN]
    /\ IF val.active THEN val.idx \in DOMAIN val.queue ELSE val = Idle
    /\ dropped \in BOOLEAN

\* The toolbar's N/Total is never complete or beyond: whoever finishes last, in
\* the web phase, the GC logins, an import or an older batch, resets both.
CountersSane == done < total \/ (done = 0 /\ total = 0)

\* What can still move the counters: calls not applied yet, fetches of a batch,
\* accounts waiting for a bulk request, and the rest of a GC sweep that feeds them.
CallsDue(c) == UNION {{a} \X (1..c[a]) : a \in Accounts}
FetchesDue(f) == {a \in Accounts : f[a] = "batch"}
WebDue(w) == UNION {{i} \X w[i] : i \in DOMAIN w}
SweepDue(v) == IF v.feed THEN Len(v.queue) + 1 - v.idx ELSE 0

Outstanding ==
    Cardinality(CallsDue(calls)) + Cardinality(FetchesDue(fetch))
        + Cardinality(WebDue(web)) + SweepDue(val)

\* Every account the denominator counts is still on its way, unless one was dropped.
NoneMissing == total > 0 /\ ~dropped => total - done <= Outstanding

\* A refresh that drops no account ends, and the next one can start.
EndsUnlessDropped == total > 0 ~> (total = 0 \/ dropped)

\* startup_refresh_complete(): the headless run does not leave before the accounts
\* of its refresh have been fetched.
StartupIsComplete ==
    headless /\ Complete =>
        /\ \A a \in Accounts : calls[a] = 0 /\ fetch[a] = "no"
        /\ \A i \in DOMAIN web : web[i] = {}

\* app_state.hpp: total == 0 means idle, so never leave a stale denominator.
NoStaleDenominator == total > 0 ~> total = 0

\* Types, and the counters of the toolbar.
BatchInv == TypeOK /\ CountersSane /\ NoneMissing
===============================================================================
