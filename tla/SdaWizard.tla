------------------------------ MODULE SdaWizard ------------------------------
(***************************************************************************)
(* Adding Steam Guard to an account, finishing or verifying a half-linked  *)
(* one, and removing it (ui/widgets/sda_wizard_dialogs.cpp, the requests in*)
(* core/sda/revoke.cpp, the screen in ui/screens/sda_screen.cpp).          *)
(*                                                                         *)
(* Steam hands out the secrets of a new authenticator once.  The two       *)
(* dialogs send a request from a worker and apply its result in a callback *)
(* of the UI thread; by then the user may have closed the dialog with its  *)
(* x, opened it on another account, or the vault may have locked itself.   *)
(* A worker looks its account up in the vault of the UI thread and keeps   *)
(* the pointer while it waits for Steam; what it then reads there after a  *)
(* lock is taken for a request that fails, which it may do anyway.         *)
(***************************************************************************)
EXTENDS Naturals, Sequences, FiniteSets

CONSTANTS
    SAcct, NoSAcct,  \* accounts with a session; the dialog has none
    MaxSecrets,      \* bound: authenticators Steam hands out
    MaxRequests,     \* bound: requests of the dialogs
    MaxAtOnce        \* bound: those of them under way

ASSUME SdaAssumption == NoSAcct \notin SAcct /\ MaxSecrets \in Nat

VARIABLES
    linked,    \* of each account: the authenticator that is active, and the one not finalized yet
    handedOut, \* authenticators handed out so far
    obtained,  \* history: those whose secrets the program was sent
    guard,     \* Account::sda of the vault in memory: NoGuard, or a record
    onDisk,    \* the same in vault.bin
    locked,    \* the vault is
    add, rem,  \* AddSdaDialogState, RemoveSdaDialogState
    reqs,      \* requests on a worker
    posts,     \* their callbacks, oldest first
    requests,  \* requests so far
    astray     \* history: accounts whose request was given up or crossed

steamSide == <<linked, handedOut, obtained>>
sdaVars == <<steamSide, guard, onDisk, locked, add, rem, reqs, posts, requests, astray>>

\* Authenticators: 1 is one linked elsewhere, 2 one that was removed long ago.
Other == 1
Old == 2
Secret == 0 .. 2 + MaxSecrets
NoGuard == [secret |-> 0, gid |-> FALSE, enrolled |-> FALSE, rcode |-> FALSE]
Guard == [secret : Secret \ {0}, gid : BOOLEAN, enrolled : BOOLEAN, rcode : BOOLEAN]
Has(a) == guard[a] # NoGuard

Shows(open, step, a) == [open |-> open, step |-> step, acct |-> a]

\* A maFile that says it was never finished, without a revocation code: of the
\* authenticator linked elsewhere or of the one removed long ago.  That one may be
\* too old to have a token_gid.
FromMaFile ==
    {[secret |-> Other, gid |-> TRUE, enrolled |-> FALSE, rcode |-> FALSE]} \cup
    [secret : {Old}, gid : BOOLEAN, enrolled : {FALSE}, rcode : {FALSE}]

\* One of the accounts may be linked elsewhere, and have had its maFile imported.
SdaInit ==
    /\ \E b \in SAcct, active \in {0, Other}, g \in {NoGuard} \cup FromMaFile :
          /\ linked = [a \in SAcct |-> [active |-> IF a = b THEN active ELSE 0, pending |-> 0]]
          /\ guard = [a \in SAcct |-> IF a = b THEN g ELSE NoGuard]
    /\ onDisk = guard /\ handedOut = 2 /\ obtained = {} /\ locked = FALSE
    /\ add = Shows(FALSE, "Idle", NoSAcct) /\ rem = Shows(FALSE, "Idle", NoSAcct)
    /\ reqs = {} /\ posts = <<>> /\ requests = 0 /\ astray = {}

-----------------------------------------------------------------------------
(* The screen and the dialogs, on the UI thread.                           *)

\* Requests without an answer applied.
UnderWay == reqs \cup {posts[i] : i \in DOMAIN posts}

Dispatch(kind, a, code) ==
    /\ Cardinality(UnderWay) < MaxAtOnce /\ requests < MaxRequests /\ requests' = requests + 1
    /\ reqs' = reqs \cup {[n |-> requests', kind |-> kind, acct |-> a, code |-> code,
                             secret |-> 0, result |-> "none"]}

Unsent == UNCHANGED <<reqs, requests>>
AtScreen == ~locked /\ ~add.open /\ ~rem.open

\* "Add Steam Guard", "Finish activation": a half-linked account resumes.
RequestAdd(a) ==
    /\ AtScreen /\ ~guard[a].enrolled
    /\ IF Has(a) THEN add' = Shows(TRUE, "AwaitActivation", a) /\ Unsent
       ELSE add' = Shows(TRUE, "Working", a) /\ Dispatch("add", a, TRUE)
    /\ UNCHANGED <<steamSide, guard, onDisk, locked, rem, posts>>

\* "Already activated".
RequestVerify(a) ==
    /\ AtScreen /\ Has(a) /\ ~guard[a].enrolled
    /\ add' = Shows(TRUE, "Working", a) /\ Dispatch("verify", a, TRUE)
    /\ UNCHANGED <<steamSide, guard, onDisk, locked, rem, posts>>

RequestRemove(a) ==
    /\ AtScreen /\ Has(a)
    /\ rem' = Shows(TRUE, "Confirm", a)
    /\ UNCHANGED <<steamSide, guard, onDisk, locked, add, reqs, posts, requests>>

\* The revocation code of a maFile that came without one.
SaveRcode(a) ==
    /\ AtScreen /\ Has(a) /\ ~guard[a].rcode
    /\ guard' = [guard EXCEPT ![a].rcode = TRUE]
    /\ UNCHANGED <<steamSide, onDisk, locked, add, rem, reqs, posts, requests>>

\* "I have written this code down somewhere safe", "Next".
WrittenDown ==
    /\ ~locked /\ add.open /\ add.step = "ShowRcode" /\ Has(add.acct)
    /\ add' = [add EXCEPT !.step = "AwaitActivation"]
    /\ UNCHANGED <<steamSide, guard, onDisk, locked, rem, reqs, posts, requests>>

PressConfirm(code) ==
    /\ ~locked /\ add.open /\ add.step = "AwaitActivation"
    /\ add' = [add EXCEPT !.step = "Working"] /\ Dispatch("finalize", add.acct, code)
    /\ UNCHANGED <<steamSide, guard, onDisk, locked, rem, posts>>

\* "My authenticator already works".
AlreadyWorks ==
    /\ ~locked /\ add.open /\ add.step = "AwaitActivation"
    /\ add' = [add EXCEPT !.step = "Working"] /\ Dispatch("verify", add.acct, TRUE)
    /\ UNCHANGED <<steamSide, guard, onDisk, locked, rem, posts>>

PressRemove ==
    /\ ~locked /\ rem.open /\ rem.step = "Confirm" /\ Has(rem.acct) /\ guard[rem.acct].rcode
    /\ rem' = [rem EXCEPT !.step = "Working"] /\ Dispatch("remove", rem.acct, TRUE)
    /\ UNCHANGED <<steamSide, guard, onDisk, locked, add, posts>>

Back ==
    /\ ~locked /\ rem.open /\ rem.step = "Failed" /\ Has(rem.acct)
    /\ rem' = [rem EXCEPT !.step = "Confirm"]
    /\ UNCHANGED <<steamSide, guard, onDisk, locked, add, reqs, posts, requests>>

\* A dialog that is over forgets its account, one that is working does not.
Shut(d) ==
    IF d.step \in {"Done", "Failed"} THEN Shows(FALSE, "Idle", NoSAcct) ELSE [d EXCEPT !.open = FALSE]

\* The x in the title bar, "Cancel", "Close".
Close ==
    /\ ~locked /\ (add.open \/ rem.open)
    /\ add' = (IF add.open THEN Shut(add) ELSE add) /\ rem' = (IF rem.open THEN Shut(rem) ELSE rem)
    /\ UNCHANGED <<steamSide, guard, onDisk, locked, reqs, posts, requests>>

\* The automatic lock: what is scheduled is still written, and has been by the time
\* a password was typed.  find_account finds nothing until the unlock, after which
\* the dialogs are no longer drawn.
LockOrUnlock ==
    /\ locked' = ~locked
    /\ IF locked THEN onDisk = guard /\ add' = Shut(add) /\ rem' = Shut(rem) ELSE UNCHANGED <<add, rem>>
    /\ UNCHANGED <<steamSide, guard, onDisk, reqs, posts, requests>>

\* The background saver.
Write ==
    /\ onDisk # guard /\ onDisk' = guard
    /\ UNCHANGED <<steamSide, guard, locked, add, rem, reqs, posts, requests>>

\* The process dies and is started again; the callbacks go with it.
Die ==
    /\ guard' = onDisk /\ locked' = FALSE /\ reqs' = {} /\ posts' = <<>>
    /\ add' = Shows(FALSE, "Idle", NoSAcct) /\ rem' = Shows(FALSE, "Idle", NoSAcct)
    /\ UNCHANGED <<steamSide, onDisk, requests>>

-----------------------------------------------------------------------------
(* A worker.  Steam may do what it is asked and the answer get lost.       *)

\* The answer and the callback that brings it, in the order of the answers.
Replied(w, result, secret) ==
    /\ reqs' = reqs \ {w}
    /\ posts' = Append(posts, [w EXCEPT !.result = result, !.secret = secret])

\* No account or no Steam Guard, no session, or no answer.
NoAnswer(w) ==
    /\ \/ (locked \/ (w.kind = "verify" /\ ~Has(w.acct))) /\ Replied(w, "gone", 0)
       \/ Replied(w, "failed", 0)
    /\ UNCHANGED steamSide

AddAuthenticator(w) ==
    /\ w.kind = "add" /\ linked[w.acct].active = 0 /\ handedOut < 2 + MaxSecrets
    /\ handedOut' = handedOut + 1 /\ linked' = [linked EXCEPT ![w.acct].pending = handedOut']
    /\ \/ Replied(w, "ok", handedOut') /\ obtained' = obtained \cup {handedOut'}
       \/ Replied(w, "failed", 0) /\ UNCHANGED obtained

\* The code is made of the secret in the vault; status 89 is a wrong activation code.
FinalizeAdd(w) ==
    /\ w.kind = "finalize" /\ Has(w.acct)
    /\ LET g == guard[w.acct].secret
       IN \/ /\ w.code /\ linked[w.acct].pending = g
             /\ linked' = [linked EXCEPT ![w.acct] = [active |-> g, pending |-> 0]]
             /\ \E r \in {"ok", "failed"} : Replied(w, r, 0)
          \/ ~w.code /\ Replied(w, "retry", 0) /\ UNCHANGED linked
    /\ UNCHANGED <<handedOut, obtained>>

\* token_gid identifies the authenticator; a file without one believes any.
Confirms_mutant(g, s) == s # 0
Confirms(g, s) == s # 0 /\ (g.gid => g.secret = s)
QueryStatus(w) ==
    /\ w.kind = "verify" /\ Has(w.acct)
    /\ Replied(w, IF Confirms(guard[w.acct], linked[w.acct].active) THEN "ok" ELSE "failed", 0)
    /\ UNCHANGED steamSide

RemoveAuthenticator(w) ==
    /\ w.kind = "remove" /\ Has(w.acct) /\ guard[w.acct].secret = linked[w.acct].active
    /\ linked' = [linked EXCEPT ![w.acct].active = 0]
    /\ \E r \in {"ok", "failed"} : Replied(w, r, 0)
    /\ UNCHANGED <<handedOut, obtained>>

Ask(w) ==
    /\ \/ NoAnswer(w)
       \/ ~locked /\ (AddAuthenticator(w) \/ FinalizeAdd(w) \/ QueryStatus(w) \/ RemoveAuthenticator(w))
    /\ UNCHANGED <<guard, onDisk, locked, add, rem, requests>>

-----------------------------------------------------------------------------
(* The callbacks.                                                          *)

\* save_vault_if_dirty, flush_pending_save.
Flushed_mutant == UNCHANGED onDisk
Flushed == onDisk' = guard'

Enrolled(w) ==
    /\ guard' = IF ~locked /\ Has(w.acct) THEN [guard EXCEPT ![w.acct].enrolled = TRUE] ELSE guard
    /\ UNCHANGED onDisk

AfterAdd(w) ==
    IF w.result # "ok" \/ locked
    THEN add' = [add EXCEPT !.step = "Failed"] /\ UNCHANGED <<guard, onDisk>>
    ELSE /\ guard' = [guard EXCEPT ![w.acct] =
                         [secret |-> w.secret, gid |-> TRUE, enrolled |-> FALSE, rcode |-> TRUE]]
         /\ Flushed
         /\ add' = [add EXCEPT !.step = "ShowRcode"]

\* Anything but success and a wrong code is checked with Steam before it is believed.
AfterFinalize(w) ==
    CASE w.result = "ok" -> Enrolled(w) /\ add' = [add EXCEPT !.step = "Done"] /\ Unsent
      [] w.result = "retry" ->
            add' = [add EXCEPT !.step = "AwaitActivation"] /\ UNCHANGED <<guard, onDisk>> /\ Unsent
      [] OTHER -> /\ \/ add' = [add EXCEPT !.step = "Failed"] /\ Unsent
                     \/ add' = [add EXCEPT !.step = "Working"] /\ Dispatch("verify", w.acct, TRUE)
                  /\ UNCHANGED <<guard, onDisk>>

AfterVerify(w) ==
    IF w.result = "ok" THEN Enrolled(w) /\ add' = [add EXCEPT !.step = "Done"]
    ELSE add' = [add EXCEPT !.step = "Failed"] /\ UNCHANGED <<guard, onDisk>>

AfterRemove(w) ==
    IF w.result # "ok" THEN rem' = [rem EXCEPT !.step = "Failed"] /\ UNCHANGED <<guard, onDisk>>
    ELSE /\ rem' = [rem EXCEPT !.step = "Done"]
         /\ guard' = IF locked THEN guard ELSE [guard EXCEPT ![w.acct] = NoGuard]
         /\ IF locked THEN UNCHANGED onDisk ELSE Flushed

Dialog(w) == IF w.kind = "remove" THEN rem ELSE add

\* That the account is gone is told to whatever the dialog is at now; every other
\* result is dropped when the dialog has left the account.
ApplyResult ==
    /\ posts # <<>> /\ posts' = Tail(posts)
    /\ LET w == Head(posts)
       IN \/ /\ w.result = "gone"
             /\ IF w.kind = "remove" THEN rem' = [rem EXCEPT !.step = "Failed"] /\ add' = add
                ELSE add' = [add EXCEPT !.step = "Failed"] /\ rem' = rem
             /\ UNCHANGED <<guard, onDisk>> /\ Unsent
          \/ /\ w.result # "gone" /\ Dialog(w).acct # w.acct
             /\ UNCHANGED <<guard, onDisk, add, rem>> /\ Unsent
          \/ /\ w.result # "gone" /\ Dialog(w).acct = w.acct
             /\ \/ w.kind = "add" /\ AfterAdd(w) /\ UNCHANGED rem /\ Unsent
                \/ w.kind = "finalize" /\ AfterFinalize(w) /\ UNCHANGED rem
                \/ w.kind = "verify" /\ AfterVerify(w) /\ UNCHANGED rem /\ Unsent
                \/ w.kind = "remove" /\ AfterRemove(w) /\ UNCHANGED add /\ Unsent
    /\ UNCHANGED <<steamSide, locked>>

-----------------------------------------------------------------------------
\* A request is astray when the dialog has left its account, the vault is locked,
\* another request for the account is out, or the answer to a removal was lost.
Astray ==
    {w.acct : w \in {x \in UnderWay :
        \/ locked \/ Dialog(x).acct # x.acct
        \/ \E y \in UnderWay \ {x} : y.acct = x.acct
        \/ x.kind = "remove" /\ x.result = "failed"}}

SdaStep ==
    \/ \E a \in SAcct : RequestAdd(a) \/ RequestVerify(a) \/ RequestRemove(a) \/ SaveRcode(a)
    \/ WrittenDown \/ AlreadyWorks \/ PressRemove \/ Back \/ Close \/ LockOrUnlock \/ Write
    \/ \E code \in BOOLEAN : PressConfirm(code)
    \/ \E w \in reqs : Ask(w)
    \/ ApplyResult

Tracked == SdaStep /\ astray' = astray \cup Astray'

SdaNext ==
    \/ Tracked
    \/ Die /\ astray' = astray \cup {w.acct : w \in UnderWay}

SdaSpec == SdaInit /\ [][SdaNext]_sdaVars
-----------------------------------------------------------------------------
SdaTypeOK ==
    /\ linked \in [SAcct -> [active : Secret, pending : Secret]]
    /\ {guard, onDisk} \subseteq [SAcct -> Guard \cup {NoGuard}]
    /\ add.step \in {"Idle", "Working", "ShowRcode", "AwaitActivation", "Done", "Failed"}
    /\ rem.step \in {"Idle", "Confirm", "Working", "Done", "Failed"}
    /\ {add.acct, rem.acct} \subseteq SAcct \cup {NoSAcct}
    /\ astray \subseteq SAcct

\* The program was sent these secrets, and Steam still counts on them.
Owed(a) == obtained \cap {linked[a].active, linked[a].pending}
Kept(a) == \A s \in Owed(a) :
    \/ guard[a].secret = s /\ onDisk[a].secret = s
    \/ \E w \in UnderWay : w.kind = "add" /\ w.acct = a /\ w.secret = s

\* The secrets of a new authenticator are on disk before anything else happens to
\* them, and stay there through crashes, wrong codes and verifications, unless the
\* request went astray.
SecretsKept == \A a \in SAcct \ astray : Kept(a)

\* The same of every account: "Persist the returned authenticator before Finalize
\* even if the user bails; otherwise the account is left in an unrecoverable state"
\* (core/sda/revoke.hpp:17-18).
SecretsPersist == \A a \in SAcct : Kept(a)

\* An authenticator the program calls fully enrolled is the one Steam asks for.
EnrolledIsLive ==
    \A a \in SAcct \ astray :
        guard[a].enrolled /\ guard[a].gid => \/ linked[a].active = guard[a].secret
                             \/ \E w \in UnderWay : w.kind = "remove" /\ w.acct = a

\* Types, and a half-linked account is either live or says that it is not.
SdaInv == SdaTypeOK /\ EnrolledIsLive
=============================================================================
