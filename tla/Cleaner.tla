------------------------------- MODULE Cleaner -------------------------------
(***************************************************************************)
(* The trace cleaner (src/core/cleaner, src/app/cleaner_runner.cpp) and    *)
(* what Steam leaves on the PC.                                            *)
(*                                                                         *)
(* A run works from a copy of the settings: it scans the PC, turns the     *)
(* targets of its profile into a plan that spares the accounts of the keep *)
(* list, closes Steam, and executes the plan step by step, going on after  *)
(* a step that fails.  A step on a VDF file reads the whole file, drops    *)
(* one entry and writes the file back, while the UI thread may launch an   *)
(* account, which writes the same files.                                   *)
(*                                                                         *)
(* The 32 targets are six here: what no account is signed in by (caches,   *)
(* logs, dumps), loginusers.vdf, the ConnectCache (config.vdf and          *)
(* local.vdf hold the same entries and are one file here), AutoLoginUser,  *)
(* the caches and settings in an account's userdata, and all of userdata.  *)
(*                                                                         *)
(* Left out: the early returns of run_blocking (the cleaner is off, safe   *)
(* mode, a first-login reapply in flight, no Steam found), after which a   *)
(* run does nothing.                                                       *)
(***************************************************************************)
EXTENDS Naturals, Sequences, FiniteSetsExt, SequencesExt

CONSTANTS
    Acct,        \* Steam accounts seen on this PC
    Nobody,      \* no AutoLoginUser
    MaxWrites,   \* bound: sign-ins, launches and edits of the keep list
    MaxRuns      \* bound: runs on a worker

ASSUME CleanAssumption ==
    /\ IsFiniteSet(Acct) /\ Nobody \notin Acct
    /\ MaxWrites \in Nat /\ MaxRuns \in Nat

VARIABLES
    listed,      \* entries of loginusers.vdf, which hold the account name
    logins,      \* entries of the ConnectCache, keyed by the account name
    userdata,    \* userdata folders
    residue,     \* those with caches, controller bindings, screenshots in them
    caches,      \* there are caches, logs or dumps
    autoUser,    \* AutoLoginUser
    readable,    \* the ConnectCache file can be parsed
    steamUp,
    keep,        \* preserved_steam_ids
    profile,     \* CleanerProfile
    busy,        \* cleaner_busy
    run,         \* the run, on a worker or inside a launch or the exit
    launching,   \* the launch the UI thread is in
    writes,      \* sign-ins, launches and edits so far
    runs         \* runs on a worker so far

pcVars == <<listed, logins, userdata, residue, caches, autoUser, readable>>
cleanVars == <<pcVars, steamUp, keep, profile, busy, run, launching, writes, runs>>

NoRun ==
    [pc |-> "none", by |-> "worker", keep |-> {}, profile |-> "quick", plan |-> <<>>, read |-> {},
     failed |-> FALSE, written |-> {},
     before |-> [listed |-> {}, userdata |-> {}, residue |-> {}, logins |-> {}]]
NotLaunching == [pc |-> "none", acct |-> Nobody, clean |-> FALSE, read |-> {}]

\* A sign-in leaves a userdata folder, so whoever is listed or has a token
\* has one.
CleanInit ==
    /\ userdata \in SUBSET Acct /\ listed \in SUBSET userdata
    /\ residue = userdata /\ caches = TRUE
    /\ logins \in SUBSET userdata /\ autoUser \in listed \cup {Nobody}
    /\ readable \in BOOLEAN /\ steamUp = TRUE
    /\ keep \in SUBSET Acct /\ profile \in {"quick", "reset", "full"}
    /\ busy = FALSE /\ run = NoRun /\ launching = NotLaunching
    /\ writes = 0 /\ runs = 0

CleanTypeOK ==
    /\ listed \cup logins \cup userdata \cup residue \cup keep \subseteq Acct
    /\ caches \in BOOLEAN
    /\ run.pc \in {"none", "queued", "close", "step", "save", "end"}
    /\ launching.pc \in {"none", "down", "cleaning", "auto", "list", "list write", "token", "token write"}
-----------------------------------------------------------------------------
(* The plan (plan.cpp).  A step is the file or folder it works on and the  *)
(* account it drops; Whole stands for the deletion of the file.            *)

Whole == Nobody
Drop(what, a) == [what |-> what, acct |-> a]
DropEach(what, S) == [i \in 1..Cardinality(S) |-> Drop(what, SetToSeq(S)[i])]

\* enumerate_accounts: userdata folders and loginusers.vdf; only the latter
\* has names.
Known == userdata \cup listed

\* Mutant: the ids of the keep list without the names the cache is keyed by.
PreservedKeys_mutant(k) == k \cap logins \cap userdata

\* preserved_connect_cache_keys: the kept accounts whose name is known.
PreservedKeys(k) == k \cap listed

\* rewrite_config_vdf / rewrite_local_vdf: entry by entry when something is
\* kept and the file can be read, else the whole file.
TokenSteps(k) ==
    IF k = {} \/ ~readable THEN <<Drop("tokens", Whole)>>
    ELSE DropEach("tokens", logins \ PreservedKeys(k))

\* rewrite_loginusers.
ListSteps(k) ==
    IF k = {} THEN <<Drop("listed", Whole)>> ELSE DropEach("listed", Known \ k)

\* pick_autologin_redirect: a kept account with a name (the most recent one).
Redirects(k) == listed \cap k

\* rewrite_autologin: left to a kept account, or given to one, or left as it
\* is when no kept account has a name.
AutoSteps(k) ==
    IF k = {} \/ autoUser = Nobody THEN {<<Drop("auto", Whole)>>}
    ELSE IF autoUser \in Redirects(k) \/ Redirects(k) = {} THEN {<<>>}
    ELSE {<<Drop("auto", a)>> : a \in Redirects(k)}

\* resolve_dumps .. resolve_htmlcache, resolve_avatarcache and the like.
CacheSteps == <<Drop("caches", Whole)>>

\* preserve_filters_op: operations on a kept account's own files are dropped.
ResidueSteps(k) == DropEach("residue", residue \ k)
UserdataSteps(k) == DropEach("userdata", userdata \ k)

\* build_plan: the targets of the profile, in the order of the profile.
Plans(k, p) ==
    IF p = "quick" THEN {CacheSteps}
    ELSE {CacheSteps \o TokenSteps(k) \o ListSteps(k) \o s \o ResidueSteps(k)
            \o (IF p = "full" THEN UserdataSteps(k) ELSE <<>>) : s \in AutoSteps(k)}
-----------------------------------------------------------------------------
(* A run (cleaner_runner.cpp, execute.cpp). *)

UiFreeToClean == launching.pc = "none" /\ ~(run.pc # "none" /\ run.by = "launch")

Before(by, p) == [NoRun EXCEPT !.pc = "queued", !.by = by, !.keep = keep, !.profile = p]

\* run_async: Run now and the unlock take the profile of the settings, Quick
\* clean its own.
RunAsync(p) ==
    /\ UiFreeToClean /\ ~busy /\ p \in {"quick", profile}
    /\ runs < MaxRuns /\ runs' = runs + 1
    /\ busy' = TRUE /\ run' = Before("worker", p)
    /\ UNCHANGED <<pcVars, steamUp, keep, profile, launching, writes>>

\* build: the plan is made before Steam is closed.
Build ==
    /\ run.pc = "queued"
    /\ \E plan \in Plans(run.keep, run.profile) :
         run' = [run EXCEPT !.pc = IF steamUp THEN "close" ELSE "step", !.plan = plan,
                            !.before = [listed |-> listed, userdata |-> userdata, residue |-> residue,
                                        logins |-> IF readable THEN logins ELSE {}]]
    /\ UNCHANGED <<pcVars, steamUp, keep, profile, busy, launching, writes, runs>>

\* close_steam, or it fails and the run is over.
CloseSteam ==
    /\ run.pc = "close"
    /\ \/ steamUp' = FALSE /\ run' = [run EXCEPT !.pc = "step"]
       \/ run' = [run EXCEPT !.pc = "end"] /\ UNCHANGED steamUp
    /\ UNCHANGED <<pcVars, keep, profile, busy, launching, writes, runs>>

Step == Head(run.plan)
File(what) == IF what = "tokens" THEN logins ELSE listed
Done(r) == [r EXCEPT !.plan = Tail(@), !.pc = "step"]

\* execute_one.  An entry of a VDF file takes two steps: vdf::load, then
\* vdf::save; anything else is one call.  Any step may fail.
ExecuteOne ==
    /\ run.pc = "step" /\ run.plan # <<>>
    /\ \/ /\ Step.what \in {"tokens", "listed"} /\ Step.acct # Whole
          /\ run' = [run EXCEPT !.pc = "save", !.read = File(Step.what)]
          /\ UNCHANGED pcVars
       \/ /\ Step.acct = Whole \/ Step.what \in {"auto", "residue", "userdata"}
          /\ run' = Done(run)
          /\ logins' = IF Step.what = "tokens" THEN {} ELSE logins
          /\ listed' = IF Step.what = "listed" THEN {} ELSE listed
          /\ userdata' = IF Step.what = "userdata" THEN userdata \ {Step.acct} ELSE userdata
          /\ residue' = IF Step.what \in {"residue", "userdata"} THEN residue \ {Step.acct} ELSE residue
          /\ caches' = (caches /\ Step.what # "caches")
          /\ autoUser' = IF Step.what = "auto" THEN Step.acct ELSE autoUser
          /\ readable' = (readable \/ Step.what = "tokens")
       \/ run' = [Done(run) EXCEPT !.failed = TRUE] /\ UNCHANGED pcVars
    /\ UNCHANGED <<steamUp, keep, profile, busy, launching, writes, runs>>

SaveVdf ==
    /\ run.pc = "save" /\ run' = Done(run)
    /\ IF Step.what = "tokens" THEN logins' = run.read \ {Step.acct} /\ UNCHANGED listed
       ELSE listed' = run.read \ {Step.acct} /\ UNCHANGED logins
    /\ UNCHANGED <<userdata, residue, caches, autoUser, readable>>
    /\ UNCHANGED <<steamUp, keep, profile, busy, launching, writes, runs>>

AllDone ==
    /\ run.pc = "step" /\ run.plan = <<>>
    /\ run' = [run EXCEPT !.pc = "end"]
    /\ UNCHANGED <<pcVars, steamUp, keep, profile, busy, launching, writes, runs>>

\* The result callback frees the cleaner; inside a launch the launch goes on.
RunEnds ==
    /\ run.pc = "end" /\ (run.by = "worker" => launching.pc = "none")
    /\ run' = NoRun /\ busy' = FALSE
    /\ launching' = IF run.by = "launch" THEN [launching EXCEPT !.pc = "auto"] ELSE launching
    /\ UNCHANGED <<pcVars, steamUp, keep, profile, writes, runs>>
-----------------------------------------------------------------------------
(* The settings, Steam, and a launch by token. *)

\* The keep list can be changed at any time, during a run too.
ToggleKeep(a) ==
    /\ UiFreeToClean /\ run.pc # "none" /\ writes < MaxWrites /\ writes' = writes + 1
    /\ keep' = IF a \in keep THEN keep \ {a} ELSE keep \cup {a}
    /\ UNCHANGED <<pcVars, steamUp, profile, busy, run, launching, runs>>

\* What a sign-in or a launch writes is not the run's to account for.
Wrote(a) == run' = IF run.pc \in {"none", "queued"} THEN run
                   ELSE [run EXCEPT !.written = @ \cup {a}]

\* An account signs in: Steam writes all of it.
SteamWrites(a) ==
    /\ steamUp /\ writes < MaxWrites /\ writes' = writes + 1
    /\ listed' = listed \cup {a} /\ userdata' = userdata \cup {a}
    /\ residue' = residue \cup {a} /\ caches' = TRUE
    /\ logins' = logins \cup {a} /\ autoUser' = a /\ readable' = TRUE
    /\ Wrote(a)
    /\ UNCHANGED <<steamUp, keep, profile, busy, launching, runs>>

\* do_launch: by the button, which is greyed out while a clean runs, or by the
\* pump after a mint, which is not.
BeginLaunch(a, minted) ==
    /\ UiFreeToClean /\ (minted \/ ~busy) /\ writes < MaxWrites
    /\ writes' = writes + 1
    /\ launching' = [pc |-> "down", acct |-> a, clean |-> ~busy, read |-> {}]
    /\ UNCHANGED <<pcVars, steamUp, keep, profile, busy, run, runs>>

\* Steam is down: the cleaner may run here, on the UI thread, if it was idle.
LaunchDown ==
    /\ launching.pc = "down" /\ run.pc \in {"none", "queued", "close", "step", "save", "end"}
    /\ steamUp' = FALSE
    /\ \/ launching' = [launching EXCEPT !.pc = "auto"] /\ UNCHANGED run
       \/ /\ launching.clean
          /\ launching' = [launching EXCEPT !.pc = "cleaning"]
          /\ run' = Before("launch", profile)
    /\ UNCHANGED <<pcVars, keep, profile, busy, writes, runs>>

\* launch_account_with_token: AutoLoginUser, loginusers.vdf, local.vdf (each
\* read, then written), Steam.
LaunchReads ==
    /\ launching.pc \in {"list", "token"}
    /\ launching' = IF launching.pc = "list"
                    THEN [launching EXCEPT !.pc = "list write", !.read = File("listed")]
                    ELSE [launching EXCEPT !.pc = "token write", !.read = File("tokens")]
    /\ UNCHANGED <<pcVars, steamUp, keep, profile, busy, run, writes, runs>>

LaunchStep ==
    /\ \/ /\ launching.pc = "auto" /\ launching' = [launching EXCEPT !.pc = "list"]
          /\ autoUser' = launching.acct
          /\ UNCHANGED <<listed, logins, readable, steamUp>>
       \/ /\ launching.pc = "list write"
          /\ launching' = [launching EXCEPT !.pc = "token"]
          /\ listed' = launching.read \cup {launching.acct}
          /\ UNCHANGED <<autoUser, logins, readable, steamUp>>
       \/ /\ launching.pc = "token write" /\ launching' = NotLaunching
          /\ logins' = launching.read \cup {launching.acct}
          /\ readable' = TRUE /\ steamUp' = TRUE
          /\ UNCHANGED <<autoUser, listed>>
    /\ Wrote(launching.acct)
    /\ UNCHANGED <<userdata, residue, caches, keep, profile, busy, writes, runs>>
-----------------------------------------------------------------------------
CleanNext ==
    \/ \E p \in {"quick", "reset", "full"} : RunAsync(p)
    \/ Build \/ CloseSteam \/ ExecuteOne \/ SaveVdf \/ AllDone \/ RunEnds
    \/ \E a \in Acct : \/ ToggleKeep(a) \/ SteamWrites(a)
                       \/ \E minted \in BOOLEAN : BeginLaunch(a, minted)
    \/ LaunchDown \/ LaunchReads \/ LaunchStep

CleanSpec == CleanInit /\ [][CleanNext]_cleanVars
-----------------------------------------------------------------------------
(***************************************************************************)
(* Properties.                                                             *)
(***************************************************************************)

\* Whom the run has to spare: everyone (Quick Clean), or the kept accounts
\* Steam has a name for.
Spared == IF run.profile = "quick" THEN Acct ELSE run.keep \cap run.before.listed

\* When a run has gone through its plan, the accounts it had to spare have
\* what they had, although steps failed, the keep list was edited meanwhile
\* and a launch wrote the same files; and if nothing failed and nobody else
\* wrote, every unticked account is signed out and AutoLoginUser names none of
\* them (README.md:98-105).
CleanIsExact ==
    run.pc = "end" /\ run.plan = <<>> =>
      /\ \A a \in Spared \ run.written :
           /\ a \in run.before.listed => a \in listed
           /\ a \in run.before.logins => a \in logins
           /\ a \in run.before.userdata => a \in userdata
           /\ a \in run.before.residue => a \in residue
      /\ run.profile # "quick" /\ ~run.failed /\ run.written = {} =>
           /\ listed \cup logins \subseteq run.keep
           /\ residue \subseteq run.keep
           /\ run.profile = "full" => userdata \subseteq run.keep
           /\ Spared # {} => autoUser \in run.keep \cup {Nobody}

\* Types, and a finished run took what its profile says and nothing else.
CleanerInv == CleanTypeOK /\ CleanIsExact
=============================================================================
