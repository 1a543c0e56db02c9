-------------------------------- MODULE Launch --------------------------------
(***************************************************************************)
(* Signing an account in on this PC (src/core/launch, the launch part of   *)
(* src/ui/screens/accounts_screen.cpp, the watchers of src/app/            *)
(* app_state_refresh.cpp:985-1176).                                        *)
(*                                                                         *)
(* A launch runs on the UI thread: it closes Steam, writes the files Steam *)
(* reads at its start and starts it, by password (a detached driver types  *)
(* into the login window) or with a token put in Steam's ConnectCache.  A  *)
(* first login is followed by a "reapply" that restarts Steam once with    *)
(* the settings the first login would wipe.  Every launch has a generation *)
(* (launch_gen); a driver or reapply of an older one ends at its next      *)
(* look.  After a token launch a watcher waits for the sign-in and reads   *)
(* the rotated token back; if Steam never signs in, the token counts as    *)
(* revoked, a new one is minted and the account launched once more.        *)
(*                                                                         *)
(* The generation of a launch names what it leaves behind: its driver or   *)
(* reapply, its watcher and the Steam process it started.                  *)
(*                                                                         *)
(* Left out: a lock of the vault or a removal of the account meanwhile,    *)
(* after which the callbacks find no account and return, and the end of    *)
(* the process, which cuts the polls short.                                *)
(***************************************************************************)
EXTENDS Naturals, FiniteSets

CONSTANTS
    Player,        \* the accounts of the vault
    NoOne,      \* nobody
    NoPassword,  \* accounts without a stored password
    MaxGen,      \* bound: launches of a behaviour
    MaxPress     \* bound: presses of Launch

ASSUME LaunchAssumption ==
    /\ NoPassword \subseteq Player /\ NoOne \notin Player
    /\ MaxGen \in Nat \ {0} /\ MaxPress \in Nat

VARIABLES
    steam,       \* which launch's Steam is up, 0: none
    active,      \* ActiveUser in the registry
    autologin,   \* AutoLoginUser in the registry
    remembered,  \* accounts whose stored credential Steam would accept
    configured,  \* accounts that signed in on this PC before
    gen,         \* launch_gen::g_current
    ui,          \* the launch the UI thread is in
    worker,      \* per generation, the driver or the reapply
    watch,       \* per generation, the watcher of a token launch
    pending,     \* pending_token_launch
    mints,       \* per account, sign-ins for a new token that are running
    attempted,   \* cm_relaunch_attempted
    cm,          \* per account, the token in the vault as the vault knows it
    accepted,    \* accounts whose token in the vault Steam would accept
    pressed,     \* presses of Launch so far
    autos        \* history: automatic relaunches since a press or a sign-in

screenVars == <<pending, mints, attempted, cm, accepted, pressed, autos>>
steamVars == <<steam, active, autologin, remembered, configured>>
launchVars == <<steamVars, gen, ui, worker, watch, screenVars>>

Gen == 1..MaxGen
Idle == [pc |-> "idle"]
NoWorker == [pc |-> "none"]
NoPending == [acct |-> NoOne, minting |-> FALSE, done |-> FALSE, ok |-> FALSE]
MintingFor(a) == [acct |-> a, minting |-> TRUE, done |-> FALSE, ok |-> FALSE]

LaunchTypeOK ==
    /\ steam \in 0..MaxGen /\ gen \in 0..MaxGen
    /\ active \in Player \cup {NoOne} /\ autologin \in Player \cup {NoOne}
    /\ remembered \subseteq Player /\ configured \subseteq Player
    /\ attempted \subseteq Player /\ accepted \subseteq Player
    /\ ui \in {Idle} \cup [pc : {"down", "write", "spawn"}, acct : Player,
                           use : {"password", "token"}, deferred : BOOLEAN]
    /\ worker \in [Gen -> {NoWorker} \cup
                          [pc : {"window", "typed", "signin", "setup",
                                 "stop", "check", "relaunch", "flush"},
                           counted : BOOLEAN, acct : Player, deferred : BOOLEAN]]
    /\ watch \in [Gen -> {NoWorker} \cup
                         [pc : {"poll", "wait", "read", "overdue", "refused"}, acct : Player]]
    /\ pending \in [acct : Player \cup {NoOne}, minting : BOOLEAN, done : BOOLEAN, ok : BOOLEAN]
    /\ cm \in [Player -> {"none", "unknown", "valid", "revoked"}]
    /\ mints \in [Player -> Nat] /\ autos \in [Player -> Nat] /\ pressed \in 0..MaxPress

LaunchInit ==
    /\ steam = 0 /\ active = NoOne /\ autologin = NoOne
    /\ remembered = {} /\ configured \in SUBSET Player
    /\ gen = 0 /\ ui = Idle
    /\ worker = [g \in Gen |-> NoWorker] /\ watch = [g \in Gen |-> NoWorker]
    /\ pending = NoPending /\ mints = [a \in Player |-> 0] /\ attempted = {}
    /\ cm \in [Player -> {"none", "unknown"}]
    /\ accepted \in SUBSET {a \in Player : cm[a] = "unknown"}
    /\ pressed = 0 /\ autos = [a \in Player |-> 0]

IsCurrent(g) == gen = g
UiFree == ui.pc = "idle"
CmTokenValid(a) == cm[a] \in {"unknown", "valid"}

\* Mutant: the reapply counts itself once it runs, not before its thread starts.
InFlight_mutant == \E g \in Gen : worker[g].pc \notin {"none", "signin"} /\ worker[g].counted

\* first_login_reapply::in_flight(): only a token launch's reapply counts,
\* from before its thread starts until it has ended.
InFlight == \E g \in Gen : worker[g].pc # "none" /\ worker[g].counted
-----------------------------------------------------------------------------
(* The UI thread. *)

\* do_launch up to the shutdown of Steam.  A token launch takes its
\* generation here; without a token it only shows an error.
DoLaunch(a, use) ==
    /\ gen < MaxGen
    /\ IF use = "token" /\ cm[a] = "none" THEN UNCHANGED <<ui, gen>>
       ELSE /\ ui' = [pc |-> "down", acct |-> a, use |-> use, deferred |-> FALSE]
            /\ gen' = IF use = "token" THEN gen + 1 ELSE gen

\* The user presses Launch: a launch at once, or a mint that a launch follows.
Press(a, use) ==
    /\ UiFree /\ pressed < MaxPress
    /\ pressed' = pressed + 1
    /\ attempted' = attempted \ {a} /\ autos' = [autos EXCEPT ![a] = 0]
    /\ IF use = "token" /\ ~CmTokenValid(a)
       THEN /\ UNCHANGED <<ui, gen>>
            /\ IF a \in NoPassword THEN UNCHANGED <<pending, mints>>
               ELSE /\ pending' = MintingFor(a)
                    /\ mints' = [mints EXCEPT ![a] = @ + 1]
       ELSE DoLaunch(a, use) /\ UNCHANGED <<pending, mints>>
    /\ UNCHANGED <<steamVars, worker, watch, cm, accepted>>

\* shutdown_running_steam: a Steam that had to be killed leaves ActiveUser.
SteamDown == steam' = 0 /\ active' \in {active, NoOne}

LaunchShutsSteam ==
    /\ ui.pc = "down"
    /\ \/ SteamDown /\ ui' = [ui EXCEPT !.pc = "write"]
       \/ steam # 0 /\ ui' = Idle /\ UNCHANGED <<steam, active>>
    /\ UNCHANGED <<autologin, remembered, configured, gen, worker, watch, screenVars>>

\* loginusers.vdf and the registry: who signs in when Steam starts.
AutoLoginTo(a) == autologin' = a

\* The ConnectCache entry of a, from the token in the vault.
TokenWritten(a) == IF a \in accepted THEN remembered \cup {a} ELSE remembered \ {a}

\* Preferences can only be written once Steam has made the account's files.
FirstLogin(a) == a \notin configured

\* Preferences, auto-login and, with a token, the ConnectCache entry.
LaunchWrites ==
    /\ ui.pc = "write"
    /\ \/ /\ ui' = [ui EXCEPT !.pc = "spawn", !.deferred = FirstLogin(ui.acct)]
          /\ IF ui.use = "token"
             THEN AutoLoginTo(ui.acct) /\ remembered' = TokenWritten(ui.acct)
             ELSE AutoLoginTo(NoOne) /\ UNCHANGED remembered
       \/ /\ ui.use = "token" /\ ui' = Idle       \* local.vdf could not be written
          /\ AutoLoginTo(ui.acct) /\ UNCHANGED remembered
    /\ UNCHANGED <<steam, active, configured, gen, worker, watch, screenVars>>

\* The detached thread of the launch the UI thread is in.
Begun(pc, counted) ==
    [pc |-> pc, counted |-> counted, acct |-> ui.acct, deferred |-> ui.deferred]

\* Steam is started (if one is up by now, it stays the only one).  A password
\* launch takes its generation only here.
LaunchSpawns ==
    /\ ui.pc = "spawn" /\ ui' = Idle
    /\ \/ LET g == IF ui.use = "token" THEN gen ELSE gen + 1 IN
          /\ gen' = g
          /\ steam' = IF steam = 0 THEN g ELSE steam
          /\ IF ui.use = "password"
             THEN worker' = [worker EXCEPT ![g] = Begun("window", FALSE)] /\ UNCHANGED watch
             ELSE /\ worker' = IF ui.deferred
                               THEN [worker EXCEPT ![g] = Begun("signin", TRUE)] ELSE worker
                  /\ watch' = [watch EXCEPT ![g] = [pc |-> "poll", acct |-> ui.acct]]
       \/ UNCHANGED <<gen, steam, worker, watch>>  \* CreateProcess failed
    /\ UNCHANGED <<active, autologin, remembered, configured, screenVars>>

\* acquire_cm_token ends; its callback answers whatever is pending by then.
MintEnds(a, ok) ==
    /\ UiFree /\ mints[a] > 0
    /\ mints' = [mints EXCEPT ![a] = @ - 1]
    /\ IF ok THEN cm' = [cm EXCEPT ![a] = "unknown"] /\ accepted' \in {accepted \cup {a}, accepted \ {a}}
       ELSE UNCHANGED <<cm, accepted>>
    /\ pending' = [pending EXCEPT !.minting = FALSE, !.done = TRUE, !.ok = ok]
    /\ UNCHANGED <<steamVars, gen, ui, worker, watch, attempted, pressed, autos>>

\* The pump of the accounts screen: the minted account is launched.
PumpLaunches ==
    /\ UiFree /\ pending.done
    /\ pending' = NoPending
    /\ IF pending.ok /\ pending.acct # NoOne
       THEN /\ DoLaunch(pending.acct, "token")
            /\ autos' = IF pending.acct \in attempted
                        THEN [autos EXCEPT ![pending.acct] = @ + 1] ELSE autos
       ELSE UNCHANGED <<gen, ui, autos>>
    /\ UNCHANGED <<steamVars, worker, watch, mints, attempted, cm, accepted, pressed>>
-----------------------------------------------------------------------------
(* Steam: it signs in whom AutoLoginUser names, if it has a credential. *)

SteamSignsIn(a) ==
    /\ steam # 0 /\ active # a
    /\ \/ autologin = a /\ a \in remembered
       \/ worker[steam].pc = "typed" /\ worker[steam].acct = a
    /\ active' = a /\ remembered' = remembered \cup {a}
    /\ configured' = configured \cup {a}
    /\ UNCHANGED <<steam, autologin, gen, ui, worker, watch, screenVars>>

\* The user closes Steam.
SteamExits ==
    /\ steam # 0 /\ steam' = 0 /\ active' = NoOne
    /\ UNCHANGED <<autologin, remembered, configured, gen, ui, worker, watch, screenVars>>
-----------------------------------------------------------------------------
(* The detached driver and reapply of generation g. *)

Ends(g) == worker' = [worker EXCEPT ![g] = NoWorker] /\ UNCHANGED steamVars
Goes(g, pc) == worker' = [worker EXCEPT ![g].pc = pc]
Detached == UNCHANGED <<gen, ui, watch, screenVars>>

\* find_login_window: the window of the Steam it started.
LoginWindow(g) == steam = g

\* drive_login_state .. drive_selection_state: name, password, code, typed at
\* whatever page classify sees.
Types(g) == Goes(g, "typed")

\* worker_body: waits for the window of its Steam and types; ends when
\* superseded, on an error screen or at its deadline.
Driver(g) ==
    /\ \/ /\ worker[g].pc = "window" /\ LoginWindow(g) /\ IsCurrent(g)
          /\ Types(g) /\ UNCHANGED steamVars
       \/ /\ worker[g].pc = "typed" /\ active = worker[g].acct /\ IsCurrent(g)
          /\ IF worker[g].deferred THEN Goes(g, "setup") /\ UNCHANGED steamVars
             ELSE Ends(g)
       \/ worker[g].pc \in {"window", "typed"} /\ Ends(g)
    /\ Detached

\* first_login_reapply::run up to the shutdown: the sign-in (token path), the
\* first-login setup; it gives up when superseded or when nobody signs in.
ReapplyWaits(g) ==
    /\ \/ /\ worker[g].pc = "signin" /\ active = worker[g].acct /\ IsCurrent(g)
          /\ Goes(g, "setup") /\ UNCHANGED steamVars
       \/ /\ worker[g].pc = "setup" /\ IsCurrent(g)
          /\ Goes(g, "stop") /\ UNCHANGED steamVars
       \/ worker[g].pc = "signin" /\ Ends(g)
       \/ worker[g].pc = "setup" /\ ~IsCurrent(g) /\ Ends(g)
    /\ Detached

\* Steam is shut down (whoever's it is; a failure is only logged), the settings
\* are written.
ReapplyStops(g) ==
    /\ worker[g].pc = "stop" /\ Goes(g, "check")
    /\ SteamDown \/ (steam # 0 /\ UNCHANGED <<steam, active>>)
    /\ UNCHANGED <<autologin, remembered, configured>> /\ Detached

\* The last look at the generation.
ReapplyChecks(g) ==
    /\ worker[g].pc = "check"
    /\ IF IsCurrent(g) THEN Goes(g, "relaunch") /\ UNCHANGED steamVars ELSE Ends(g)
    /\ Detached

\* The token put back if there is one, auto-login set, Steam started again,
\* or not started.
ReapplyRelaunches(g) ==
    /\ worker[g].pc = "relaunch"
    /\ AutoLoginTo(worker[g].acct) /\ remembered' \in {remembered, remembered \cup {worker[g].acct}}
    /\ \/ steam' = (IF steam = 0 THEN g ELSE steam) /\ Goes(g, "flush")
       \/ worker' = [worker EXCEPT ![g] = NoWorker] /\ UNCHANGED steam
    /\ UNCHANGED <<active, configured>> /\ Detached

\* wait_for_token_flush: until the token rotated, superseded, or 30 s.
ReapplyEnds(g) == worker[g].pc = "flush" /\ Ends(g) /\ Detached
-----------------------------------------------------------------------------
(* The watcher of token launch g: worker thread, then a UI callback. *)

\* poll_for_signin: ActiveUser of the registry.
SignedIn(g) == active = watch[g].acct

WatcherStep(g) ==
    /\ \/ watch[g].pc = "poll" /\ SignedIn(g)
          /\ watch' = [watch EXCEPT ![g].pc = "wait"]
       \/ watch[g].pc = "poll" /\ ~SignedIn(g)   \* 90 polls are over
          /\ watch' = [watch EXCEPT ![g].pc = "refused"]
       \/ watch[g].pc = "wait" /\ ~InFlight
          /\ watch' = [watch EXCEPT ![g].pc = "read"]
       \/ watch[g].pc = "wait" /\ InFlight      \* 300 polls are over: "reading anyway"
          /\ watch' = [watch EXCEPT ![g].pc = "overdue"]
    /\ UNCHANGED <<steamVars, gen, ui, worker, screenVars>>

\* adopt_connect_cache_token: the entry as Steam left it, if it is there.
Adopted(a) == IF a \in remembered THEN accepted \cup {a} ELSE accepted

\* Signed in: the token is valid, and read back as Steam rotated it.
ReadBack(g) ==
    /\ UiFree /\ watch[g].pc \in {"read", "overdue"}
    /\ LET a == watch[g].acct IN
        /\ cm' = [cm EXCEPT ![a] = "valid"]
        /\ accepted' = Adopted(a)
        /\ attempted' = attempted \ {a} /\ autos' = [autos EXCEPT ![a] = 0]
    /\ watch' = [watch EXCEPT ![g] = NoWorker]
    /\ UNCHANGED <<steamVars, gen, ui, worker, pending, mints, pressed>>

\* Mutant: only the running mint is looked at.
MayRemint_mutant(a) == ~pending.minting

\* remint_cm_token_after_revoke: once per press, one mint at a time.
MayRemint(a) == ~pending.minting /\ a \notin attempted

\* Never signed in: the token counts as revoked and is minted anew.
Refused(g) ==
    /\ UiFree /\ watch[g].pc = "refused"
    /\ LET a == watch[g].acct IN
        /\ cm' = [cm EXCEPT ![a] = "revoked"]
        /\ IF MayRemint(a)
           THEN /\ attempted' = attempted \cup {a}
                /\ IF a \in NoPassword THEN UNCHANGED <<pending, mints>>
                   ELSE /\ pending' = MintingFor(a)
                        /\ mints' = [mints EXCEPT ![a] = @ + 1]
           ELSE UNCHANGED <<attempted, pending, mints>>
    /\ watch' = [watch EXCEPT ![g] = NoWorker]
    /\ UNCHANGED <<steamVars, gen, ui, worker, accepted, pressed, autos>>
-----------------------------------------------------------------------------
LaunchNext ==
    \/ \E a \in Player : \/ \E use \in {"password", "token"} : Press(a, use)
                       \/ \E ok \in BOOLEAN : MintEnds(a, ok)
                       \/ SteamSignsIn(a)
    \/ LaunchShutsSteam \/ LaunchWrites \/ LaunchSpawns \/ PumpLaunches \/ SteamExits
    \/ \E g \in Gen : \/ Driver(g) \/ ReapplyWaits(g) \/ ReapplyStops(g)
                      \/ ReapplyChecks(g) \/ ReapplyRelaunches(g) \/ ReapplyEnds(g)
                      \/ WatcherStep(g) \/ ReadBack(g) \/ Refused(g)

LaunchSpec == LaunchInit /\ [][LaunchNext]_launchVars
-----------------------------------------------------------------------------
(***************************************************************************)
(* Properties.                                                             *)
(***************************************************************************)

\* A token Steam keeps refusing does not restart Steam in a loop: between two
\* presses or confirmed sign-ins of an account it is relaunched by itself at
\* most once, whatever mints, watchers and other launches end in between
\* (app_state.hpp:545-547).
NoRelaunchLoop == \A a \in Player : autos[a] <= 1

\* A watcher that waited the reapplies out reads the token back only after the
\* reapply of its launch is over: read before its restart, the vault would keep
\* a token the second sign-in has already replaced (first_login_reapply.hpp,
\* in_flight).  One whose 300 polls are over ("overdue") reads anyway, and may
\* keep such a token: wait_out_first_login_reapply says so in the log.
ReadBackAfterReapply == \A g \in Gen : watch[g].pc = "read" => worker[g].pc = "none"

\* Types, and no launch goes round in circles.
LaunchInv == LaunchTypeOK /\ NoRelaunchLoop
=============================================================================
