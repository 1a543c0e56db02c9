----------------------------- MODULE VaultSession -----------------------------
(***************************************************************************)
(* One process of the application around its vault: the UI thread          *)
(* (AppState: unlock, edit, lock, flush, exit), the VaultSaver thread that  *)
(* writes vault.bin behind it, and what survives a crash.                   *)
(*                                                                         *)
(* A vault's contents are the set of edits applied to it; a snapshot also  *)
(* carries the vault it belongs to, which stands for the master password   *)
(* it is encrypted under.  VaultSaver's mutex is held only around the      *)
(* steps below, and every change of its state is followed by notify_all on *)
(* a wait with a predicate, so each step is one action.                    *)
(***************************************************************************)
EXTENDS Naturals

CONSTANTS Vaults,        \* vault ids known to the registry
          Edits,         \* changes to a vault
          None,          \* no file, no pending save
          Blank,         \* AppState::vault while locked: default-constructed, empty password
          SettledUnlock, \* TRUE: typing a password takes longer than a debounce and a write
          PickAgain      \* TRUE: another vault may be picked after this process has saved one

Snapshot == [vault : Vaults, edits : SUBSET Edits]
Saved == Snapshot \cup {Blank}

ASSUME Sentinels == None \notin Saved /\ Blank \notin Snapshot
ASSUME Switches == SettledUnlock \in BOOLEAN /\ PickAgain \in BOOLEAN

VARIABLES
    disk,     \* disk[v]: the contents of v's vault.bin, or None
    active,   \* platform::active_vault_id()
    unlocked, \* AppState::unlocked, and with it a non-empty master_password
    mem,      \* AppState::vault
    dirty,    \* AppState::vault_dirty
    ui,       \* where the UI thread is
    started,  \* VaultSaver::started_
    path,     \* VaultSaver::path_, as the vault whose file it names
    pending,  \* VaultSaver::pending_ without its deadline, or None
    due,      \* the deadline of pending_ has passed
    stop,     \* VaultSaver::stop_
    work,     \* the snapshot being written, None unless busy_
    saver,    \* where the saver thread is
    failed    \* a write failed since the vault was opened, and none succeeded after it

uiVars == <<active, unlocked, mem, dirty, ui>>
saverVars == <<started, path, pending, due, stop, work, saver>>
vars == <<disk, uiVars, saverVars, failed>>

UiStates == {"frames", "flush", "exit", "join", "gone"}
SaverStates == {"off", "wait", "busy", "ended"}

Fresh(v) == [vault |-> v, edits |-> {}]
Edited(s, e) == [vault |-> s.vault, edits |-> s.edits \cup {e}]

\* State of a process that has just started; no vault is open.
FreshProcess ==
    /\ unlocked = FALSE /\ mem = Blank /\ dirty = FALSE
    /\ started = FALSE /\ pending = None /\ due = FALSE /\ stop = FALSE
    /\ work = None /\ saver = "off" /\ failed = FALSE

Init ==
    /\ FreshProcess
    /\ ui = "frames"
    /\ disk \in [Vaults -> Snapshot \cup {None}]
    /\ \A v \in Vaults : disk[v] # None => disk[v].vault = v
    /\ active \in Vaults
    /\ path = active

-------------------------------------------------------------------------------
(* VaultSaver's operations, called on the UI thread. *)

\* A slip: flush() does not wait for the write under way.
NoBusyTest_mutant == pending = None

\* pending_ empty and busy_ false: flush() does not wait.
Drained == pending = None /\ saver # "busy"

\* A slip: the newest snapshot is dropped while one is being written.
KeepOldest_mutant(contents) ==
    /\ started' = TRUE
    /\ path' = IF started THEN path ELSE active
    /\ saver' = IF started THEN saver ELSE "wait"
    /\ pending' = IF pending = None /\ work = None THEN contents ELSE pending
    /\ due' = FALSE
    /\ UNCHANGED <<stop, work>>

\* start(vault_path()) then schedule(vault, master_password): the path is kept
\* from the first start, the latest snapshot replaces an older one.
Schedule(contents) ==
    /\ started' = TRUE
    /\ path' = IF started THEN path ELSE active
    /\ saver' = IF started THEN saver ELSE "wait"
    /\ pending' = contents
    /\ due' = FALSE
    /\ UNCHANGED <<stop, work>>

\* save_vault_if_dirty() on a vault just marked dirty: nothing is saved while
\* the password is empty, and the mark stays.
SaveIfDirty(contents) ==
    IF unlocked
    THEN Schedule(contents) /\ dirty' = FALSE
    ELSE dirty' = TRUE /\ UNCHANGED saverVars

\* flush_pending_save() up to its wait: what is dirty is scheduled, and the
\* deadline of what is pending is brought forward to now.
BeginFlush ==
    IF dirty /\ unlocked
    THEN /\ started' = TRUE
         /\ path' = IF started THEN path ELSE active
         /\ saver' = IF started THEN saver ELSE "wait"
         /\ pending' = mem
         /\ due' = TRUE
         /\ dirty' = FALSE
         /\ UNCHANGED <<stop, work>>
    ELSE /\ due' = (pending # None)
         /\ UNCHANGED <<started, path, saver, pending, stop, work, dirty>>

-------------------------------------------------------------------------------
(* The UI thread. *)

\* A handler or background result changes an account and saves: most callers.
EditAndSave(e) ==
    /\ ui = "frames" /\ unlocked
    /\ mem' = Edited(mem, e)
    /\ SaveIfDirty(mem')
    /\ UNCHANGED <<disk, active, unlocked, ui, failed>>

\* refresh_account_data fills in missing steam ids and only marks the vault dirty.
EditOnly(e) ==
    /\ ui = "frames" /\ unlocked
    /\ mem' = Edited(mem, e)
    /\ dirty' = TRUE
    /\ UNCHANGED <<disk, active, unlocked, ui, saverVars, failed>>

\* A refresh-all result applied after the vault was locked: there is no account
\* to change, but the vault is marked dirty and saved all the same.
LateResult ==
    /\ ui = "frames" /\ ~unlocked
    /\ SaveIfDirty(mem)
    /\ UNCHANGED <<disk, active, unlocked, mem, ui, failed>>

\* A wizard or a launch needs the vault on disk before it goes on.
Flush ==
    /\ ui = "frames" /\ unlocked
    /\ started \/ dirty
    /\ BeginFlush
    /\ ui' = "flush"
    /\ UNCHANGED <<disk, active, unlocked, mem, failed>>

FlushReturns ==
    /\ ui = "flush"
    /\ Drained
    /\ ui' = "frames"
    /\ UNCHANGED <<disk, active, unlocked, mem, dirty, saverVars, failed>>

\* lock_vault() on the idle timeout: the vault and password are dropped, and
\* with them a change that was marked dirty and not yet scheduled.
Lock ==
    /\ ui = "frames" /\ unlocked
    /\ unlocked' = FALSE
    /\ mem' = Blank
    /\ dirty' = FALSE
    /\ UNCHANGED <<disk, active, ui, saverVars, failed>>

\* "Choose a different vault", and a card of the picker.
Pick(v) ==
    /\ ui = "frames" /\ ~unlocked
    /\ PickAgain \/ ~started
    /\ active' = v
    /\ UNCHANGED <<disk, unlocked, mem, dirty, ui, saverVars, failed>>

Settled == SettledUnlock => Drained

EnterWith(contents) ==
    /\ unlocked' = TRUE
    /\ mem' = contents
    /\ failed' = FALSE
    /\ UNCHANGED <<active, dirty, ui, saverVars>>

\* try_unlock() or try_cached_unlock() with the password the file is encrypted
\* under; any other attempt leaves everything as it was.
Unlock ==
    /\ ui = "frames" /\ ~unlocked
    /\ Settled
    /\ disk[active] # None
    /\ EnterWith(disk[active])
    /\ UNCHANGED disk

\* create_vault(): a new file in place of whatever is there, opened at once.
Create ==
    /\ ui = "frames" /\ ~unlocked
    /\ Settled
    /\ disk' = [disk EXCEPT ![active] = Fresh(active)]
    /\ EnterWith(Fresh(active))

\* A slip: the new vault gets the id of one that exists.
CreateOver_mutant(v) ==
    /\ ui = "frames" /\ unlocked
    /\ v # active
    /\ disk' = [disk EXCEPT ![v] = Fresh(v)]
    /\ UNCHANGED <<uiVars, saverVars, failed>>

\* "Create vault" in the settings writes the new vault's own file and opens nothing.
CreateBeside(v) ==
    /\ ui = "frames" /\ unlocked
    /\ v # active /\ disk[v] = None
    /\ disk' = [disk EXCEPT ![v] = Fresh(v)]
    /\ UNCHANGED <<uiVars, saverVars, failed>>

\* The window closes: flush_pending_save() ...
Exit ==
    /\ ui = "frames"
    /\ BeginFlush
    /\ ui' = "exit"
    /\ UNCHANGED <<disk, active, unlocked, mem, failed>>

\* A slip: the thread is joined without being asked to stop.
JoinOnly_mutant ==
    /\ ui = "exit"
    /\ Drained
    /\ ui' = "join"
    /\ UNCHANGED <<disk, active, unlocked, mem, dirty, saverVars, failed>>

\* ... returns, and ~VaultSaver asks the thread to stop ...
ExitFlushed ==
    /\ ui = "exit"
    /\ Drained
    /\ ui' = "join"
    /\ stop' = TRUE
    /\ UNCHANGED <<disk, active, unlocked, mem, dirty, started, path, pending, due, work,
                   saver, failed>>

NewProcess ==
    /\ unlocked' = FALSE /\ mem' = Blank /\ dirty' = FALSE
    /\ started' = FALSE /\ pending' = None /\ due' = FALSE /\ stop' = FALSE
    /\ work' = None /\ saver' = "off" /\ failed' = FALSE
    /\ UNCHANGED <<disk, active, path>>

\* ... and joins it.
Joined ==
    /\ ui = "join"
    /\ saver \in {"off", "ended"}
    /\ ui' = "gone"
    /\ NewProcess

\* The process dies; the files stay.
Crash ==
    /\ ui # "gone"
    /\ ui' = "gone"
    /\ NewProcess

\* init_vaults() chooses the vault of the next process.
Restart(v) ==
    /\ ui = "gone"
    /\ ui' = "frames"
    /\ active' = v
    /\ UNCHANGED <<disk, unlocked, mem, dirty, saverVars, failed>>

-------------------------------------------------------------------------------
(* The saver thread. *)

\* The debounce interval since the latest schedule() has passed.
Debounced ==
    /\ pending # None /\ ~due
    /\ due' = TRUE
    /\ UNCHANGED <<disk, uiVars, started, path, pending, stop, work, saver, failed>>

\* A slip: the snapshot is copied out and left pending.
TakeKeepsPending_mutant ==
    /\ saver = "wait"
    /\ pending # None
    /\ due \/ stop
    /\ work' = pending
    /\ saver' = "busy"
    /\ UNCHANGED <<disk, uiVars, started, path, pending, due, stop, failed>>

\* run(): the pending snapshot is moved out and busy_ set, under the mutex.
Take ==
    /\ saver = "wait"
    /\ pending # None
    /\ due \/ stop
    /\ work' = pending
    /\ pending' = None
    /\ due' = FALSE
    /\ saver' = "busy"
    /\ UNCHANGED <<disk, uiVars, started, path, stop, failed>>

\* save_vault() replaces the file as a whole; busy_ is cleared.
Install ==
    /\ saver = "busy"
    /\ disk' = [disk EXCEPT ![path] = work]
    /\ work' = None
    /\ saver' = "wait"
    /\ failed' = FALSE
    /\ UNCHANGED <<uiVars, started, path, pending, due, stop>>

\* A slip: a failed snapshot is queued again, over one that came in meanwhile.
RetryOverNewer_mutant ==
    /\ saver = "busy"
    /\ pending' = work
    /\ due' = TRUE
    /\ work' = None
    /\ saver' = "wait"
    /\ failed' = TRUE
    /\ UNCHANGED <<disk, uiVars, started, path, stop>>

\* save_vault() throws: the error is logged and the snapshot dropped.
InstallFails ==
    /\ saver = "busy"
    /\ work' = None
    /\ saver' = "wait"
    /\ failed' = TRUE
    /\ UNCHANGED <<disk, uiVars, started, path, pending, due, stop>>

\* run() leaves its loop; the last drain after it finds nothing, because
\* schedule() and the destructor run on the same thread.
End ==
    /\ saver = "wait"
    /\ stop /\ pending = None
    /\ saver' = "ended"
    /\ UNCHANGED <<disk, uiVars, started, path, pending, due, stop, work, failed>>

-------------------------------------------------------------------------------
UiNext ==
    \/ \E e \in Edits : EditAndSave(e) \/ EditOnly(e)
    \/ LateResult \/ Flush \/ FlushReturns \/ Lock
    \/ \E v \in Vaults : Pick(v) \/ CreateBeside(v)
    \/ Unlock \/ Create \/ Exit \/ ExitFlushed \/ Joined

SaverNext == Debounced \/ Take \/ Install \/ InstallFails \/ End

Next == UiNext \/ SaverNext \/ Crash \/ \E v \in Vaults : Restart(v)

Spec == Init /\ [][Next]_vars

\* The saver thread runs, and time passes; a write ends, one way or the other.
\* The UI thread runs on when what it waits for has happened.  Nothing obliges
\* the user to do anything.
Fairness ==
    /\ WF_vars(Debounced) /\ WF_vars(Take) /\ WF_vars(Install \/ InstallFails) /\ WF_vars(End)
    /\ WF_vars(FlushReturns) /\ WF_vars(ExitFlushed) /\ WF_vars(Joined)

FairSpec == Spec /\ Fairness

-------------------------------------------------------------------------------
TypeOK ==
    /\ disk \in [Vaults -> Saved \cup {None}]
    /\ active \in Vaults
    /\ unlocked \in BOOLEAN
    /\ mem \in Saved
    /\ unlocked => mem # Blank
    /\ dirty \in BOOLEAN
    /\ ui \in UiStates
    /\ started \in BOOLEAN
    /\ path \in Vaults
    /\ pending \in Saved \cup {None}
    /\ due \in BOOLEAN
    /\ stop \in BOOLEAN
    /\ work \in Saved \cup {None}
    /\ saver \in SaverStates
    /\ failed \in BOOLEAN

\* A vault's file holds that vault's accounts, under its own password
\* (vault_registry.hpp: the account data lives in the vault's own vault.bin).
OwnVaultOnly == \A v \in Vaults : disk[v] # None => disk[v].vault = v

\* The emptied vault of a locked process, with its empty password, is never
\* scheduled and never written, whatever results arrive while it is locked.
NeverBlank ==
    /\ pending # Blank /\ work # Blank
    /\ \A v \in Vaults : disk[v] # Blank

\* The most recent contents v's file is going to hold if nothing fails.
Newest(v) ==
    CASE started /\ path = v /\ pending # None -> pending
      [] started /\ path = v /\ pending = None /\ work # None -> work
      [] OTHER -> disk[v]

\* What is on screen and not marked dirty is on disk, or on its way there: no
\* path of save, flush, failure, lock and unlock silently forgets a change.
OnScreenIsSaved ==
    (unlocked /\ ui # "gone" /\ ~dirty /\ ~failed) => mem = Newest(active)

\* When flush returns (to a wizard, or to the shutdown sequence), the vault on
\* screen is what the file holds, unless the write failed.
FlushIsDurable ==
    [][(ui \in {"flush", "exit"} /\ ui' # ui /\ ui' # "gone" /\ unlocked /\ ~failed)
          => disk[active] = mem]_vars

\* A vault's file only ever moves forward to contents that include what it
\* held, except when the user creates a vault over it.
ForwardOnly ==
    [][\A v \in Vaults :
          \/ disk'[v] = disk[v]
          \/ ~unlocked /\ disk'[v] = Fresh(v)
          \/ disk[v] = None
          \/ disk'[v].vault = disk[v].vault /\ disk[v].edits \subseteq disk'[v].edits]_vars

\* A caller blocked in flush() gets to continue.
FlushEnds == ui = "flush" ~> ui # "flush"

\* A closed window leads to the end of the process: neither the last flush nor
\* the join of the saver thread waits for ever.
ExitEnds == ui \in {"exit", "join"} ~> ui = "gone"

\* Unless snapshots keep coming in, each pushing the deadline back (as schedule()
\* does), what is pending is taken by the saver thread and not left in memory.
PendingIsTaken ==
    <>[][pending' # None => pending' = pending /\ (due => due')]_<<pending, due>>
        => []<>(pending = None)

\* The saver thread keeps serving: neither its queue nor a caller of flush() waits
\* for ever.
SaverServes == FlushEnds /\ PendingIsTaken

\* What the properties above rest on, in the order information flows: each stage
\* between the file and the screen is of the one vault in use and holds all that
\* the stages nearer the file hold.
ProcessOK ==
    /\ started \/ (pending = None /\ work = None /\ saver = "off")
    /\ saver = "busy" <=> work # None
    /\ ui = "gone" => ~unlocked /\ ~started
    /\ unlocked /\ ui # "frames" => ~dirty

OneVault ==
    /\ started => path = active
    /\ unlocked => mem.vault = active
    /\ pending # None => pending.vault = active
    /\ work # None => work.vault = active

Growing ==
    /\ unlocked => disk[active] # None /\ disk[active].edits \subseteq mem.edits
    /\ unlocked /\ pending # None => pending.edits \subseteq mem.edits
    /\ unlocked /\ work # None => work.edits \subseteq mem.edits
    /\ pending # None /\ work # None => work.edits \subseteq pending.edits
    /\ pending # None /\ disk[active] # None => disk[active].edits \subseteq pending.edits
    /\ work # None /\ disk[active] # None => disk[active].edits \subseteq work.edits

\* The stage nearest the screen that is in use holds what is on screen.
NothingForgotten ==
    unlocked /\ ~dirty =>
        /\ pending # None => pending = mem
        /\ pending = None /\ work # None => work = mem
        /\ pending = None /\ work = None /\ ~failed => disk[active] = mem

\* The inductive invariant: no action of the UI or the saver thread, a crash and a
\* restart included, disturbs the order above.
SessionInv == TypeOK /\ NeverBlank /\ OwnVaultOnly /\ ProcessOK /\ OneVault /\ Growing /\ NothingForgotten

\* The session implements the abstract store: what is accepted for a vault is
\* the newest snapshot scheduled for its file.
Store == INSTANCE VaultStore WITH
    store <- disk,
    accepted <- [v \in Vaults |-> Newest(v)],
    view <- IF unlocked THEN mem ELSE None
StoreSpec == Store!Spec
===============================================================================
