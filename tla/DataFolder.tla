------------------------------ MODULE DataFolder ------------------------------
(***************************************************************************)
(* Where the application keeps its data: the folder each start resolves    *)
(* from the registry (HKCU) and the drives that are there, the move of the *)
(* data to another folder while the application runs, and the removal of   *)
(* the old folder by the next start; with crashes at every step, drives    *)
(* that come and go between runs, and the saver thread writing meanwhile.  *)
(*                                                                         *)
(* folder[d] is what a start that resolves to d finds there: the edits in  *)
(* the vaults its registry.json lists.  Folders do not contain each other. *)
(***************************************************************************)
EXTENDS Naturals

CONSTANTS Default,       \* local_appdata_dir()
          Custom,        \* folders the user may choose
          Edits,         \* changes to an account
          None,          \* no folder, no registry value
          RestartAtOnce, \* TRUE: the user moves the data at rest and changes nothing before restarting
          ChecksTarget   \* TRUE: the user looks into a folder before moving the data onto it

ASSUME Names == Default \notin Custom /\ None \notin Custom \cup {Default}
ASSUME NoneIsNoContents == \A c \in SUBSET Edits : c # None
ASSUME Switches == RestartAtOnce \in BOOLEAN /\ ChecksTarget \in BOOLEAN

Folders == Custom \cup {Default}

VARIABLES
    folder,      \* folder[d]: the edits to be found in d, or None when there is no such folder
    legacy,      \* folders with a vault.bin at their root, as earlier versions kept it
    attached,    \* folders whose drive is there
    dataDir,     \* HKCU value of the custom data location, or None
    cleanupOld,  \* HKCU value of the folder to remove at the next start, or None
    dir,         \* data_dir(), resolved once and cached; that of the last run when none runs
    unavailable, \* custom_data_dir_unavailable(): this run fell back to the default
    ui,          \* where the UI thread is
    mem,         \* the vault in memory
    pending,     \* the saver has a snapshot of mem to write
    target,      \* the folder moved to; with ui = "frames", s_restart_pending is set
    saved,       \* history: every edit that was ever on disk
    left         \* history: what the last run in this place had saved

drives == <<folder, legacy, attached>>
hkcu == <<dataDir, cleanupOld>>
process == <<dir, unavailable, ui, mem, pending, target>>
history == <<saved, left>>
vars == <<drives, hkcu, process, history>>

UiStates == {"gone", "cleanup", "forget", "open", "frames", "copied", "recorded", "reset"}

\* First launch; at most one folder holds a vault of an earlier version.
Init ==
    /\ \E d \in Custom \cup {None}, e \in Edits :
          /\ folder = [f \in Folders |-> IF f = d THEN {e} ELSE None]
          /\ legacy = {d} \ {None}
          /\ saved = IF d = None THEN {} ELSE {e}
    /\ attached = Folders
    /\ dataDir = None /\ cleanupOld = None
    /\ dir = Default /\ unavailable = FALSE
    /\ ui = "gone" /\ mem = {} /\ pending = FALSE /\ target = None
    /\ left = {}

-------------------------------------------------------------------------------
(* A start. *)

Contents(d) == IF folder[d] = None THEN {} ELSE folder[d]

Usable == dataDir # None /\ dataDir \in attached

\* resolve_data_dir(), at the first call of data_dir(): the custom folder, created
\* if its drive is there, or else the default one.
Resolve ==
    /\ ui = "gone"
    /\ dir' = IF Usable THEN dataDir ELSE Default
    /\ unavailable' = (dataDir # None /\ ~Usable)
    /\ folder' = [folder EXCEPT ![dir'] = Contents(dir')]
    /\ left' = IF unavailable \/ unavailable' THEN {} ELSE left
    /\ ui' = "cleanup"
    /\ UNCHANGED <<legacy, attached, hkcu, mem, pending, target, saved>>

\* A slip: the folder in use is not exempt.
RemoveInUse_mutant ==
    /\ ui = "cleanup" /\ cleanupOld # None
    /\ folder' = IF cleanupOld \in attached THEN [folder EXCEPT ![cleanupOld] = None] ELSE folder
    /\ legacy' = IF cleanupOld \in attached THEN legacy \ {cleanupOld} ELSE legacy
    /\ ui' = "forget"
    /\ UNCHANGED <<attached, hkcu, dir, unavailable, mem, pending, target, history>>

\* cleanup_relocated_old_dir(): the recorded folder is removed, unless it is the
\* one in use; one whose drive is away counts as removed.
RemoveOld ==
    /\ ui = "cleanup" /\ cleanupOld \notin {None, dir}
    /\ folder' = IF cleanupOld \in attached THEN [folder EXCEPT ![cleanupOld] = None] ELSE folder
    /\ legacy' = IF cleanupOld \in attached THEN legacy \ {cleanupOld} ELSE legacy
    /\ ui' = "forget"
    /\ UNCHANGED <<attached, hkcu, dir, unavailable, mem, pending, target, history>>

\* remove_all() stops at a file somebody holds open; the value is kept for the
\* next start.
RemoveFails ==
    /\ ui = "cleanup" /\ cleanupOld \notin {None, dir} /\ cleanupOld \in attached
    /\ folder[cleanupOld] # None
    /\ folder' \in {folder, [folder EXCEPT ![cleanupOld] = {}]}
    /\ legacy' \in {legacy, legacy \ {cleanupOld}}
    /\ ui' = "open"
    /\ UNCHANGED <<attached, hkcu, dir, unavailable, mem, pending, target, history>>

NothingToRemove ==
    /\ ui = "cleanup" /\ cleanupOld \in {None, dir}
    /\ ui' = "forget"
    /\ UNCHANGED <<drives, hkcu, dir, unavailable, mem, pending, target, history>>

\* The value is deleted, which is taken to succeed here and in RecordNewFails.
ForgetOld ==
    /\ ui = "forget"
    /\ cleanupOld' = None
    /\ ui' = "open"
    /\ UNCHANGED <<drives, dataDir, dir, unavailable, mem, pending, target, history>>

\* init_vaults() moves a vault.bin at the root to its own directory, and the
\* vault is opened.
Open ==
    /\ ui = "open"
    /\ mem' = folder[dir]
    /\ legacy' = legacy \ {dir}
    /\ ui' = "frames"
    /\ UNCHANGED <<folder, attached, hkcu, dir, unavailable, pending, target, saved, left>>

-------------------------------------------------------------------------------
(* A run. *)

\* A change that the saver is to write; no edit is made twice.
Edit(e) ==
    /\ ui = "frames"
    /\ RestartAtOnce => target = None
    /\ e \notin saved \cup mem
    /\ mem' = mem \cup {e}
    /\ pending' = TRUE
    /\ UNCHANGED <<drives, hkcu, dir, unavailable, ui, target, history>>

\* The saver thread writes to the folder resolved at the start, whatever the UI
\* thread is doing.
Save ==
    /\ pending
    /\ folder' = [folder EXCEPT ![dir] = mem]
    /\ pending' = FALSE
    /\ saved' = saved \cup mem
    /\ left' = mem
    /\ UNCHANGED <<legacy, attached, hkcu, dir, unavailable, ui, mem, target>>

\* The "Move data folder" dialog warns of a vault.bin at the root of the folder.
Warned(d) == d \in legacy

MayMoveTo(d) ==
    /\ d \in attached \ {dir}
    /\ RestartAtOnce => ~pending
    /\ IF ChecksTarget THEN Contents(d) \subseteq folder[dir] ELSE ~Warned(d)

\* A slip: a failed copy goes unnoticed.
CopyUnchecked_mutant(d) ==
    /\ ui = "frames" /\ target = None
    /\ MayMoveTo(d)
    /\ folder' = [folder EXCEPT ![d] = Contents(d)]
    /\ target' = d
    /\ ui' = "copied"
    /\ UNCHANGED <<legacy, attached, hkcu, dir, unavailable, mem, pending, history>>

\* relocate_data_dir() copies the files over whatever the target holds, its
\* registry.json included ...
Copy(d) ==
    /\ ui = "frames" /\ target = None
    /\ MayMoveTo(d)
    /\ folder' = [folder EXCEPT ![d] = folder[dir]]
    /\ target' = d
    /\ ui' = "copied"
    /\ UNCHANGED <<legacy, attached, hkcu, dir, unavailable, mem, pending, history>>

\* ... or fails, with the vault copied or not, and nothing else happens.
CopyFails(d) ==
    /\ ui = "frames" /\ target = None
    /\ MayMoveTo(d)
    /\ folder' \in {[folder EXCEPT ![d] = c] : c \in {Contents(d), folder[dir]}}
    /\ UNCHANGED <<legacy, attached, hkcu, process, history>>

\* The folder in use is recorded for removal; a failure to do so is ignored.
RecordOld ==
    /\ ui = "copied"
    /\ cleanupOld' \in {dir, cleanupOld}
    /\ ui' = "recorded"
    /\ UNCHANGED <<drives, dataDir, dir, unavailable, mem, pending, target, history>>

\* set_custom_data_dir(): the new folder is recorded last.  After a reset to the
\* default, the value is to be cleared again.
RecordNew ==
    /\ ui = "recorded"
    /\ dataDir' = target
    /\ ui' \in IF target = Default THEN {"reset", "frames"} ELSE {"frames"}
    /\ UNCHANGED <<drives, cleanupOld, dir, unavailable, mem, pending, target, saved, left>>

\* The registry refuses: the record for removal is taken back.
RecordNewFails ==
    /\ ui = "recorded"
    /\ cleanupOld' = None
    /\ target' = None
    /\ ui' = "frames"
    /\ UNCHANGED <<drives, dataDir, dir, unavailable, mem, pending, history>>

\* clear_custom_data_dir(), its failure ignored.
ClearNew ==
    /\ ui = "reset"
    /\ dataDir' \in {None, dataDir}
    /\ ui' = "frames"
    /\ UNCHANGED <<drives, cleanupOld, dir, unavailable, mem, pending, target, history>>

Closed ==
    /\ ui' = "gone" /\ mem' = {} /\ pending' = FALSE /\ target' = None
    /\ UNCHANGED <<dir, unavailable>>

\* The window is closed; the shutdown sequence waits for the saver.
Exit ==
    /\ ui = "frames" /\ ~pending
    /\ Closed
    /\ UNCHANGED <<drives, hkcu, history>>

\* "Locate an existing data folder" on the unlock screen, for a folder with a
\* vault.bin at its root, and the exit that comes with it.
Locate(d) ==
    /\ ui = "frames" /\ ~pending
    /\ d \in attached \cap legacy
    /\ dataDir' = d
    /\ left' = {}
    /\ Closed
    /\ UNCHANGED <<drives, cleanupOld, saved>>

Crash ==
    /\ ui # "gone"
    /\ Closed
    /\ UNCHANGED <<drives, hkcu, history>>

\* A USB stick is taken out or put in, between two runs.
Replug(d) ==
    /\ ui = "gone"
    /\ attached' = IF d \in attached THEN attached \ {d} ELSE attached \cup {d}
    /\ UNCHANGED <<folder, legacy, hkcu, process, history>>

-------------------------------------------------------------------------------
StartNext == Resolve \/ RemoveOld \/ RemoveFails \/ NothingToRemove \/ ForgetOld \/ Open

MoveNext ==
    \/ \E d \in Folders : Copy(d) \/ CopyFails(d)
    \/ RecordOld \/ RecordNew \/ RecordNewFails \/ ClearNew

Next ==
    \/ StartNext \/ MoveNext
    \/ \E e \in Edits : Edit(e)
    \/ \E d \in Folders : Locate(d)
    \/ \E d \in Custom : Replug(d)
    \/ Save \/ Exit \/ Crash

Spec == Init /\ [][Next]_vars

-------------------------------------------------------------------------------
TypeOK ==
    /\ folder \in [Folders -> (SUBSET Edits) \cup {None}]
    /\ legacy \in SUBSET Folders
    /\ attached \in SUBSET Folders
    /\ dataDir \in Folders \cup {None}
    /\ cleanupOld \in Folders \cup {None}
    /\ dir \in Folders
    /\ unavailable \in BOOLEAN
    /\ ui \in UiStates
    /\ mem \in SUBSET Edits
    /\ pending \in BOOLEAN
    /\ target \in Folders \cup {None}
    /\ saved \in SUBSET Edits
    /\ left \in SUBSET Edits

\* Every edit that was ever saved can still be found in some folder, whatever
\* moves, resets, fall-backs, failures and crashes came after it (the settings:
\* "Moves the vault, settings and logs elsewhere").
NothingLost == \A e \in saved : \E d \in Folders : e \in Contents(d)

FoundBeside(d) == \A e \in Contents(d) : \E c \in Folders \ {d} : e \in Contents(c)

\* A start removes a folder only when everything in it is somewhere else
\* (paths.hpp: the tree is copied, and only then recorded for removal).
RemovedIsKept ==
    [][\A d \in Folders : folder[d] # None /\ folder'[d] = None => FoundBeside(d)]_vars

\* The user finds after a restart what the last run had saved, moved or not and
\* however the move ended, as long as neither run had to fall back to the default
\* folder and the user pointed it nowhere else.
AccountsReappear == ui # "gone" => folder[dir] # None /\ left \subseteq folder[dir]

\* What the properties above rest on, with both habits of the user.
Running == ui \in {"frames", "copied", "recorded", "reset"}
Moving == target # None
Configured == IF dataDir = None THEN Default ELSE dataDir

\* What is in use is in memory, and a move has copied all of it.
UseOK ==
    /\ ui # "gone" => folder[dir] # None
    /\ Running => folder[dir] \subseteq mem
    /\ pending => Running /\ ~Moving
    /\ ui \in {"copied", "recorded", "reset"} => Moving
    /\ ui = "reset" => target = Default
    /\ Moving => Running /\ target # dir /\ folder[dir] \subseteq Contents(target)

\* What is recorded for removal is found elsewhere, and is not what is in use,
\* except on the way to a restart.
RemovalOK ==
    /\ cleanupOld # None => FoundBeside(cleanupOld)
    /\ ui = "open" \/ (ui = "frames" /\ ~Moving) => cleanupOld # dir

\* What the last run saved is in the folder the next one will be pointed at.
PlaceOK ==
    ~unavailable =>
        /\ left \subseteq Contents(Configured)
        /\ ui \in {"cleanup", "forget", "open", "copied", "recorded"} => Configured = dir
        /\ ui = "frames" => Configured = IF Moving THEN target ELSE dir
        /\ ui = "reset" => Configured = target

\* The inductive invariant: no step of a start, a run or a move, and no crash
\* between two of them, disturbs any of this.
FolderInv == TypeOK /\ NothingLost /\ AccountsReappear /\ UseOK /\ RemovalOK /\ PlaceOK
===============================================================================
