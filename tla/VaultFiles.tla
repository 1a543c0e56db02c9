----------------------------- MODULE VaultFiles -----------------------------
(***************************************************************************)
(* The vaults of a data folder over starts, crashes and restarts: the      *)
(* registry file and the vault directories (app/vault_registry.cpp), the   *)
(* pending switch in the Windows registry (platform/paths.cpp), and the    *)
(* screens that create, choose, delete and auto-open vaults.               *)
(*                                                                         *)
(* registry.json is truncated and rewritten in place, so every save has a  *)
(* moment in which the file on disk is torn; the callers have changed the  *)
(* directories and the list in memory before.  vault.bin files are written *)
(* atomically and are one step.  Names, colours, icons, the order and the  *)
(* time of the last opening only change what a save writes.                *)
(***************************************************************************)
EXTENDS FiniteSets, Integers

CONSTANTS
    Id,     \* names of vault directories
    NoId,   \* no vault: the empty id
    Root    \* the place of a vault file from before vaults had directories

ASSUME PlacesAssumption == NoId \notin Id /\ Root \notin Id /\ NoId # Root

VARIABLES
    registry,   \* registry.json: "absent", "torn" or "ok"
    listed,     \* the ids in it, when it is "ok"
    autoOnDisk, \* the auto-open id in it, when it is "ok"
    bins,       \* where a vault.bin is: vault directories, or the root
    caches,     \* directories with a master_pw.bin
    switchTo,   \* the Windows registry value PendingVault
    remember,   \* settings.json: remember_master_password
    logon,      \* settings.json: logon_action = BackgroundRefresh
    proc,       \* "down", "gui" or "headless"
    screen,     \* "boot", "unlock", "picker", "open" or "leaving"
    active,     \* platform::active_vault_id()
    known,      \* state.vault_registry.vaults
    auto,       \* state.vault_registry.auto_open_id
    saving,     \* save_registry: "no", "due" or "torn"
    own,        \* history: the vault files that hold somebody's accounts
    cut         \* history: a crash or a failed write fell into a change

diskVars == <<registry, listed, autoOnDisk>>
fileVars == <<bins, caches, own>>
settingVars == <<remember, logon>>
procVars == <<proc, screen, active, known, auto>>
vfVars == <<diskVars, fileVars, switchTo, settingVars, procVars, saving, cut>>

VaultFilesTypeOK ==
    /\ registry \in {"absent", "torn", "ok"} /\ listed \subseteq Id
    /\ {autoOnDisk, auto, active, switchTo} \subseteq Id \cup {NoId}
    /\ bins \subseteq Id \cup {Root} /\ caches \subseteq Id /\ known \subseteq Id
    /\ own \subseteq Id \cup {Root}
    /\ {remember, logon, cut} \subseteq BOOLEAN
    /\ proc \in {"down", "gui", "headless"} /\ saving \in {"no", "due", "torn"}
    /\ screen \in {"boot", "unlock", "picker", "open", "leaving"}

\* A computer the program never ran on, or one whose single vault was made by
\* a version that kept it in the root of the data folder.
VaultFilesInit ==
    /\ registry = "absent" /\ listed = {} /\ autoOnDisk = NoId
    /\ bins \in {{}, {Root}} /\ own = bins
    /\ caches = {} /\ switchTo = NoId
    /\ remember \in BOOLEAN /\ logon = FALSE
    /\ proc = "down" /\ screen = "boot" /\ active = NoId
    /\ known = {} /\ auto = NoId /\ saving = "no" /\ cut = FALSE

Idle == saving = "no"
AtWork(s) == proc = "gui" /\ screen = s /\ Idle

(***************************************************************************)
(* save_registry.  A writer marks the save due; the stream then truncates  *)
(* the file, or fails to open it and nothing is reported; then it writes.  *)
(***************************************************************************)
\* A change of the list that is not saved.
SaveDue_mutant == saving' = "no"

SaveDue == saving' = "due"

Truncate ==
    /\ saving = "due"
    /\ registry' = "torn" /\ saving' = "torn"
    /\ UNCHANGED <<listed, autoOnDisk, fileVars, switchTo, settingVars, procVars, cut>>

OpenFails ==
    /\ saving = "due"
    /\ saving' = "no" /\ cut' = TRUE
    /\ UNCHANGED <<diskVars, fileVars, switchTo, settingVars, procVars>>

WriteRegistry ==
    /\ saving = "torn"
    /\ registry' = "ok" /\ listed' = known /\ autoOnDisk' = auto
    /\ saving' = "no"
    /\ UNCHANGED <<fileVars, switchTo, settingVars, procVars, cut>>

SaveRegistry == Truncate \/ OpenFails \/ WriteRegistry

(***************************************************************************)
(* init_vaults.  Without registry.json the vault of an older version is    *)
(* moved into a directory and a registry is saved, moved or not.           *)
(***************************************************************************)
\* new_vault_id: the time and a counter, hence no directory of before.
FreshId == Id \ (bins \cup known \cup listed \cup own \cup caches)

\* A copy that failed, and the removal of what was not copied.
MoveIfExists_mutant(id) ==
    /\ bins' = bins \ {Root} /\ own' = (own \ {Root}) \cup {id} /\ UNCHANGED cut

\* move_if_exists: a rename, else a copy and a removal that may not happen.
MoveIfExists(id) ==
    \/ /\ bins' = (bins \ {Root}) \cup {id}
       /\ own' = (own \ {Root}) \cup {id}
       /\ UNCHANGED cut
    \/ /\ bins' = bins \cup {id}
       /\ own' = (own \ {Root}) \cup {id}
       /\ UNCHANGED cut
    \/ /\ UNCHANGED <<bins, own>>
       /\ cut' = TRUE

MigrateLegacyVault ==
    \E id \in FreshId : MoveIfExists(id) /\ known' = {id}

Start(kind) ==
    /\ proc = "down" /\ Idle
    /\ proc' = kind /\ screen' = "boot" /\ active' = NoId /\ auto' = NoId
    /\ IF registry # "absent"
       THEN /\ known' = {}
            /\ UNCHANGED <<bins, own, cut, saving>>
       ELSE /\ SaveDue
            /\ IF Root \in bins
               THEN MigrateLegacyVault
               ELSE known' = {} /\ UNCHANGED <<bins, own, cut>>
    /\ UNCHANGED <<diskVars, caches, switchTo, settingVars>>

\* load_registry: a file that does not parse reads as an empty registry.
Loaded == IF registry = "ok" THEN listed ELSE {}
LoadedAuto == IF registry = "ok" THEN autoOnDisk ELSE NoId

\* The rest of init_vaults.  h is the pending switch, or NoId.
Resolution(h) ==
    IF h # NoId /\ h \in Loaded THEN [how |-> "direct", ids |-> {h}]
    ELSE IF Loaded = {} THEN [how |-> "create", ids |-> FreshId]
    ELSE IF Cardinality(Loaded) = 1 THEN [how |-> "direct", ids |-> Loaded]
    ELSE IF LoadedAuto \in Loaded \cap caches /\ remember
         THEN [how |-> "auto", ids |-> {LoadedAuto}]
    ELSE [how |-> "picker", ids |-> {NoId}]

CanUnlockSilently(id) == remember /\ id \in bins \cap caches

\* bind_vault_session saves the registry whenever a vault is opened.
EnterSession(id, list) ==
    /\ screen' = "open"
    /\ IF id \in list THEN SaveDue ELSE UNCHANGED saving

\* The start-up of the window: what the resolution opens, opens without the
\* password if it can.  A cache that does not open the vault is removed.
ResolveGui ==
    /\ proc = "gui" /\ screen = "boot" /\ Idle
    /\ switchTo' = NoId
    /\ known' = Loaded /\ auto' = LoadedAuto
    /\ LET r == Resolution(switchTo) IN
       \E id \in r.ids :
         /\ active' = id
         /\ \/ /\ r.how \in {"direct", "auto"} /\ CanUnlockSilently(id)
               /\ EnterSession(id, Loaded) /\ UNCHANGED caches
            \/ /\ r.how \in {"direct", "auto"} /\ CanUnlockSilently(id)
               /\ screen' = "unlock" /\ caches' = caches \ {id} /\ UNCHANGED saving
            \/ /\ r.how = "picker" \/ ~CanUnlockSilently(id)
               /\ screen' = IF r.how = "picker" THEN "picker" ELSE "unlock"
               /\ UNCHANGED <<caches, saving>>
    /\ UNCHANGED <<diskVars, bins, own, settingVars, proc, cut>>

\* run_startup_refresh: a run without window neither reads nor clears the
\* pending switch, and ends at once when there is nothing it may open.
ResolveHeadless ==
    /\ proc = "headless" /\ screen = "boot" /\ Idle
    /\ known' = Loaded /\ auto' = LoadedAuto
    /\ LET r == Resolution(NoId) IN
       \E id \in r.ids :
         /\ active' = id
         /\ \/ /\ r.how \in {"direct", "auto"} /\ CanUnlockSilently(id)
               /\ EnterSession(id, Loaded)
            \/ screen' = "leaving" /\ UNCHANGED saving
    /\ UNCHANGED <<diskVars, fileVars, switchTo, settingVars, proc, cut>>

(***************************************************************************)
(* The unlock screen and the picker.                                       *)
(***************************************************************************)
WriteCache(id) == caches' = IF remember THEN caches \cup {id} ELSE caches

\* try_unlock with the right password; a wrong one only sets a message.
TryUnlock ==
    /\ AtWork("unlock") /\ active \in bins
    /\ WriteCache(active) /\ EnterSession(active, known)
    /\ UNCHANGED <<diskVars, bins, own, switchTo, settingVars, proc, active, known, auto, cut>>

\* create_vault on the unlock screen: where the active vault has no file, or
\* over it, by "I want to create a new vault instead".
CreateVault ==
    /\ AtWork("unlock")
    /\ bins' = bins \cup {active} /\ own' = own \cup {active}
    /\ known' = known \cup {active}
    /\ WriteCache(active) /\ EnterSession(active, known \cup {active})
    /\ UNCHANGED <<diskVars, switchTo, settingVars, proc, active, auto, cut>>

ChooseDifferent ==
    /\ AtWork("unlock") /\ Cardinality(known) > 1
    /\ screen' = "picker"
    /\ UNCHANGED <<diskVars, fileVars, switchTo, settingVars, proc, active, known, auto, saving, cut>>

SelectVault(id) ==
    /\ AtWork("picker") /\ id \in known
    /\ active' = id
    /\ \/ CanUnlockSilently(id) /\ EnterSession(id, known) /\ UNCHANGED caches
       \/ CanUnlockSilently(id) /\ screen' = "unlock"
            /\ caches' = caches \ {id} /\ UNCHANGED saving
       \/ ~CanUnlockSilently(id) /\ screen' = "unlock" /\ UNCHANGED <<caches, saving>>
    /\ UNCHANGED <<diskVars, bins, own, switchTo, settingVars, proc, known, auto, cut>>

\* create_and_open_vault.  When the file cannot be made the directory stays
\* the active one and the picker stays open.
CreateAndOpenVault(id) ==
    /\ AtWork("picker") /\ id \in FreshId
    /\ active' = id
    /\ \/ /\ bins' = bins \cup {id} /\ own' = own \cup {id} /\ known' = known \cup {id}
          /\ WriteCache(id) /\ EnterSession(id, known \cup {id})
       \/ UNCHANGED <<fileVars, known, screen, saving>>
    /\ UNCHANGED <<diskVars, switchTo, settingVars, proc, auto, cut>>

(***************************************************************************)
(* The open vault: settings, the vault list, locking and leaving.          *)
(***************************************************************************)
LockVault ==
    /\ AtWork("open")
    /\ screen' = "unlock"
    /\ UNCHANGED <<diskVars, fileVars, switchTo, settingVars, proc, active, known, auto, saving, cut>>

\* "Skip master-password prompt": on writes the cache of this vault, off
\* removes the cache of this vault.
SetRemember ==
    /\ AtWork("open")
    /\ remember' = ~remember
    /\ caches' = IF remember THEN caches \ {active} ELSE caches \cup {active}
    /\ UNCHANGED <<diskVars, bins, own, switchTo, logon, procVars, saving, cut>>

\* "At Windows logon": refreshing in the background writes the cache of this
\* vault, and makes it the auto-open one when there are several.
SetLogon ==
    /\ AtWork("open")
    /\ logon' = ~logon
    /\ IF logon
       THEN UNCHANGED <<remember, caches, auto, saving>>
       ELSE /\ remember' = TRUE /\ caches' = caches \cup {active}
            /\ IF Cardinality(known) > 1
               THEN auto' = active /\ SaveDue
               ELSE UNCHANGED <<auto, saving>>
    /\ UNCHANGED <<diskVars, bins, own, switchTo, proc, screen, active, known, cut>>

SetAutoOpen(id) ==
    /\ AtWork("open") /\ id \in known \cup {NoId}
    /\ auto' = id /\ SaveDue
    /\ UNCHANGED <<diskVars, fileVars, switchTo, settingVars, proc, screen, active, known, cut>>

\* "Create vault" in the settings makes a vault beside the open one.
CreateBeside(id) ==
    /\ AtWork("open") /\ id \in FreshId
    /\ bins' = bins \cup {id} /\ own' = own \cup {id}
    /\ known' = known \cup {id} /\ SaveDue
    /\ UNCHANGED <<diskVars, caches, switchTo, settingVars, proc, screen, active, auto, cut>>

\* remove_vault that lets the open vault go.
MayRemove_mutant(id) == Cardinality(known) > 1 /\ id \in known

\* remove_vault: what remove_all cannot remove, for a handle in the
\* directory, stays without an entry.
MayRemove(id) == Cardinality(known) > 1 /\ id # active /\ id \in known

RemoveVault(id) ==
    /\ AtWork("open") /\ MayRemove(id)
    /\ own' = own \ {id}
    /\ \/ bins' = bins \ {id} /\ caches' = caches \ {id}
       \/ UNCHANGED <<bins, caches>>
    /\ known' = known \ {id}
    /\ auto' = IF auto = id THEN NoId ELSE auto
    /\ SaveDue
    /\ UNCHANGED <<diskVars, switchTo, settingVars, proc, screen, active, cut>>

\* request_vault_switch: the id is left for the process this one starts.
RequestVaultSwitch(id) ==
    /\ AtWork("open") /\ id \in known /\ id # active
    /\ switchTo' = id /\ screen' = "leaving"
    /\ UNCHANGED <<diskVars, fileVars, settingVars, proc, active, known, auto, saving, cut>>

Leave ==
    /\ proc # "down" /\ screen # "boot" /\ Idle
    /\ proc' = "down" /\ screen' = "boot" /\ active' = NoId
    /\ known' = {} /\ auto' = NoId
    /\ UNCHANGED <<diskVars, fileVars, switchTo, settingVars, saving, cut>>

\* The process dies: between any two steps of a save, or of the start-up.
Killed ==
    /\ proc # "down"
    /\ proc' = "down" /\ screen' = "boot" /\ active' = NoId
    /\ known' = {} /\ auto' = NoId
    /\ saving' = "no" /\ cut' = (cut \/ ~Idle)
    /\ UNCHANGED <<diskVars, fileVars, switchTo, settingVars>>

OnVault(id) ==
    \/ SelectVault(id) \/ CreateAndOpenVault(id) \/ CreateBeside(id)
    \/ SetAutoOpen(id) \/ RemoveVault(id) \/ RequestVaultSwitch(id)

VaultFilesNext ==
    \/ Start("gui") \/ Start("headless") \/ SaveRegistry
    \/ ResolveGui \/ ResolveHeadless
    \/ TryUnlock \/ CreateVault \/ ChooseDifferent
    \/ LockVault \/ SetRemember \/ SetLogon
    \/ \E id \in Id \cup {NoId} : OnVault(id)
    \/ Leave \/ Killed

VaultFilesSpec == VaultFilesInit /\ [][VaultFilesNext]_vfVars

(***************************************************************************)
(* Properties                                                              *)
(***************************************************************************)
\* A vault that holds accounts is never without its file, wherever a crash
\* hits: it goes only when its deletion was asked for, and the vault of an
\* older version is at each moment in the root or in its new directory.
FilesSurvive == own \subseteq bins

\* The vault a process has open stays on disk and in the list while it is
\* open, whatever is created, deleted or switched to beside it.
OpenVaultStays ==
    proc # "down" /\ screen = "open" => active \in bins \cap known

\* Whatever holds accounts is offered by the next start, unless a crash or a
\* failed write fell into the change itself: the registry a start will read
\* names every such vault, or there is none and the root holds it.
NothingHidden ==
    ~cut /\ Idle =>
        \/ registry = "ok" /\ own \subseteq listed
        \/ registry = "absent" /\ own \subseteq {Root}

\* Types, and no vault file that holds accounts ever goes away.
FilesInv == VaultFilesTypeOK /\ FilesSurvive
=============================================================================
