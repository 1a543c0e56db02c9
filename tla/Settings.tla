------------------------------ MODULE Settings ------------------------------
(***************************************************************************)
(* The settings in memory, in the global settings.json and in the          *)
(* settings.json of each vault (app/app_state.cpp, app/settings.hpp), the  *)
(* controls of the settings screens that change them, and the copies kept  *)
(* elsewhere: the proxy policy of the HTTP layer and the window's capture  *)
(* exclusion, which are pushed, and the registered hotkey, which the frame *)
(* loop brings up to date.                                                 *)
(*                                                                         *)
(* Any write of a file may fail: write_json_atomic logs it and the program *)
(* goes on with the old file.  A file that can no longer be read is left   *)
(* out.                                                                    *)
(*                                                                         *)
(* A setting's value is the vault the user had open when it was set, or    *)
(* where else it comes from: that is what the properties tell apart.       *)
(***************************************************************************)
EXTENDS FiniteSets

CONSTANTS
    SVault,     \* the vaults
    NoVault,    \* no vault is chosen yet
    Key,        \* the settings that belong to a vault
    Mirrored,   \* of these, the ones also kept in the global file as a hint
    Immediate,  \* other settings whose control saves at once
    Hotkey,     \* the global hotkey
    Imported,   \* the label of the userdata template, set by an import task
    Factory,    \* the value a setting is born with
    Legacy,     \* the value in a global file from before vaults had settings
    Absent      \* a key that a file does not have

ASSUME KeysAssumption ==
    /\ Mirrored \cup Immediate \cup {Hotkey, Imported} \subseteq Key
    /\ {Hotkey, Imported} \cap (Mirrored \cup Immediate) = {} /\ Hotkey # Imported
    /\ Mirrored \cap Immediate = {}
    /\ NoVault \notin SVault /\ Absent \notin SVault \cup {Factory, Legacy}
    /\ Absent \notin [Key -> SVault \cup {Factory, Legacy}]

VARIABLES
    running,    \* the process is up
    current,    \* platform::active_vault_id()
    unlocked,   \* state.unlocked
    setting,    \* state.settings, of each key
    pushed,     \* what the HTTP layer and the window were last told
    registered, \* the hotkey Windows has registered for the window
    stale,      \* state.needs_hotkey_reregister
    hint,       \* the hints in the global file, of each mirrored key
    root,       \* the other per-vault keys of the global file
    file,       \* settings.json of each vault: Absent, or a value of each key
    failed,     \* history: the last write of the chosen vault's file failed
    import      \* the task that copies a userdata folder: "no", "runs"

hotkeyVars == <<registered, stale>>
diskSettings == <<hint, root, file, failed>>
setVars == <<running, current, unlocked, setting, pushed, hotkeyVars, diskSettings, import>>

SavedAtOnce == Mirrored \cup Immediate \cup {Hotkey, Imported}

Value == SVault \cup {Factory, Legacy}

SettingsTypeOK ==
    /\ {running, unlocked, stale, failed} \subseteq BOOLEAN /\ registered \in Value \cup {Absent}
    /\ current \in SVault \cup {NoVault}
    /\ setting \in [Key -> Value] /\ pushed \in [Mirrored -> Value]
    /\ hint \in [Mirrored -> Value \cup {Absent}]
    /\ root \in {Legacy, Absent}
    /\ file \in [SVault -> {Absent} \cup [Key -> Value]]
    /\ import \in {"no", "runs"}

SettingsInit ==
    /\ running = FALSE /\ current = NoVault /\ unlocked = FALSE
    /\ setting = [k \in Key |-> Factory] /\ pushed = [k \in Mirrored |-> Factory]
    /\ registered = Absent /\ stale = FALSE
    /\ hint = [k \in Mirrored |-> Absent] /\ root \in {Legacy, Absent}
    /\ file = [v \in SVault |-> Absent] /\ failed = FALSE
    /\ import = "no"

(***************************************************************************)
(* Reading and writing the two files.                                      *)
(***************************************************************************)
Mirror(s) == [k \in Mirrored |-> s[k]]

\* The global half read at start: the hint wins over the key itself.
AtStart(k) ==
    IF k \notin Mirrored THEN Factory
    ELSE IF hint[k] # Absent THEN hint[k]
    ELSE IF root # Absent THEN root ELSE Factory

\* load_settings, when nothing is open yet.
StartProcess ==
    /\ ~running
    /\ running' = TRUE
    /\ setting' = [k \in Key |-> AtStart(k)]
    /\ pushed' = Mirror(setting')
    /\ UNCHANGED <<current, unlocked, hotkeyVars, diskSettings, import>>

\* save_global_settings, which may fail; keys of the file it does not know stay.
SaveGlobal(s) == hint' \in {Mirror(s), hint}

\* A save_vault_settings that is never called.
SaveVault_mutant(s) == UNCHANGED <<file, failed>>

\* save_vault_settings: into the directory of the vault that is chosen, all of
\* it or, when the write fails, nothing.
SaveVault(s) ==
    IF current = NoVault THEN UNCHANGED <<file, failed>>
    ELSE \/ file' = [file EXCEPT ![current] = s] /\ failed' = FALSE
         \/ UNCHANGED file /\ failed' = TRUE

SaveBoth(s) == SaveGlobal(s) /\ SaveVault(s)

\* load_vault_settings: the first time the values come from the global file.
Source(v) == IF file[v] = Absent THEN [k \in Key |-> root] ELSE file[v]

\* A key the file lacks keeps the value it has in memory.
LoadedFor(v) ==
    [k \in Key |-> IF Source(v)[k] = Absent THEN setting[k] ELSE Source(v)[k]]

(***************************************************************************)
(* Opening, locking and choosing vaults.                                   *)
(***************************************************************************)
\* The start-up or the picker commits to a vault; one is left by locking.
ChooseVault(v) ==
    /\ running /\ ~unlocked
    /\ current' = v
    /\ UNCHANGED <<running, unlocked, setting, pushed, hotkeyVars, diskSettings, import>>

\* apply_vault_settings_side_effects.
SideEffects(s) == pushed' = Mirror(s) /\ stale' = TRUE /\ UNCHANGED registered

\* bind_vault_session: load, push what is applied once, and save if seeded.
OpenVault ==
    /\ running /\ ~unlocked /\ current # NoVault
    /\ unlocked' = TRUE
    /\ setting' = LoadedFor(current)
    /\ SideEffects(setting')
    /\ IF file[current] = Absent THEN SaveVault(setting') ELSE UNCHANGED file /\ failed' = FALSE
    /\ UNCHANGED <<running, current, hint, root, import>>

\* lock_vault leaves the settings as they are.
LockSettings ==
    /\ unlocked
    /\ unlocked' = FALSE
    /\ UNCHANGED <<running, current, setting, pushed, hotkeyVars, diskSettings, import>>

\* The end of the process, by closing or by a crash.
EndProcess ==
    /\ running
    /\ running' = FALSE /\ current' = NoVault /\ unlocked' = FALSE
    /\ setting' = [k \in Key |-> Factory] /\ pushed' = Mirror(setting')
    /\ registered' = Absent /\ stale' = FALSE
    /\ import' = "no"
    /\ UNCHANGED diskSettings

\* The frame loop, before it handles messages and draws.
ReregisterHotkey ==
    /\ stale
    /\ registered' = setting[Hotkey] /\ stale' = FALSE
    /\ UNCHANGED <<running, current, unlocked, setting, pushed, diskSettings, import>>

(***************************************************************************)
(* The controls.                                                           *)
(***************************************************************************)
Toggle(k) == setting' = [setting EXCEPT ![k] = IF @ = current THEN Factory ELSE current]

\* The proxy controls and streamproof.
PushedControl(k) ==
    /\ unlocked
    /\ Toggle(k) /\ pushed' = [pushed EXCEPT ![k] = setting'[k]] /\ SaveBoth(setting')
    /\ UNCHANGED <<running, current, unlocked, hotkeyVars, root, import>>

\* Safe mode, the login options, the hardware components, the cleaner.
ImmediateControl(k) ==
    /\ unlocked
    /\ Toggle(k) /\ SaveBoth(setting')
    /\ UNCHANGED <<running, current, unlocked, pushed, hotkeyVars, root, import>>

HotkeyControl ==
    /\ unlocked
    /\ Toggle(Hotkey) /\ stale' = TRUE /\ SaveBoth(setting')
    /\ UNCHANGED <<running, current, unlocked, pushed, registered, root, import>>

\* The other sections only change the memory.
LazyControl(k) ==
    /\ unlocked
    /\ Toggle(k)
    /\ UNCHANGED <<running, current, unlocked, pushed, hotkeyVars, diskSettings, import>>

SaveButton ==
    /\ unlocked
    /\ SaveBoth(setting)
    /\ UNCHANGED <<running, current, unlocked, setting, pushed, hotkeyVars, root, import>>

\* "Choose userdata folder": a task copies it, and its result comes back
\* whatever was locked or chosen since.
StartImport ==
    /\ unlocked /\ import = "no"
    /\ import' = "runs"
    /\ UNCHANGED <<running, current, unlocked, setting, pushed, hotkeyVars, diskSettings>>

ImportFails ==
    /\ running /\ import = "runs"
    /\ import' = "no"
    /\ UNCHANGED <<running, current, unlocked, setting, pushed, hotkeyVars, diskSettings>>

ImportEnds(from) ==
    /\ running /\ import = "runs"
    /\ import' = "no"
    /\ setting' = [setting EXCEPT ![Imported] = from] /\ SaveBoth(setting')
    /\ UNCHANGED <<running, current, unlocked, pushed, hotkeyVars, root>>

ClearImport ==
    /\ unlocked /\ import = "no"
    /\ setting' = [setting EXCEPT ![Imported] = Factory] /\ SaveBoth(setting')
    /\ UNCHANGED <<running, current, unlocked, pushed, hotkeyVars, root, import>>

SettingsNext ==
    \/ StartProcess \/ EndProcess
    \/ \E v \in SVault : ChooseVault(v)
    \/ OpenVault \/ LockSettings
    \/ ReregisterHotkey \/ HotkeyControl
    \/ \E k \in Mirrored : PushedControl(k)
    \/ \E k \in Immediate : ImmediateControl(k)
    \/ \E k \in Key \ SavedAtOnce : LazyControl(k)
    \/ SaveButton \/ StartImport \/ ImportFails \/ ClearImport
    \/ \E from \in SVault : ImportEnds(from)

SettingsSpec == SettingsInit /\ [][SettingsNext]_setVars

(***************************************************************************)
(* Properties                                                              *)
(***************************************************************************)
\* While a vault is open, the proxies requests go through and the window's
\* capture exclusion are those of the settings in memory, and so is the
\* registered hotkey once the frame loop has run, whichever vaults were
\* opened, locked and chosen before.
PushedIsCurrent ==
    unlocked => /\ pushed = Mirror(setting)
                /\ stale \/ registered = setting[Hotkey]

\* What a control saves at once is on disk from then on, unless the last write
\* of the file failed (write_json_atomic only logs that): while a vault is open
\* its file agrees with the memory on those settings, so neither a crash nor a
\* lock loses one, and an import that ends late does not either.  One write
\* that works makes up for all that failed before it.
ImmediateIsSaved ==
    unlocked /\ ~failed => /\ file[current] # Absent
                           /\ \A k \in SavedAtOnce : file[current][k] = setting[k]

\* A vault's settings are its own: nothing set while another vault was open
\* gets into its file (README.md: "Each vault has its own accounts and its own
\* settings").
SettingsStayHome ==
    \A v \in SVault : file[v] # Absent =>
        \A k \in Key \ {Imported} : file[v][k] \in {v, Factory, Legacy}

\* Types, and the two facts about the settings of the vault that is open.
SettingsInv == SettingsTypeOK /\ PushedIsCurrent /\ ImmediateIsSaved
=============================================================================
