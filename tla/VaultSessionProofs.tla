-------------------------- MODULE VaultSessionProofs --------------------------
(***************************************************************************)
(* VaultSession for every set of vaults and edits.  SessionInv is          *)
(* inductive when a process keeps to one vault and unlocking is slower     *)
(* than a pending save (Assumptions); the safety properties follow.        *)
(***************************************************************************)
EXTENDS VaultSession, TLAPS

Assumptions == SettledUnlock /\ ~PickAgain

USE DEF Snapshot, Saved

\* A process that has just started has nothing in memory that could go wrong.
LEMMA InitInv == Init => SessionInv
<1> SUFFICES ASSUME Init PROVE SessionInv
    OBVIOUS
<1> USE DEF Init, FreshProcess
<1>1. TypeOK
    BY DEF TypeOK, UiStates, SaverStates
<1>2. NeverBlank
    BY Sentinels DEF NeverBlank
<1>3. OwnVaultOnly
    BY DEF OwnVaultOnly
<1>4. ProcessOK /\ OneVault /\ Growing /\ NothingForgotten
    BY DEF ProcessOK, OneVault, Growing, NothingForgotten
<1> QED
    BY <1>1, <1>2, <1>3, <1>4 DEF SessionInv

\* Adding an edit to the vault on screen gives a snapshot of the same vault that
\* holds what was there.
LEMMA EditedSnapshot ==
    ASSUME NEW s \in Snapshot, NEW e \in Edits
    PROVE  /\ Edited(s, e) \in Snapshot
           /\ Edited(s, e).vault = s.vault
           /\ s.edits \subseteq Edited(s, e).edits
    BY DEF Edited

LEMMA FreshSnapshot ==
    ASSUME NEW v \in Vaults
    PROVE  Fresh(v) \in Snapshot /\ Fresh(v).vault = v
    BY DEF Fresh

\* What an open vault and a readable file are made of.
LEMMA OnScreenTyped ==
    ASSUME SessionInv
    PROVE  /\ unlocked => mem \in Snapshot
           /\ \A v \in Vaults : disk[v] # None => disk[v] \in Snapshot
           /\ pending # None => pending \in Snapshot
           /\ work # None => work \in Snapshot
    BY DEF SessionInv, TypeOK, NeverBlank

-------------------------------------------------------------------------------
(* One lemma per group of actions that change the same state. *)

LEMMA EditAndSaveInv ==
    ASSUME SessionInv, NEW e \in Edits, EditAndSave(e) PROVE SessionInv'
<1> USE Sentinels DEF SessionInv, EditAndSave, SaveIfDirty, Schedule
<1>1. mem' \in Snapshot /\ mem'.vault = mem.vault /\ mem.edits \subseteq mem'.edits
    BY OnScreenTyped, EditedSnapshot
<1>2. TypeOK'
    BY <1>1 DEF TypeOK, SaverStates
<1>3. NeverBlank' /\ OwnVaultOnly'
    BY <1>1 DEF NeverBlank, OwnVaultOnly
<1>4. ProcessOK'
    BY <1>1 DEF ProcessOK, TypeOK
<1>5. OneVault'
    BY <1>1 DEF OneVault
<1>6. Growing'
    BY <1>1 DEF Growing
<1>7. NothingForgotten'
    BY <1>1 DEF NothingForgotten
<1> QED
    BY <1>2, <1>3, <1>4, <1>5, <1>6, <1>7

LEMMA EditOnlyInv ==
    ASSUME SessionInv, NEW e \in Edits, EditOnly(e) PROVE SessionInv'
<1> USE Sentinels DEF SessionInv, EditOnly, saverVars
<1>1. mem' \in Snapshot /\ mem'.vault = mem.vault /\ mem.edits \subseteq mem'.edits
    BY OnScreenTyped, EditedSnapshot
<1>2. TypeOK' /\ NeverBlank' /\ OwnVaultOnly'
    BY <1>1 DEF TypeOK, NeverBlank, OwnVaultOnly
<1>3. ProcessOK' /\ OneVault'
    BY <1>1 DEF ProcessOK, OneVault
<1>4. Growing' /\ NothingForgotten'
    BY <1>1 DEF Growing, NothingForgotten
<1> QED
    BY <1>2, <1>3, <1>4

\* Flush and Exit: what is marked dirty becomes pending, or nothing changes but
\* the deadline.
LEMMA BeginFlushInv ==
    ASSUME SessionInv, ui = "frames", BeginFlush, ui' \in {"flush", "exit"},
           UNCHANGED <<disk, active, unlocked, mem, failed>>
    PROVE  SessionInv'
<1> USE Sentinels DEF SessionInv
<1>1. CASE dirty /\ unlocked
  <2> USE <1>1 DEF BeginFlush
  <2>1. TypeOK' /\ NeverBlank' /\ OwnVaultOnly'
      BY OnScreenTyped DEF TypeOK, NeverBlank, OwnVaultOnly, SaverStates, UiStates
  <2>2. ProcessOK' /\ OneVault'
      BY OnScreenTyped DEF ProcessOK, OneVault, TypeOK
  <2>3. Growing' /\ NothingForgotten'
      BY OnScreenTyped DEF Growing, NothingForgotten
  <2> QED
      BY <2>1, <2>2, <2>3
<1>2. CASE ~(dirty /\ unlocked)
  <2> USE <1>2 DEF BeginFlush
  <2>1. TypeOK' /\ NeverBlank' /\ OwnVaultOnly'
      BY DEF TypeOK, NeverBlank, OwnVaultOnly, UiStates
  <2>2. ProcessOK' /\ OneVault' /\ Growing' /\ NothingForgotten'
      BY DEF ProcessOK, OneVault, Growing, NothingForgotten
  <2> QED
      BY <2>1, <2>2
<1> QED
    BY <1>1, <1>2

\* Actions of the UI thread that change neither a snapshot nor a file.
LEMMA QuietInv ==
    ASSUME Assumptions, SessionInv,
           LateResult \/ FlushReturns \/ Lock \/ (\E v \in Vaults : Pick(v)) \/ ExitFlushed
    PROVE  SessionInv'
<1> USE Sentinels DEF SessionInv, saverVars
<1>1. CASE LateResult
    BY <1>1 DEF LateResult, SaveIfDirty, TypeOK, NeverBlank, OwnVaultOnly, ProcessOK, OneVault,
                Growing, NothingForgotten
<1>2. CASE FlushReturns
    BY <1>2 DEF FlushReturns, TypeOK, UiStates, NeverBlank, OwnVaultOnly, ProcessOK, OneVault,
                Growing, NothingForgotten
<1>3. CASE Lock
    BY <1>3 DEF Lock, TypeOK, NeverBlank, OwnVaultOnly, ProcessOK, OneVault, Growing,
                NothingForgotten
<1>4. ASSUME NEW v \in Vaults, Pick(v) PROVE SessionInv'
    BY <1>4 DEF Assumptions, Pick, TypeOK, NeverBlank, OwnVaultOnly, ProcessOK, OneVault, Growing,
                NothingForgotten
<1>5. CASE ExitFlushed
    BY <1>5 DEF ExitFlushed, TypeOK, UiStates, NeverBlank, OwnVaultOnly, ProcessOK, OneVault,
                Growing, NothingForgotten
<1> QED
    BY <1>1, <1>2, <1>3, <1>4, <1>5

\* Opening a vault: nothing is pending or being written by then.
LEMMA UnlockInv == ASSUME Assumptions, SessionInv, Unlock PROVE SessionInv'
<1> USE Sentinels DEF SessionInv, Unlock, EnterWith, saverVars
<1>1. disk[active] \in Snapshot /\ disk[active].vault = active
    BY OnScreenTyped DEF TypeOK, OwnVaultOnly
<1>2. pending = None /\ work = None
    BY DEF Assumptions, Settled, Drained, ProcessOK
<1>3. TypeOK' /\ NeverBlank' /\ OwnVaultOnly'
    BY <1>1 DEF TypeOK, NeverBlank, OwnVaultOnly
<1>4. ProcessOK' /\ OneVault'
    BY <1>1, <1>2 DEF ProcessOK, OneVault
<1>5. Growing' /\ NothingForgotten'
    BY <1>1, <1>2 DEF Growing, NothingForgotten
<1> QED
    BY <1>3, <1>4, <1>5

LEMMA CreateInv == ASSUME Assumptions, SessionInv, Create PROVE SessionInv'
<1> USE Sentinels DEF SessionInv, Create, EnterWith, saverVars
<1>1. Fresh(active) \in Snapshot /\ Fresh(active).vault = active
    BY FreshSnapshot DEF TypeOK
<1>2. pending = None /\ work = None
    BY DEF Assumptions, Settled, Drained, ProcessOK
<1>3. TypeOK' /\ NeverBlank' /\ OwnVaultOnly' /\ disk'[active] = Fresh(active)
    BY <1>1 DEF TypeOK, NeverBlank, OwnVaultOnly
<1>4. ProcessOK' /\ OneVault'
    BY <1>1, <1>2 DEF ProcessOK, OneVault
<1>5. Growing' /\ NothingForgotten'
    BY <1>1, <1>2, <1>3 DEF Growing, NothingForgotten
<1> QED
    BY <1>3, <1>4, <1>5

LEMMA CreateBesideInv ==
    ASSUME SessionInv, NEW v \in Vaults, CreateBeside(v) PROVE SessionInv'
<1> USE Sentinels DEF SessionInv, CreateBeside, uiVars, saverVars
<1>1. Fresh(v) \in Snapshot /\ Fresh(v).vault = v
    BY FreshSnapshot
<1>2. TypeOK' /\ NeverBlank' /\ OwnVaultOnly' /\ disk'[active] = disk[active]
    BY <1>1 DEF TypeOK, NeverBlank, OwnVaultOnly
<1>3. ProcessOK' /\ OneVault' /\ Growing' /\ NothingForgotten'
    BY <1>2 DEF ProcessOK, OneVault, Growing, NothingForgotten
<1> QED
    BY <1>2, <1>3

-------------------------------------------------------------------------------
(* The saver thread. *)

LEMMA DebouncedTakeEndInv ==
    ASSUME SessionInv, Debounced \/ Take \/ End PROVE SessionInv'
<1> USE Sentinels DEF SessionInv, uiVars
<1>1. CASE Debounced
    BY <1>1 DEF Debounced, TypeOK, NeverBlank, OwnVaultOnly, ProcessOK, OneVault, Growing,
                NothingForgotten
<1>2. CASE Take
    BY <1>2 DEF Take, TypeOK, SaverStates, NeverBlank, OwnVaultOnly, ProcessOK, OneVault, Growing,
                NothingForgotten
<1>3. CASE End
    BY <1>3 DEF End, TypeOK, SaverStates, NeverBlank, OwnVaultOnly, ProcessOK, OneVault, Growing,
                NothingForgotten
<1> QED
    BY <1>1, <1>2, <1>3

LEMMA InstallInv == ASSUME SessionInv, Install PROVE SessionInv'
<1> USE Sentinels DEF SessionInv, Install, uiVars
<1>1. work \in Snapshot /\ work.vault = active /\ path = active
    BY OnScreenTyped DEF ProcessOK, OneVault
<1>2. disk'[active] = work /\ \A v \in Vaults : v # active => disk'[v] = disk[v]
    BY <1>1 DEF TypeOK
<1>3. TypeOK' /\ NeverBlank' /\ OwnVaultOnly'
    BY <1>1, <1>2 DEF TypeOK, SaverStates, NeverBlank, OwnVaultOnly
<1>4. ProcessOK' /\ OneVault'
    BY DEF ProcessOK, OneVault
<1>5. Growing' /\ NothingForgotten'
    BY <1>1, <1>2 DEF Growing, NothingForgotten
<1> QED
    BY <1>3, <1>4, <1>5

LEMMA InstallFailsInv == ASSUME SessionInv, InstallFails PROVE SessionInv'
    BY Sentinels DEF SessionInv, InstallFails, uiVars, TypeOK, SaverStates, NeverBlank,
        OwnVaultOnly, ProcessOK, OneVault, Growing, NothingForgotten

-------------------------------------------------------------------------------
(* The end of a process and the start of the next one. *)

LEMMA ProcessEndsInv == ASSUME SessionInv, Joined \/ Crash PROVE SessionInv'
<1>1. NewProcess /\ ui' = "gone"
    BY DEF Joined, Crash
<1> QED
    BY <1>1, Sentinels DEF SessionInv, NewProcess, TypeOK, UiStates, SaverStates, NeverBlank,
        OwnVaultOnly, ProcessOK, OneVault, Growing, NothingForgotten

LEMMA RestartInv == ASSUME SessionInv, NEW v \in Vaults, Restart(v) PROVE SessionInv'
    BY Sentinels DEF SessionInv, Restart, saverVars, TypeOK, UiStates, NeverBlank, OwnVaultOnly,
        ProcessOK, OneVault, Growing, NothingForgotten

-------------------------------------------------------------------------------
LEMMA StepInv == ASSUME Assumptions, SessionInv, [Next]_vars PROVE SessionInv'
<1>1. ASSUME NEW e \in Edits, EditAndSave(e) \/ EditOnly(e) PROVE SessionInv'
    BY <1>1, EditAndSaveInv, EditOnlyInv
<1>2. CASE Flush \/ Exit
    BY <1>2, BeginFlushInv DEF Flush, Exit
<1>3. CASE LateResult \/ FlushReturns \/ Lock \/ (\E v \in Vaults : Pick(v)) \/ ExitFlushed
    BY <1>3, QuietInv
<1>4. CASE Unlock \/ Create
    BY <1>4, UnlockInv, CreateInv
<1>5. ASSUME NEW v \in Vaults, CreateBeside(v) \/ Restart(v) PROVE SessionInv'
    BY <1>5, CreateBesideInv, RestartInv
<1>6. CASE Joined \/ Crash
    BY <1>6, ProcessEndsInv
<1>7. CASE SaverNext
    BY <1>7, DebouncedTakeEndInv, InstallInv, InstallFailsInv DEF SaverNext
<1>8. CASE UNCHANGED vars
    BY <1>8 DEF vars, uiVars, saverVars, SessionInv, TypeOK, NeverBlank, OwnVaultOnly, ProcessOK,
        OneVault, Growing, NothingForgotten
<1> QED
    BY <1>1, <1>2, <1>3, <1>4, <1>5, <1>6, <1>7, <1>8 DEF Next, UiNext

\* SessionInv holds throughout: every stage between the screen and the file holds
\* the contents of the one vault in use, in the order they were produced.
THEOREM SessionInvariant == Assumptions => (Spec => []SessionInv)
<1> SUFFICES ASSUME Assumptions PROVE Spec => []SessionInv
    OBVIOUS
<1>1. SessionInv /\ [Next]_vars => SessionInv'
    BY StepInv
<1> QED
    BY InitInv, <1>1, PTL DEF Spec

\* Every variable keeps to its type (vault_saver.hpp, app_state.hpp).
THEOREM TypeCorrect == Assumptions => (Spec => []TypeOK)
<1>1. SessionInv => TypeOK
    BY DEF SessionInv
<1> QED
    BY <1>1, SessionInvariant, PTL

\* The emptied vault of a locked process never reaches the saver or a file
\* (save_vault_if_dirty's test for an empty password).
THEOREM BlankIsNeverSaved == Assumptions => (Spec => []NeverBlank)
<1>1. SessionInv => NeverBlank
    BY DEF SessionInv
<1> QED
    BY <1>1, SessionInvariant, PTL

\* No file ever holds another vault's accounts, in a process that keeps to one vault.
THEOREM FilesKeepTheirOwner == Assumptions => (Spec => []OwnVaultOnly)
<1>1. SessionInv => OwnVaultOnly
    BY DEF SessionInv
<1> QED
    BY <1>1, SessionInvariant, PTL

\* What is on screen and not marked dirty is in the file or on its way there.
THEOREM NoSilentLoss == Assumptions => (Spec => []OnScreenIsSaved)
<1>1. SessionInv => OnScreenIsSaved
    BY DEF SessionInv, OnScreenIsSaved, Newest, NothingForgotten, OneVault, ProcessOK
<1> QED
    BY <1>1, SessionInvariant, PTL

\* flush() returns only when the file holds what is on screen, or a write failed.
THEOREM FlushMakesDurable == Assumptions => (Spec => FlushIsDurable)
<1> SUFFICES ASSUME Assumptions PROVE Spec => FlushIsDurable
    OBVIOUS
<1> DEFINE Durable ==
        (ui \in {"flush", "exit"} /\ ui' # ui /\ ui' # "gone" /\ unlocked /\ ~failed)
            => disk[active] = mem
<1>1. SessionInv /\ [Next]_vars => [Durable]_vars
  <2> SUFFICES ASSUME SessionInv, Next, ui \in {"flush", "exit"}, ui' # ui, ui' # "gone",
                      unlocked, ~failed
               PROVE  disk[active] = mem
      OBVIOUS
  <2>1. FlushReturns \/ ExitFlushed
      BY DEF Next, UiNext, SaverNext, EditAndSave, EditOnly, LateResult, Flush, Lock, Pick,
          CreateBeside, Unlock, Create, Exit, Joined, Debounced, Take, Install, InstallFails, End,
          Crash, Restart, uiVars
  <2>2. pending = None /\ work = None /\ ~dirty
      BY <2>1 DEF FlushReturns, ExitFlushed, Drained, SessionInv, ProcessOK
  <2> QED
      BY <2>2 DEF SessionInv, NothingForgotten
<1> QED
    BY <1>1, SessionInvariant, PTL DEF Spec, FlushIsDurable

\* A file never loses what it held, except by the user creating a vault over it.
THEOREM FilesMoveForward == Assumptions => (Spec => ForwardOnly)
<1> SUFFICES ASSUME Assumptions PROVE Spec => ForwardOnly
    OBVIOUS
<1> DEFINE Forward(v) ==
          \/ disk'[v] = disk[v]
          \/ ~unlocked /\ disk'[v] = Fresh(v)
          \/ disk[v] = None
          \/ disk'[v].vault = disk[v].vault /\ disk[v].edits \subseteq disk'[v].edits
<1>1. SessionInv /\ [Next]_vars => [\A v \in Vaults : Forward(v)]_vars
  <2> SUFFICES ASSUME SessionInv, Next, NEW v \in Vaults PROVE Forward(v)
      OBVIOUS
  <2> USE DEF SessionInv, TypeOK
  <2>1. CASE Create
      BY <2>1 DEF Create
  <2>2. ASSUME NEW w \in Vaults, CreateBeside(w) PROVE Forward(v)
      BY <2>2 DEF CreateBeside
  <2>3. CASE Install
    <3>1. work \in Snapshot /\ work.vault = active /\ path = active
        BY <2>3, OnScreenTyped DEF Install, ProcessOK, OneVault
    <3>2. v # active => disk'[v] = disk[v]
        BY <2>3, <3>1 DEF Install
    <3>3. disk'[active] = work
        BY <2>3, <3>1 DEF Install
    <3>4. disk[active] # None => work.vault = disk[active].vault /\ disk[active].edits \subseteq work.edits
        BY <3>1, Sentinels DEF OwnVaultOnly, Growing
    <3> QED
        BY <3>2, <3>3, <3>4
  <2>4. CASE ~(Create \/ Install \/ \E w \in Vaults : CreateBeside(w))
    <3>1. UNCHANGED disk
        BY <2>4 DEF Next, UiNext, SaverNext, EditAndSave, EditOnly, LateResult, Flush, FlushReturns,
            Lock, Pick, Unlock, Exit, ExitFlushed, Joined, NewProcess, Debounced, Take, InstallFails,
            End, Crash, Restart
    <3> QED
        BY <3>1
  <2> QED
      BY <2>1, <2>2, <2>3, <2>4
<1> QED
    BY <1>1, SessionInvariant, PTL DEF Spec, ForwardOnly

-------------------------------------------------------------------------------
(* The abstract store: what the session does, seen as files, accepted contents and *)
(* a screen.                                                                       *)

\* What a vault's file is going to hold: the snapshot pending for the vault in use,
\* or else the one being written, or else what the file holds already.
Settling(v) ==
    IF v = active /\ pending # None THEN pending
    ELSE IF v = active /\ work # None THEN work
    ELSE disk[v]

\* A process that keeps to one vault saves nothing but the active one, so Newest
\* need not look at the saver's path.
LEMMA NewestSettles == SessionInv => \A v \in Vaults : Newest(v) = Settling(v)
    BY DEF SessionInv, ProcessOK, OneVault, Newest, Settling

LEMMA NewestSettlesNext == SessionInv' => \A v \in Vaults : Newest(v)' = Settling(v)'
    BY DEF SessionInv, ProcessOK, OneVault, Newest, Settling

View == IF unlocked THEN mem ELSE None

\* A step that leaves the files, the screen and what is on its way there alone is
\* no step of the store.
LEMMA StoreStutters ==
    ASSUME SessionInv, SessionInv', disk' = disk, View' = View,
           \A v \in Vaults : Settling(v)' = Settling(v)
    PROVE  UNCHANGED Store!vars
    BY NewestSettles, NewestSettlesNext DEF Store!vars, View

\* A change handed to the saver: the newest contents of the active vault are the
\* ones on screen after the step.
LEMMA Handed ==
    ASSUME SessionInv, SessionInv', disk' = disk, active' = active, unlocked, unlocked',
           pending' = mem', pending' # None
    PROVE  [v \in Vaults |-> Newest(v)]'
              = [[v \in Vaults |-> Newest(v)] EXCEPT ![mem.vault] = mem']
<1>1. mem.vault = active
    BY DEF SessionInv, OneVault
<1>2. \A v \in Vaults : Newest(v)' = IF v = active THEN mem' ELSE Newest(v)
    BY NewestSettles, NewestSettlesNext DEF Settling
<1> QED
    BY <1>1, <1>2

LEMMA EditStep ==
    ASSUME SessionInv, SessionInv', NEW e \in Edits, EditAndSave(e) \/ EditOnly(e)
    PROVE  Store!Change(e)
<1> USE Sentinels
<1>1. unlocked /\ mem \in Snapshot /\ mem # None /\ unlocked' /\ mem' = Edited(mem, e) /\ disk' = disk
      /\ active' = active
    BY OnScreenTyped DEF EditAndSave, EditOnly
<1>2. mem' = [mem EXCEPT !.edits = @ \cup {e}] /\ mem' # None
    BY <1>1 DEF Edited
<1>3. CASE EditAndSave(e)
  <2>1. pending' = mem'
      BY <1>3 DEF EditAndSave, SaveIfDirty, Schedule
  <2> QED
      BY <1>1, <1>2, <2>1, Handed DEF Store!Change
<1>4. CASE EditOnly(e)
  <2>1. \A v \in Vaults : Newest(v)' = Newest(v)
      BY <1>4, NewestSettles, NewestSettlesNext DEF EditOnly, saverVars, Settling
  <2> QED
      BY <1>1, <1>2, <2>1 DEF Store!Change
<1> QED
    BY <1>3, <1>4

LEMMA FlushStep ==
    ASSUME SessionInv, SessionInv', Flush \/ Exit
    PROVE  Store!Accept \/ UNCHANGED Store!vars
<1> USE Sentinels
<1>1. BeginFlush /\ UNCHANGED <<disk, active, unlocked, mem>>
    BY DEF Flush, Exit
<1>2. CASE dirty /\ unlocked
  <2>1. mem # None /\ pending' = mem'
      BY <1>1, <1>2, OnScreenTyped DEF BeginFlush
  <2> QED
      BY <1>1, <1>2, <2>1, Handed DEF Store!Accept
<1>3. CASE ~(dirty /\ unlocked)
    BY <1>1, <1>3, StoreStutters DEF BeginFlush, Settling, View
<1> QED
    BY <1>2, <1>3

\* Opening or creating a vault happens once nothing is pending or being written.
LEMMA OpenStep ==
    ASSUME Assumptions, SessionInv, SessionInv', Unlock \/ Create
    PROVE  \E v \in Vaults : Store!Open(v) \/ Store!Create(v)
<1> USE Sentinels
<1>1. pending = None /\ work = None /\ UNCHANGED <<pending, work, active>> /\ ~unlocked /\ unlocked'
    BY DEF Assumptions, Unlock, Create, EnterWith, saverVars, Settled, Drained, SessionInv, ProcessOK
<1>2. active \in Vaults
    BY DEF SessionInv, TypeOK
<1>3. \A v \in Vaults : Newest(v) = disk[v] /\ Newest(v)' = disk'[v]
    BY <1>1, NewestSettles, NewestSettlesNext DEF Settling
<1>4. CASE Unlock
  <2>1. Store!Open(active)
      BY <1>1, <1>2, <1>3, <1>4 DEF Store!Open, Unlock, EnterWith
  <2> QED
      BY <1>2, <2>1
<1>5. CASE Create
  <2>1. disk' = [disk EXCEPT ![active] = Store!Fresh(active)] /\ mem' = Store!Fresh(active)
      BY <1>5 DEF Create, EnterWith, Fresh, Store!Fresh
  <2>2. [v \in Vaults |-> Newest(v)]'
           = [[v \in Vaults |-> Newest(v)] EXCEPT ![active] = Store!Fresh(active)]
      BY <1>2, <1>3, <2>1 DEF SessionInv, TypeOK
  <2>3. Store!Create(active)
      BY <1>1, <2>1, <2>2 DEF Store!Create
  <2> QED
      BY <1>2, <2>3
<1> QED
    BY <1>4, <1>5

LEMMA CreateBesideStep ==
    ASSUME SessionInv, SessionInv', NEW w \in Vaults, CreateBeside(w)
    PROVE  Store!CreateBeside(w)
<1>1. disk' = [disk EXCEPT ![w] = Store!Fresh(w)] /\ disk[w] = None /\ w # active
      /\ UNCHANGED <<active, unlocked, mem, pending, work>>
    BY DEF CreateBeside, uiVars, saverVars, Fresh, Store!Fresh
<1>2. \A v \in Vaults : Newest(v)' = IF v = w THEN Store!Fresh(w) ELSE Newest(v)
    BY <1>1, NewestSettles, NewestSettlesNext DEF Settling, SessionInv, TypeOK
<1> QED
    BY <1>1, <1>2 DEF Store!CreateBeside

\* A snapshot is only ever made of a vault whose file exists.
HasFile == pending # None \/ work # None => disk[active] # None

LEMMA InitHasFile == Init => HasFile
    BY DEF Init, FreshProcess, HasFile

LEMMA StepHasFile ==
    ASSUME Assumptions, SessionInv, HasFile, [Next]_vars PROVE HasFile'
<1> USE Sentinels DEF HasFile
<1>1. ASSUME NEW e \in Edits, EditAndSave(e) \/ EditOnly(e) PROVE HasFile'
    BY <1>1 DEF EditAndSave, EditOnly, SaveIfDirty, Schedule, saverVars, SessionInv, Growing
<1>2. CASE Flush \/ Exit
    BY <1>2 DEF Flush, Exit, BeginFlush, SessionInv, Growing
<1>3. CASE LateResult \/ FlushReturns \/ Lock \/ ExitFlushed \/ Debounced \/ Take \/ End \/ InstallFails
    BY <1>3 DEF LateResult, SaveIfDirty, FlushReturns, Lock, ExitFlushed, Debounced, Take, End,
        InstallFails, uiVars, saverVars
<1>4. ASSUME NEW v \in Vaults, Pick(v) \/ Restart(v) PROVE HasFile'
    BY <1>4 DEF Pick, Restart, Assumptions, SessionInv, ProcessOK, saverVars
<1>5. CASE Unlock
    BY <1>5 DEF Unlock, EnterWith, saverVars
<1>6. CASE Create \/ \E v \in Vaults : CreateBeside(v)
    BY <1>6, FreshSnapshot DEF Create, CreateBeside, EnterWith, uiVars, saverVars, SessionInv, TypeOK
<1>7. CASE Install
    BY <1>7, OnScreenTyped DEF Install, uiVars, SessionInv, TypeOK, ProcessOK, OneVault
<1>8. CASE Joined \/ Crash
    BY <1>8 DEF Joined, Crash, NewProcess
<1>9. CASE UNCHANGED vars
    BY <1>9 DEF vars, uiVars, saverVars
<1> QED
    BY <1>1, <1>2, <1>3, <1>4, <1>5, <1>6, <1>7, <1>8, <1>9 DEF Next, UiNext, SaverNext

\* The write ends: the file holds what was being written, or that is given up,
\* unless something newer is pending.
LEMMA WriteStep ==
    ASSUME SessionInv, SessionInv', HasFile, Install \/ InstallFails
    PROVE  (\E v \in Vaults : Store!Persist(v) \/ Store!GiveUp(v)) \/ UNCHANGED Store!vars
<1> USE Sentinels
<1>1. /\ work \in Snapshot /\ work.vault = active /\ path = active /\ active \in Vaults /\ work' = None
      /\ UNCHANGED <<active, unlocked, mem, pending>>
    BY OnScreenTyped DEF Install, InstallFails, SessionInv, TypeOK, ProcessOK, OneVault, uiVars
<1>2. CASE Install
  <2>1. disk' = [disk EXCEPT ![active] = work] /\ disk'[active] = work
      BY <1>1, <1>2 DEF Install, SessionInv, TypeOK
  <2>2. \A v \in Vaults : Newest(v)' = Newest(v)
      BY <1>1, <2>1, NewestSettles, NewestSettlesNext DEF Settling, SessionInv, TypeOK
  <2>3. disk[active] \in Snapshot /\ disk[active] # None /\ disk[active].vault = active
      BY <1>1, OnScreenTyped DEF HasFile, SessionInv, OwnVaultOnly
  <2>4. Newest(active) = IF pending # None THEN pending ELSE work
      BY <1>1, NewestSettles DEF Settling
  <2>5. Store!AtLeast(work, disk[active]) /\ Store!AtLeast(Newest(active), work)
      BY <1>1, <2>3, <2>4 DEF Store!AtLeast, SessionInv, Growing, OneVault
  <2>6. Store!Persist(active)
      BY <1>1, <2>1, <2>2, <2>3, <2>5 DEF Store!Persist, Store!Snapshot
  <2> QED
      BY <1>1, <2>6
<1>3. CASE InstallFails
  <2>1. disk' = disk
      BY <1>3 DEF InstallFails
  <2>2. CASE pending = None
    <3>1. \A v \in Vaults : Newest(v)' = IF v = active THEN disk[v] ELSE Newest(v)
        BY <1>1, <2>1, <2>2, NewestSettles, NewestSettlesNext DEF Settling
    <3>2. Store!GiveUp(active)
        BY <1>1, <2>1, <3>1 DEF Store!GiveUp
    <3> QED
        BY <1>1, <3>2
  <2>3. CASE pending # None
      BY <1>1, <2>1, <2>3, StoreStutters DEF Settling, View
  <2> QED
      BY <2>2, <2>3
<1> QED
    BY <1>2, <1>3

\* Steps the store does not see, and those that leave only the files.
LEMMA UnseenStep ==
    ASSUME Assumptions, SessionInv, SessionInv',
           \/ LateResult \/ FlushReturns \/ ExitFlushed \/ Debounced \/ Take \/ End
           \/ \E v \in Vaults : Pick(v) \/ Restart(v)
           \/ UNCHANGED vars
    PROVE  UNCHANGED Store!vars
<1> USE Sentinels
<1>1. disk' = disk /\ View' = View
    BY DEF LateResult, SaveIfDirty, FlushReturns, ExitFlushed, Debounced, Take, End, Pick, Restart,
        vars, uiVars, saverVars, View
<1>2. CASE LateResult \/ FlushReturns \/ ExitFlushed \/ Debounced \/ End \/ UNCHANGED vars
    BY <1>1, <1>2, StoreStutters DEF LateResult, SaveIfDirty, FlushReturns, ExitFlushed, Debounced,
        End, vars, uiVars, saverVars, Settling
<1>3. CASE Take
  <2>1. work = None /\ pending # None /\ work' = pending /\ pending' = None /\ UNCHANGED active
      BY <1>3 DEF Take, SessionInv, ProcessOK, uiVars
  <2> QED
      BY <1>1, <2>1, StoreStutters DEF Settling
<1>4. ASSUME NEW v \in Vaults, Pick(v) \/ Restart(v) PROVE UNCHANGED Store!vars
  <2>1. pending = None /\ work = None /\ UNCHANGED <<pending, work>>
      BY <1>4 DEF Pick, Restart, Assumptions, SessionInv, ProcessOK, saverVars
  <2> QED
      BY <1>1, <2>1, StoreStutters DEF Settling
<1> QED
    BY <1>2, <1>3, <1>4

LEMMA LeaveStep ==
    ASSUME SessionInv, SessionInv', Lock \/ Joined \/ Crash
    PROVE  Store!Close \/ Store!Stop
<1> USE Sentinels
<1>1. disk' = disk /\ ~unlocked'
    BY DEF Lock, Joined, Crash, NewProcess
<1>2. CASE Lock
  <2>1. \A v \in Vaults : Newest(v)' = Newest(v)
      BY <1>1, <1>2, NewestSettles, NewestSettlesNext DEF Lock, saverVars, Settling
  <2>2. Store!Close
      BY <1>1, <2>1 DEF Store!Close
  <2> QED
      BY <2>2
<1>3. CASE Joined \/ Crash
  <2>1. \A v \in Vaults : Newest(v)' = disk[v]
      BY <1>1, <1>3, NewestSettlesNext DEF Joined, Crash, NewProcess, Settling
  <2>2. [v \in Vaults |-> Newest(v)]' = disk
      BY <2>1 DEF SessionInv, TypeOK
  <2>3. Store!Stop
      BY <1>1, <2>2 DEF Store!Stop
  <2> QED
      BY <2>3
<1> QED
    BY <1>2, <1>3

LEMMA StoreStarts == Init => Store!Init
<1> SUFFICES ASSUME Init PROVE Store!Init
    OBVIOUS
<1>1. \A v \in Vaults : Newest(v) = disk[v]
    BY DEF Init, FreshProcess, Newest
<1>2. [v \in Vaults |-> Newest(v)] = disk
    BY <1>1 DEF Init
<1> QED
    BY <1>2 DEF Init, FreshProcess, Store!Init, Store!Snapshot

LEMMA StoreSteps ==
    ASSUME Assumptions, SessionInv, SessionInv', HasFile, [Next]_vars
    PROVE  [Store!Next]_(Store!vars)
<1>1. ASSUME NEW e \in Edits, EditAndSave(e) \/ EditOnly(e) PROVE Store!Next
    BY <1>1, EditStep DEF Store!Next
<1>2. CASE Flush \/ Exit
    BY <1>2, FlushStep DEF Store!Next
<1>3. CASE Unlock \/ Create
    BY <1>3, OpenStep DEF Store!Next
<1>4. ASSUME NEW v \in Vaults, CreateBeside(v) PROVE Store!Next
    BY <1>4, CreateBesideStep DEF Store!Next
<1>5. CASE Install \/ InstallFails
    BY <1>5, WriteStep DEF Store!Next
<1>6. CASE Lock \/ Joined \/ Crash
    BY <1>6, LeaveStep DEF Store!Next
<1>7. CASE \/ LateResult \/ FlushReturns \/ ExitFlushed \/ Debounced \/ Take \/ End
           \/ \E v \in Vaults : Pick(v) \/ Restart(v)
           \/ UNCHANGED vars
    BY <1>7, UnseenStep
<1> QED
    BY <1>1, <1>2, <1>3, <1>4, <1>5, <1>6, <1>7 DEF Next, UiNext, SaverNext

\* The session, its debounce, failed writes, locks and crashes included, does nothing
\* the store of VaultStore may not do: files follow what was accepted, which
\* follows what is on screen.
THEOREM StoreRefined == Assumptions => (Spec => StoreSpec)
<1> SUFFICES ASSUME Assumptions PROVE Spec => StoreSpec
    OBVIOUS
<1>1. SessionInv /\ HasFile /\ [Next]_vars => HasFile'
    BY StepHasFile
<1>2. SessionInv /\ SessionInv' /\ HasFile /\ [Next]_vars => [Store!Next]_(Store!vars)
    BY StoreSteps
<1>3. Spec => []SessionInv
    BY SessionInvariant
<1> QED
    BY <1>1, <1>2, <1>3, InitHasFile, StoreStarts, PTL DEF Spec, StoreSpec, Store!Spec
===============================================================================
