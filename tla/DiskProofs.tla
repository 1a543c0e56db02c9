------------------------------ MODULE DiskProofs ------------------------------
(***************************************************************************)
(* Where the data is and what is kept there.                               *)
(*                                                                         *)
(* DataFolder's safety, for any folders and any edits, under the two      *)
(* habits of the user without which the program loses data: nothing is     *)
(* changed between a move and the restart (MoveThenEdit.cfg is what happens *)
(* otherwise), and nothing is moved onto other accounts.                   *)
(*                                                                         *)
(* VaultFiles for every set of vault ids: over starts, crashes and failed  *)
(* writes no vault file with accounts in it disappears, the open vault     *)
(* stays, and nothing is hidden from the next start by a change that was   *)
(* neither cut short nor failed.                                           *)
(*                                                                         *)
(* Settings for any vaults and any settings of each kind: the copies told  *)
(* to others are current and what is saved at once is in the vault's file. *)
(*                                                                         *)
(* AccountMerge for any accounts and groups, and bundles of any length:    *)
(* wherever a vault is, its accounts refer to groups and a tag it has, and *)
(* only a removal takes an account's id away.  The merge is a fold over a  *)
(* sequence; what it does for every sequence follows by induction over the *)
(* positions, as an argument about the least position that goes wrong.     *)
(***************************************************************************)
EXTENDS DataFolder, VaultFiles, Settings, AccountMerge,
        FiniteSetTheorems, SequenceTheorems, WellFoundedInduction, TLAPS

\* The user moves the data at rest and restarts, and looks before moving onto a folder.
CarefulUser == RestartAtOnce /\ ChecksTarget

-------------------------------------------------------------------------------
(* Folders and their contents. *)

\* What is found in a folder is a set of edits.
LEMMA ContentsAreEdits ==
    ASSUME TypeOK, NEW d \in Folders
    PROVE  Contents(d) \in SUBSET Edits /\ (folder[d] # None => Contents(d) = folder[d])
  BY NoneIsNoContents DEF TypeOK, Contents

\* None is not the contents of a folder.
LEMMA NoneIsNotContents == \A c \in SUBSET Edits : c # None
  BY NoneIsNoContents

\* Replacing what is in one folder leaves the others alone.
LEMMA ContentsAfter ==
    ASSUME TypeOK, NEW d \in Folders, NEW c \in (SUBSET Edits) \cup {None},
           folder' = [folder EXCEPT ![d] = c]
    PROVE  /\ Contents(d)' = IF c = None THEN {} ELSE c
           /\ \A f \in Folders \ {d} : Contents(f)' = Contents(f) /\ folder'[f] = folder[f]
           /\ folder'[d] = c
           /\ folder' \in [Folders -> (SUBSET Edits) \cup {None}]
  BY NoneIsNoContents DEF TypeOK, Contents

\* A step that takes nothing out of a folder loses nothing and keeps what was
\* found beside a folder.
LEMMA GrowthKeeps ==
    ASSUME \A d \in Folders : Contents(d) \subseteq Contents(d)'
    PROVE  /\ saved' = saved /\ NothingLost => NothingLost'
           /\ \A d \in Folders : Contents(d)' = Contents(d) /\ FoundBeside(d) => FoundBeside(d)'
  BY DEF NothingLost, FoundBeside

\* Emptying a folder whose contents are found beside it loses nothing.
LEMMA RemovalKeeps ==
    ASSUME NEW r \in Folders, FoundBeside(r), NothingLost, saved' = saved,
           \A d \in Folders \ {r} : Contents(d)' = Contents(d)
    PROVE  NothingLost'
  <1>. SUFFICES ASSUME NEW e \in saved PROVE \E d \in Folders : e \in Contents(d)'
    BY DEF NothingLost
  <1>1. PICK d \in Folders : e \in Contents(d)
    BY DEF NothingLost
  <1>2. CASE d = r
    <2>1. PICK c \in Folders \ {r} : e \in Contents(c)
      BY <1>1, <1>2 DEF FoundBeside
    <2>. QED  BY <2>1
  <1>3. CASE d # r
    BY <1>1, <1>3
  <1>. QED  BY <1>2, <1>3

-------------------------------------------------------------------------------
(* The inductive invariant. *)

LEMMA InitInv == Init => FolderInv
  <1>. SUFFICES ASSUME Init PROVE FolderInv
    OBVIOUS
  <1>1. PICK d \in Custom \cup {None}, e \in Edits :
           /\ folder = [f \in Folders |-> IF f = d THEN {e} ELSE None]
           /\ legacy = {d} \ {None}
           /\ saved = IF d = None THEN {} ELSE {e}
    BY DEF Init
  <1>2. TypeOK
    BY <1>1 DEF Init, TypeOK, Folders, UiStates
  <1>3. NothingLost
    BY <1>1, NoneIsNotContents DEF NothingLost, Contents, Folders
  <1>4. AccountsReappear /\ UseOK /\ RemovalOK /\ PlaceOK
    BY Names DEF Init, AccountsReappear, UseOK, RemovalOK, PlaceOK, Running, Moving
  <1>. QED  BY <1>2, <1>3, <1>4 DEF FolderInv

LEMMA ResolveInv == ASSUME FolderInv, Resolve PROVE FolderInv'
  <1>. USE DEF FolderInv, Resolve, hkcu
  <1>1. dir' \in Folders /\ Contents(dir') \in SUBSET Edits
    BY ContentsAreEdits DEF TypeOK, Usable, Folders
  <1>2. /\ folder' = [folder EXCEPT ![dir'] = Contents(dir')]
        /\ \A d \in Folders : Contents(d)' = Contents(d)
        /\ folder'[dir'] = Contents(dir')
        /\ folder' \in [Folders -> (SUBSET Edits) \cup {None}]
    BY <1>1, NoneIsNotContents DEF TypeOK, Contents
  <1>3. ~pending /\ ~Moving
    BY DEF UseOK, Running
  <1>4. TypeOK'
    BY <1>1, <1>2 DEF TypeOK, UiStates
  <1>5. NothingLost'
    BY <1>2, GrowthKeeps
  <1>6. dir' = Configured \/ unavailable'
    BY DEF Usable, Configured
  <1>7. left' \subseteq Contents(dir')
    BY <1>6 DEF PlaceOK
  <1>8. AccountsReappear'
    BY <1>1, <1>2, <1>7, NoneIsNotContents DEF AccountsReappear
  <1>9. UseOK'
    BY <1>1, <1>2, <1>3, NoneIsNotContents DEF UseOK, Running, Moving
  <1>10. RemovalOK'
    BY <1>2, GrowthKeeps DEF RemovalOK, TypeOK, FoundBeside
  <1>11. PlaceOK'
    BY <1>1, <1>2, <1>6, <1>7, ContentsAreEdits DEF PlaceOK, Configured, Contents
  <1>. QED  BY <1>4, <1>5, <1>8, <1>9, <1>10, <1>11

LEMMA RemoveOldInv == ASSUME FolderInv, RemoveOld PROVE FolderInv'
  <1>. USE DEF FolderInv, RemoveOld, hkcu, history
  <1>. DEFINE r == cleanupOld
  <1>1. r \in Folders /\ r # dir /\ FoundBeside(r)
    BY DEF TypeOK, RemovalOK
  <1>2. ~pending /\ ~Moving
    BY DEF UseOK, Running
  <1>3. /\ folder' \in [Folders -> (SUBSET Edits) \cup {None}]
        /\ \A d \in Folders \ {r} : Contents(d)' = Contents(d) /\ folder'[d] = folder[d]
        /\ Contents(r)' \subseteq Contents(r)
    BY <1>1, ContentsAfter DEF TypeOK, Contents
  <1>4. TypeOK'
    BY <1>3 DEF TypeOK, UiStates
  <1>5. NothingLost'
    BY <1>1, <1>3, RemovalKeeps
  <1>6. AccountsReappear' /\ UseOK'
    BY <1>1, <1>2, <1>3 DEF AccountsReappear, UseOK, Running, Moving, TypeOK
  <1>7. RemovalOK'
    BY <1>1, <1>3 DEF RemovalOK, FoundBeside, Moving
  <1>8. PlaceOK'
    BY <1>1, <1>3 DEF PlaceOK, Configured, TypeOK
  <1>. QED  BY <1>4, <1>5, <1>6, <1>7, <1>8

LEMMA RemoveFailsInv == ASSUME FolderInv, RemoveFails PROVE FolderInv'
  <1>. USE DEF FolderInv, RemoveFails, hkcu, history
  <1>. DEFINE r == cleanupOld
  <1>1. r \in Folders /\ r # dir /\ FoundBeside(r)
    BY DEF TypeOK, RemovalOK
  <1>2. ~pending /\ ~Moving
    BY DEF UseOK, Running
  <1>3. /\ folder' \in [Folders -> (SUBSET Edits) \cup {None}]
        /\ \A d \in Folders \ {r} : Contents(d)' = Contents(d) /\ folder'[d] = folder[d]
        /\ Contents(r)' \subseteq Contents(r)
    BY <1>1, ContentsAfter, NoneIsNotContents DEF TypeOK, Contents
  <1>4. TypeOK'
    BY <1>3 DEF TypeOK, UiStates
  <1>5. NothingLost'
    BY <1>1, <1>3, RemovalKeeps
  <1>6. AccountsReappear' /\ UseOK'
    BY <1>1, <1>2, <1>3 DEF AccountsReappear, UseOK, Running, Moving, TypeOK
  <1>7. RemovalOK'
    BY <1>1, <1>3 DEF RemovalOK, FoundBeside, Moving
  <1>8. PlaceOK'
    BY <1>1, <1>3 DEF PlaceOK, Configured, TypeOK
  <1>. QED  BY <1>4, <1>5, <1>6, <1>7, <1>8

\* The steps of a start that touch no folder.
LEMMA StartInv ==
    ASSUME FolderInv, NothingToRemove \/ ForgetOld \/ Open PROVE FolderInv'
  <1>. USE DEF FolderInv, drives, hkcu, history, NothingToRemove, ForgetOld, Open
  <1>1. folder' = folder /\ saved' = saved
    OBVIOUS
  <1>2. TypeOK'
    BY DEF TypeOK, UiStates, AccountsReappear
  <1>3. NothingLost' /\ AccountsReappear'
    BY <1>1 DEF NothingLost, Contents, AccountsReappear
  <1>4. UseOK'
    BY <1>1 DEF UseOK, Running, Moving, Contents
  <1>5. RemovalOK'
    BY <1>1, Names DEF RemovalOK, FoundBeside, Contents, Moving, UseOK, Running, TypeOK, Folders
  <1>6. PlaceOK'
    BY <1>1 DEF PlaceOK, Configured, Contents, Moving, UseOK, Running
  <1>. QED  BY <1>2, <1>3, <1>4, <1>5, <1>6

LEMMA EditInv ==
    ASSUME CarefulUser, FolderInv, NEW e \in Edits, Edit(e) PROVE FolderInv'
  <1>. USE DEF FolderInv, Edit, drives, hkcu, history
  <1>1. ~Moving
    BY DEF CarefulUser, Moving
  <1>2. folder' = folder /\ saved' = saved
    OBVIOUS
  <1>3. TypeOK' /\ NothingLost' /\ AccountsReappear'
    BY <1>2 DEF TypeOK, NothingLost, Contents, AccountsReappear
  <1>4. UseOK'
    BY <1>1, <1>2 DEF UseOK, Running, Moving, Contents
  <1>5. RemovalOK' /\ PlaceOK'
    BY <1>2 DEF RemovalOK, FoundBeside, Contents, Moving, PlaceOK, Configured
  <1>. QED  BY <1>3, <1>4, <1>5

LEMMA SaveInv == ASSUME FolderInv, Save PROVE FolderInv'
  <1>. USE DEF FolderInv, Save, hkcu
  <1>1. ui = "frames" /\ ~Moving /\ dir \in Folders /\ mem \in SUBSET Edits
    BY DEF UseOK, Running, TypeOK
  <1>2. folder[dir] # None /\ folder[dir] \subseteq mem /\ Contents(dir) = folder[dir]
    BY <1>1 DEF UseOK, Running, Contents
  <1>3. /\ folder' \in [Folders -> (SUBSET Edits) \cup {None}]
        /\ \A d \in Folders \ {dir} : Contents(d)' = Contents(d)
        /\ folder'[dir] = mem
        /\ \A c \in {Contents(dir)'} : c = mem
    BY <1>1, ContentsAfter, NoneIsNotContents DEF TypeOK, Contents
  <1>4. TypeOK'
    BY <1>1, <1>3 DEF TypeOK
  <1>5. NothingLost'
    BY <1>1, <1>2, <1>3 DEF NothingLost, Contents
  <1>6. AccountsReappear'
    BY <1>1, <1>3, NoneIsNotContents DEF AccountsReappear
  <1>7. UseOK'
    BY <1>1, <1>3, NoneIsNotContents DEF UseOK, Running, Moving
  <1>8. RemovalOK'
    <2>1. cleanupOld # dir
      BY <1>1 DEF RemovalOK
    <2>2. cleanupOld # None => FoundBeside(cleanupOld)'
      BY <1>1, <1>2, <1>3, <2>1 DEF RemovalOK, FoundBeside, TypeOK, Contents
    <2>. QED  BY <2>1, <2>2 DEF RemovalOK, Moving
  <1>9. PlaceOK'
    BY <1>1, <1>3, NoneIsNotContents DEF PlaceOK, Configured, Moving, Contents
  <1>. QED  BY <1>4, <1>5, <1>6, <1>7, <1>8, <1>9

\* What a copy leaves in the folders, carried through or not: the target holds
\* what it held before, or all that the folder in use holds.
LEMMA CopyKeeps ==
    ASSUME CarefulUser, FolderInv, ui = "frames", target = None,
           NEW d \in Folders, MayMoveTo(d), NEW c \in {Contents(d), folder[dir]},
           folder' = [folder EXCEPT ![d] = c], saved' = saved, cleanupOld' = cleanupOld
    PROVE  /\ d # dir /\ c \in SUBSET Edits
           /\ folder' \in [Folders -> (SUBSET Edits) \cup {None}]
           /\ \A f \in Folders \ {d} : folder'[f] = folder[f]
           /\ \A f \in Folders \ {d} : Contents(f)' = Contents(f)
           /\ Contents(d) \subseteq Contents(d)'
           /\ c = Contents(d)'
           /\ NothingLost'
           /\ cleanupOld # None => FoundBeside(cleanupOld)'
  <1>. USE DEF FolderInv
  <1>1. d # dir /\ Contents(d) \subseteq folder[dir]
    BY DEF MayMoveTo, CarefulUser
  <1>2. c \in SUBSET Edits /\ c # None /\ Contents(d) \subseteq c
    BY <1>1, ContentsAreEdits, NoneIsNotContents DEF AccountsReappear, TypeOK
  <1>3. /\ folder' \in [Folders -> (SUBSET Edits) \cup {None}]
        /\ \A f \in Folders \ {d} : Contents(f)' = Contents(f) /\ folder'[f] = folder[f]
        /\ Contents(d)' = c
    BY <1>2, ContentsAfter
  <1>4. NothingLost'
    BY <1>2, <1>3 DEF NothingLost
  <1>5. ASSUME cleanupOld # None PROVE FoundBeside(cleanupOld)'
    <2>1. cleanupOld \in Folders /\ cleanupOld # dir /\ dir \in Folders
      BY <1>5 DEF RemovalOK, Moving, TypeOK
    <2>2. CASE cleanupOld = d
      <3>1. \A e \in c : e \in Contents(dir)
        BY <1>1, <2>1 DEF AccountsReappear, Contents
      <3>. QED  BY <1>1, <1>3, <2>1, <2>2, <3>1 DEF FoundBeside
    <2>3. CASE cleanupOld # d
      BY <1>2, <1>3, <1>5, <2>1, <2>3 DEF RemovalOK, FoundBeside
    <2>. QED  BY <2>2, <2>3
  <1>. QED  BY <1>1, <1>2, <1>3, <1>4, <1>5

LEMMA CopyInv ==
    ASSUME CarefulUser, FolderInv, NEW d \in Folders, Copy(d) \/ CopyFails(d) PROVE FolderInv'
  <1>. USE DEF FolderInv, hkcu, process, history
  <1>1. PICK c \in {Contents(d), folder[dir]} : folder' = [folder EXCEPT ![d] = c]
    BY DEF Copy, CopyFails
  <1>2. /\ MayMoveTo(d) /\ ui = "frames" /\ target = None /\ ~pending
        /\ saved' = saved /\ left' = left /\ dir' = dir /\ mem' = mem /\ pending' = pending
        /\ unavailable' = unavailable /\ dataDir' = dataDir /\ cleanupOld' = cleanupOld
    BY DEF Copy, CopyFails, MayMoveTo, CarefulUser
  <1>3. /\ d # dir /\ c \in SUBSET Edits /\ dir \in Folders
        /\ folder' \in [Folders -> (SUBSET Edits) \cup {None}]
        /\ folder'[dir] = folder[dir]
        /\ \A f \in Folders : Contents(f) \subseteq Contents(f)'
        /\ c = Contents(d)'
        /\ NothingLost'
        /\ cleanupOld # None => FoundBeside(cleanupOld)'
    BY <1>1, <1>2, CopyKeeps DEF TypeOK
  <1>4. \/ target' = d /\ ui' = "copied" /\ c = folder[dir]
        \/ target' = None /\ ui' = "frames"
    <2>1. CASE Copy(d)
      BY <1>1, <1>2, <1>3, <2>1, ContentsAfter DEF Copy, TypeOK
    <2>2. CASE CopyFails(d)
      BY <1>2, <2>2 DEF CopyFails
    <2>. QED  BY <2>1, <2>2
  <1>5. TypeOK'
    BY <1>2, <1>3, <1>4 DEF TypeOK, UiStates, Copy, CopyFails
  <1>6. AccountsReappear'
    BY <1>2, <1>3 DEF AccountsReappear
  <1>7. UseOK'
    <2>1. target' = d => folder'[dir] \subseteq Contents(target)'
      BY <1>3, <1>4, Names DEF Folders, Contents
    <2>2. folder'[dir'] # None /\ folder'[dir'] \subseteq mem' /\ dir' = dir /\ ~pending'
      BY <1>2, <1>3 DEF UseOK, Running, AccountsReappear
    <2>3. Moving' => target' = d /\ d # dir /\ ui' = "copied"
      BY <1>3, <1>4 DEF Moving
    <2>4. ui' = "frames" \/ (ui' = "copied" /\ Moving')
      BY <1>4, Names DEF Moving, Folders
    <2>. QED  BY <2>1, <2>2, <2>3, <2>4 DEF UseOK, Running
  <1>8. RemovalOK'
    BY <1>2, <1>3, <1>4 DEF RemovalOK, Moving
  <1>9. PlaceOK'
    BY <1>2, <1>3, <1>4 DEF PlaceOK, Configured, Moving, TypeOK, Folders
  <1>. QED  BY <1>3, <1>5, <1>6, <1>7, <1>8, <1>9

\* The folder being moved away is backed by its copy, which is what lets it be
\* recorded for removal.
LEMMA RecordOldInv == ASSUME FolderInv, RecordOld PROVE FolderInv'
  <1>. USE DEF FolderInv, RecordOld, drives, history
  <1>1. folder' = folder /\ Moving /\ dir \in Folders /\ ~pending
    BY DEF UseOK, TypeOK
  <1>2. target \in Folders \ {dir} /\ \A e \in Contents(dir) : e \in Contents(target)
    BY <1>1 DEF UseOK, Moving, TypeOK, Contents
  <1>3. FoundBeside(dir)
    BY <1>2 DEF FoundBeside
  <1>4. TypeOK' /\ NothingLost' /\ AccountsReappear'
    BY <1>1 DEF TypeOK, UiStates, NothingLost, Contents, AccountsReappear
  <1>5. UseOK'
    BY <1>1 DEF UseOK, Running, Moving, Contents
  <1>6. RemovalOK'
    <2>1. cleanupOld' # None => FoundBeside(cleanupOld)'
      BY <1>1, <1>3 DEF RemovalOK, FoundBeside, Contents
    <2>. QED  BY <2>1 DEF RemovalOK
  <1>7. PlaceOK'
    BY <1>1 DEF PlaceOK, Configured, Contents, Moving
  <1>. QED  BY <1>4, <1>5, <1>6, <1>7

\* Naming the new folder, and clearing the name of the default one.
LEMMA RecordNewInv ==
    ASSUME FolderInv, RecordNew \/ RecordNewFails \/ ClearNew PROVE FolderInv'
  <1>. USE DEF FolderInv, RecordNew, RecordNewFails, ClearNew, drives, history
  <1>1. /\ folder' = folder /\ saved' = saved /\ left' = left /\ dir' = dir
        /\ unavailable' = unavailable /\ pending' = pending /\ mem' = mem
        /\ ~pending /\ Moving /\ target \in Folders
    BY DEF UseOK, Moving, TypeOK
  <1>2. TypeOK' /\ NothingLost' /\ AccountsReappear'
    BY <1>1 DEF TypeOK, UiStates, NothingLost, Contents, AccountsReappear, UseOK
  <1>3. UseOK'
    BY <1>1 DEF UseOK, Running, Moving, Contents
  <1>4. RemovalOK'
    BY <1>1, Names DEF RemovalOK, FoundBeside, Contents, Moving, TypeOK, Folders
  <1>5. PlaceOK'
    <2>1. left \subseteq Contents(dir) /\ Contents(dir) \subseteq Contents(target)
      BY <1>1 DEF AccountsReappear, UseOK, Contents
    <2>2. CASE RecordNew
      BY <1>1, <2>1, <2>2 DEF PlaceOK, Configured, Contents, Moving
    <2>3. CASE RecordNewFails
      BY <1>1, <2>3 DEF PlaceOK, Configured, Contents, Moving
    <2>4. CASE ClearNew
      BY <1>1, <2>1, <2>4 DEF PlaceOK, Configured, Contents, Moving, UseOK
    <2>. QED  BY <2>2, <2>3, <2>4
  <1>. QED  BY <1>2, <1>3, <1>4, <1>5

\* The end of a run, wanted or not.
LEMMA ClosedInv ==
    ASSUME FolderInv, Exit \/ Crash \/ \E d \in Folders : Locate(d) PROVE FolderInv'
  <1>. USE DEF FolderInv, Closed, drives, hkcu, history
  <1>1. /\ folder' = folder /\ saved' = saved /\ cleanupOld' = cleanupOld
        /\ ui' = "gone" /\ mem' = {} /\ pending' = FALSE /\ target' = None
        /\ dir' = dir /\ unavailable' = unavailable
        /\ legacy' = legacy /\ attached' = attached
        /\ \/ dataDir' = dataDir /\ left' = left
           \/ dataDir' \in Folders /\ left' = {}
    BY DEF Exit, Crash, Locate
  <1>2. TypeOK' /\ NothingLost' /\ AccountsReappear'
    BY <1>1 DEF TypeOK, UiStates, NothingLost, Contents, AccountsReappear
  <1>3. UseOK' /\ RemovalOK'
    BY <1>1 DEF UseOK, Running, Moving, RemovalOK, FoundBeside, Contents
  <1>4. PlaceOK'
    BY <1>1 DEF PlaceOK, Configured, Contents
  <1>. QED  BY <1>2, <1>3, <1>4

LEMMA ReplugInv == ASSUME FolderInv, NEW d \in Custom, Replug(d) PROVE FolderInv'
  <1>. USE DEF FolderInv, Replug, hkcu, process, history
  <1>1. TypeOK' /\ NothingLost' /\ AccountsReappear'
    BY DEF TypeOK, Folders, NothingLost, Contents, AccountsReappear
  <1>2. UseOK' /\ RemovalOK' /\ PlaceOK'
    BY DEF UseOK, Running, Moving, Contents, RemovalOK, FoundBeside, PlaceOK, Configured
  <1>. QED  BY <1>1, <1>2

LEMMA StutterInv == ASSUME FolderInv, UNCHANGED vars PROVE FolderInv'
  <1>. USE DEF FolderInv, vars, drives, hkcu, process, history
  <1>1. TypeOK' /\ NothingLost' /\ AccountsReappear'
    BY DEF TypeOK, NothingLost, Contents, AccountsReappear
  <1>2. UseOK' /\ RemovalOK' /\ PlaceOK'
    BY DEF UseOK, Running, Moving, Contents, RemovalOK, FoundBeside, PlaceOK, Configured
  <1>. QED  BY <1>1, <1>2

LEMMA NextInv == ASSUME CarefulUser, FolderInv, [Next]_vars PROVE FolderInv'
  <1>1. CASE StartNext
    BY <1>1, ResolveInv, RemoveOldInv, RemoveFailsInv, StartInv DEF StartNext
  <1>2. CASE MoveNext
    BY <1>2, CopyInv, RecordOldInv, RecordNewInv DEF MoveNext
  <1>3. CASE \E e \in Edits : Edit(e)
    BY <1>3, EditInv
  <1>4. CASE \E d \in Custom : Replug(d)
    BY <1>4, ReplugInv
  <1>5. CASE Exit \/ Crash \/ \E d \in Folders : Locate(d)
    BY <1>5, ClosedInv
  <1>6. CASE Save
    BY <1>6, SaveInv
  <1>7. CASE UNCHANGED vars
    BY <1>7, StutterInv
  <1>. QED  BY <1>1, <1>2, <1>3, <1>4, <1>5, <1>6, <1>7 DEF Next

-------------------------------------------------------------------------------
(* The theorems. *)

\* Every state of every run, start and move satisfies the inductive invariant.
THEOREM FolderInvariant == CarefulUser => (Spec => []FolderInv)
  <1>. SUFFICES ASSUME CarefulUser PROVE Spec => []FolderInv
    OBVIOUS
  <1>1. Init => FolderInv
    BY InitInv
  <1>2. FolderInv /\ [Next]_vars => FolderInv'
    BY NextInv
  <1>. QED  BY <1>1, <1>2, PTL DEF Spec

\* No edit that was ever saved is missing from every folder.
THEOREM EditsSurvive == CarefulUser => (Spec => []NothingLost)
  <1>1. FolderInv => NothingLost
    BY DEF FolderInv
  <1>. QED  BY <1>1, FolderInvariant, PTL

\* What a run saved is there in the next one.
THEOREM AccountsStay == CarefulUser => (Spec => []AccountsReappear)
  <1>1. FolderInv => AccountsReappear
    BY DEF FolderInv
  <1>. QED  BY <1>1, FolderInvariant, PTL

\* A folder goes away only at a start, when it is the one recorded.
LEMMA OnlyTheOldGoes ==
    ASSUME FolderInv, [Next]_vars, NEW d \in Folders, folder[d] # None, folder'[d] = None
    PROVE  d = cleanupOld /\ FoundBeside(d)
  <1>. USE DEF FolderInv
  <1>1. CASE RemoveOld
    BY <1>1 DEF RemoveOld, TypeOK, RemovalOK
  <1>2. CASE Resolve
    BY <1>2, NoneIsNotContents, ContentsAreEdits DEF Resolve, TypeOK, Contents, Usable, Folders
  <1>3. CASE RemoveFails
    BY <1>3, NoneIsNotContents DEF RemoveFails, TypeOK
  <1>4. CASE Save
    BY <1>4, NoneIsNotContents DEF Save, TypeOK
  <1>5. ASSUME NEW c \in Folders, Copy(c) \/ CopyFails(c) PROVE FALSE
    <2>1. folder[dir] # None /\ folder[dir] \in SUBSET Edits /\ Contents(c) \in SUBSET Edits
      BY <1>5, ContentsAreEdits DEF Copy, CopyFails, AccountsReappear, TypeOK
    <2>. QED  BY <1>5, <2>1, NoneIsNotContents DEF Copy, CopyFails, TypeOK
  <1>6. CASE \/ NothingToRemove \/ ForgetOld \/ Open \/ RecordOld \/ RecordNew
             \/ RecordNewFails \/ ClearNew \/ Exit \/ Crash \/ UNCHANGED vars
             \/ \E e \in Edits : Edit(e)
             \/ \E c \in Folders : Locate(c)
             \/ \E c \in Custom : Replug(c)
    BY <1>6 DEF NothingToRemove, ForgetOld, Open, RecordOld, RecordNew, RecordNewFails,
                ClearNew, Exit, Crash, Edit, Locate, Replug, vars, drives
  <1>. QED  BY <1>1, <1>2, <1>3, <1>4, <1>5, <1>6 DEF Next, StartNext, MoveNext

\* What a start removes is found somewhere else.
THEOREM RemovedIsElsewhere == CarefulUser => (Spec => RemovedIsKept)
  <1>1. FolderInv /\ [Next]_vars =>
          [\A d \in Folders : folder[d] # None /\ folder'[d] = None => FoundBeside(d)]_vars
    BY OnlyTheOldGoes
  <1>. QED  BY <1>1, FolderInvariant, PTL DEF Spec, RemovedIsKept

-------------------------------------------------------------------------------
(* The vaults of the folder. *)

\* Only a process saves, and a torn registry is one being written, or one that
\* a crash left.
SavesInProcess ==
    /\ proc = "down" => Idle
    /\ ~cut /\ registry = "torn" => saving = "torn"

\* What the unlock screen can open is in the list.
UnlockIsListed ==
    proc # "down" /\ screen = "unlock" =>
        active \in Id /\ (active \in bins => active \in known)

\* The list in memory names every vault with accounts, once it is loaded and
\* whenever it is about to be saved.
ListIsComplete ==
    ~cut /\ proc # "down" =>
        /\ ~Idle \/ screen # "boot" => own \subseteq known
        /\ Idle => registry = "ok"

VaultFilesInd ==
    /\ FilesInv /\ OpenVaultStays /\ NothingHidden
    /\ SavesInProcess /\ UnlockIsListed /\ ListIsComplete

USE PlacesAssumption
    DEF VaultFilesInd, FilesInv, FilesSurvive, VaultFilesTypeOK, OpenVaultStays,
        NothingHidden, SavesInProcess, UnlockIsListed, ListIsComplete, Idle, AtWork,
        diskVars, fileVars, settingVars, procVars, vfVars

LEMMA FilesInitInv == VaultFilesInit => VaultFilesInd
    BY DEF VaultFilesInit

\* save_registry: between the truncation and the write nothing else happens.
LEMMA SaveRegistryInv ==
    ASSUME VaultFilesInd, SaveRegistry PROVE VaultFilesInd'
<1>1. CASE Truncate
    BY <1>1 DEF Truncate
<1>2. CASE OpenFails
    BY <1>2 DEF OpenFails
<1>3. CASE WriteRegistry
    BY <1>3 DEF WriteRegistry
<1> QED
    BY <1>1, <1>2, <1>3 DEF SaveRegistry

\* A start, with the move of the vault of an older version.
LEMMA FilesStartInv ==
    ASSUME VaultFilesInd, NEW kind \in {"gui", "headless"}, Start(kind) PROVE VaultFilesInd'
<1> USE DEF Start, SaveDue
<1>1. CASE registry # "absent"
    BY <1>1
<1>2. CASE registry = "absent" /\ Root \notin bins
    BY <1>2
<1>3. CASE registry = "absent" /\ Root \in bins
  <2>1. PICK id \in FreshId : MoveIfExists(id) /\ known' = {id}
    BY <1>3 DEF MigrateLegacyVault
  <2>2. id \in Id
    BY <2>1 DEF FreshId
  <2> QED
    BY <1>3, <2>1, <2>2 DEF MoveIfExists
<1> QED
    BY <1>1, <1>2, <1>3

\* What a start may open is in the list, or is a directory without a vault.
LEMMA ResolutionFacts ==
    ASSUME VaultFilesInd, NEW h, NEW id \in Resolution(h).ids
    PROVE  /\ id \in Id \cup {NoId}
           /\ Resolution(h).how \in {"direct", "auto"} => id \in Loaded
           /\ Resolution(h).how = "create" => id \in Id \ bins
           /\ Resolution(h).how \in {"direct", "auto", "create", "picker"}
<1>1. Loaded \subseteq Id
    BY DEF Loaded
<1> QED
    BY <1>1 DEF Resolution, FreshId

LEMMA LoadedTyped ==
    ASSUME VaultFilesInd
    PROVE  Loaded \subseteq Id /\ LoadedAuto \in Id \cup {NoId}
    BY DEF Loaded, LoadedAuto

\* When nothing was cut, what a start loads names every vault with accounts.
LEMMA LoadedIsComplete ==
    ASSUME VaultFilesInd, proc # "down", Idle, ~cut PROVE own \subseteq Loaded
    BY DEF Loaded

LEMMA FilesResolveInv ==
    ASSUME VaultFilesInd, ResolveGui \/ ResolveHeadless PROVE VaultFilesInd'
<1> USE LoadedTyped, LoadedIsComplete DEF EnterSession, SaveDue, CanUnlockSilently
<1>1. CASE ResolveGui
  <2> DEFINE r == Resolution(switchTo)
  <2> HIDE DEF r
  <2>1. PICK id \in r.ids :
           /\ active' = id
           /\ \/ /\ r.how \in {"direct", "auto"} /\ CanUnlockSilently(id)
                 /\ EnterSession(id, Loaded) /\ UNCHANGED caches
              \/ /\ r.how \in {"direct", "auto"} /\ CanUnlockSilently(id)
                 /\ screen' = "unlock" /\ caches' = caches \ {id} /\ UNCHANGED saving
              \/ /\ r.how = "picker" \/ ~CanUnlockSilently(id)
                 /\ screen' = IF r.how = "picker" THEN "picker" ELSE "unlock"
                 /\ UNCHANGED <<caches, saving>>
    BY <1>1 DEF ResolveGui, r
  <2>2. /\ id \in Id \cup {NoId}
        /\ r.how \in {"direct", "auto"} => id \in Loaded
        /\ r.how = "create" => id \in Id \ bins
        /\ r.how \in {"direct", "auto", "create", "picker"}
    BY ResolutionFacts DEF r
  <2> QED
    BY <1>1, <2>1, <2>2 DEF ResolveGui
<1>2. CASE ResolveHeadless
  <2> DEFINE r == Resolution(NoId)
  <2> HIDE DEF r
  <2>1. PICK id \in r.ids :
           /\ active' = id
           /\ \/ /\ r.how \in {"direct", "auto"} /\ CanUnlockSilently(id)
                 /\ EnterSession(id, Loaded)
              \/ screen' = "leaving" /\ UNCHANGED saving
    BY <1>2 DEF ResolveHeadless, r
  <2>2. /\ id \in Id \cup {NoId}
        /\ r.how \in {"direct", "auto"} => id \in Loaded
    BY ResolutionFacts DEF r
  <2> QED
    BY <1>2, <2>1, <2>2 DEF ResolveHeadless
<1> QED
    BY <1>1, <1>2

\* The unlock screen and the picker.
LEMMA UnlockInv ==
    ASSUME VaultFilesInd, TryUnlock \/ CreateVault \/ ChooseDifferent PROVE VaultFilesInd'
<1> USE DEF EnterSession, SaveDue, WriteCache
<1>1. CASE TryUnlock
    BY <1>1 DEF TryUnlock
<1>2. CASE CreateVault
    BY <1>2 DEF CreateVault
<1>3. CASE ChooseDifferent
    BY <1>3 DEF ChooseDifferent
<1> QED
    BY <1>1, <1>2, <1>3

LEMMA OnVaultInv ==
    ASSUME VaultFilesInd, NEW id \in Id \cup {NoId}, OnVault(id) PROVE VaultFilesInd'
<1> USE DEF EnterSession, SaveDue, WriteCache
<1>1. CASE SelectVault(id)
    BY <1>1 DEF SelectVault, CanUnlockSilently
<1>2. CASE CreateAndOpenVault(id)
    BY <1>2 DEF CreateAndOpenVault, FreshId
<1>3. CASE CreateBeside(id)
    BY <1>3 DEF CreateBeside, FreshId
<1>4. CASE SetAutoOpen(id)
    BY <1>4 DEF SetAutoOpen
<1>5. CASE RemoveVault(id)
    BY <1>5 DEF RemoveVault, MayRemove
<1>6. CASE RequestVaultSwitch(id)
    BY <1>6 DEF RequestVaultSwitch
<1> QED
    BY <1>1, <1>2, <1>3, <1>4, <1>5, <1>6 DEF OnVault

\* Locking, the two settings, leaving and dying.
LEMMA OpenInv ==
    ASSUME VaultFilesInd, LockVault \/ SetRemember \/ SetLogon \/ Leave \/ Killed
    PROVE  VaultFilesInd'
<1>1. CASE LockVault
    BY <1>1 DEF LockVault
<1>2. CASE SetRemember
    BY <1>2 DEF SetRemember
<1>3. CASE SetLogon
    BY <1>3 DEF SetLogon, SaveDue
<1>4. CASE Leave
    BY <1>4 DEF Leave
<1>5. CASE Killed
    BY <1>5 DEF Killed
<1> QED
    BY <1>1, <1>2, <1>3, <1>4, <1>5

LEMMA FilesStepInv ==
    ASSUME VaultFilesInd, [VaultFilesNext]_vfVars PROVE VaultFilesInd'
<1>1. CASE UNCHANGED vfVars
    BY <1>1
<1>2. CASE VaultFilesNext
    BY <1>2, FilesStartInv, SaveRegistryInv, FilesResolveInv, UnlockInv, OnVaultInv, OpenInv
       DEF VaultFilesNext
<1> QED
    BY <1>1, <1>2

HIDE DEF VaultFilesInd, FilesInv, FilesSurvive, VaultFilesTypeOK, OpenVaultStays,
         NothingHidden, SavesInProcess, UnlockIsListed, ListIsComplete, Idle, AtWork,
         diskVars, fileVars, settingVars, procVars, vfVars

-------------------------------------------------------------------------------
(* The vaults are in order at every moment of every run of the program:    *)
(* whatever crash, failed write, removal or switch comes between two of    *)
(* its steps.                                                              *)
THEOREM VaultFilesAlways == VaultFilesSpec => []VaultFilesInd
<1>1. VaultFilesInit => VaultFilesInd
    BY FilesInitInv
<1>2. VaultFilesInd /\ [VaultFilesNext]_vfVars => VaultFilesInd'
    BY FilesStepInv
<1> QED
    BY <1>1, <1>2, PTL DEF VaultFilesSpec

(* A vault file that holds accounts goes only when its deletion was asked  *)
(* for (remove_vault); the migration of a vault from before vaults had     *)
(* directories never leaves it without a file.                             *)
THEOREM FilesSafe == VaultFilesSpec => []FilesInv
<1>1. VaultFilesInd => FilesInv
    BY DEF VaultFilesInd
<1> QED
    BY <1>1, VaultFilesAlways, PTL

(* The open vault stays on disk and in the list, whatever is created,      *)
(* deleted or switched to beside it.                                       *)
THEOREM OpenVaultSafe == VaultFilesSpec => []OpenVaultStays
<1>1. VaultFilesInd => OpenVaultStays
    BY DEF VaultFilesInd
<1> QED
    BY <1>1, VaultFilesAlways, PTL

(* Unless a crash or a failed write of registry.json fell into a change,   *)
(* the registry a start will read names every vault with accounts, or      *)
(* there is none yet and the root holds the only one.                      *)
THEOREM NothingHiddenSafe == VaultFilesSpec => []NothingHidden
<1>1. VaultFilesInd => NothingHidden
    BY DEF VaultFilesInd
<1> QED
    BY <1>1, VaultFilesAlways, PTL


-------------------------------------------------------------------------------
(* The settings. *)

\* A vault is open in a process that chose it.
OpenIsChosen == unlocked => running /\ current \in SVault

SettingsInd == SettingsInv /\ OpenIsChosen

LEMMA SettingsInitInd == SettingsInit => SettingsInd
  <1>. SUFFICES ASSUME SettingsInit PROVE SettingsInd
    OBVIOUS
  <1>. USE DEF SettingsInit
  <1>1. setting \in [Key -> Value] /\ pushed \in [Mirrored -> Value]
    BY DEF Value
  <1>2. hint \in [Mirrored -> Value \cup {Absent}] /\ file \in [SVault -> {Absent} \cup [Key -> Value]]
    OBVIOUS
  <1>. QED
    BY <1>1, <1>2 DEF SettingsInd, SettingsInv, SettingsTypeOK, PushedIsCurrent, ImmediateIsSaved, OpenIsChosen

\* The start and the opening of a vault give every setting a value.
LEMMA ReadIsTyped ==
    ASSUME SettingsTypeOK
    PROVE  /\ [k \in Key |-> AtStart(k)] \in [Key -> Value]
           /\ \A v \in SVault : LoadedFor(v) \in [Key -> Value]
           /\ \A v \in SVault : file[v] # Absent => LoadedFor(v) = file[v]
  <1>1. \A k \in Key : AtStart(k) \in Value
    BY DEF SettingsTypeOK, AtStart, Value
  <1>2. ASSUME NEW v \in SVault, NEW k \in Key
        PROVE  (IF Source(v)[k] = Absent THEN setting[k] ELSE Source(v)[k]) \in Value
    <2>1. CASE file[v] = Absent
      <3>1. Source(v)[k] = root
        BY <2>1 DEF Source
      <3>. QED
        BY <3>1 DEF SettingsTypeOK, Value
    <2>2. CASE file[v] # Absent
      <3>1. Source(v)[k] = file[v][k] /\ file[v][k] \in Value
        BY <2>2 DEF Source, SettingsTypeOK
      <3>. QED
        BY <3>1 DEF SettingsTypeOK
    <2>. QED
      BY <2>1, <2>2
  <1>3. ASSUME NEW v \in SVault, file[v] # Absent PROVE LoadedFor(v) = file[v]
    <2>1. file[v] \in [Key -> Value] /\ \A k \in Key : file[v][k] # Absent
      BY <1>3, KeysAssumption DEF SettingsTypeOK, Value
    <2>2. Source(v) = file[v]
      BY <1>3 DEF Source
    <2>3. LoadedFor(v) = [k \in Key |-> file[v][k]]
      BY <2>1, <2>2 DEF LoadedFor
    <2>. QED
      BY <2>1, <2>3
  <1>. QED
    BY <1>1, <1>2, <1>3 DEF LoadedFor

LEMMA MirrorIsTyped ==
    ASSUME NEW s \in [Key -> Value] PROVE Mirror(s) \in [Mirrored -> Value]
  BY KeysAssumption DEF Mirror

\* The chosen vault's file is written whole or, when that fails, not at all.
LEMMA SavedIsTyped ==
    ASSUME SettingsTypeOK, NEW s \in [Key -> Value], SaveVault(s)
    PROVE  /\ file' \in [SVault -> {Absent} \cup [Key -> Value]]
           /\ failed' \in BOOLEAN
           /\ current \in SVault /\ ~failed' => file'[current] = s /\ s # Absent
  BY KeysAssumption DEF SettingsTypeOK, SaveVault, Value

LEMMA StartProcessInd == ASSUME SettingsInd, StartProcess PROVE SettingsInd'
  <1>. DEFINE s == [k \in Key |-> AtStart(k)]
  <1>1. setting' = s /\ s \in [Key -> Value] /\ pushed' = Mirror(s)
    BY ReadIsTyped DEF StartProcess, SettingsInd, SettingsInv
  <1>2. pushed' \in [Mirrored -> Value]
    BY <1>1, MirrorIsTyped
  <1>3. ~unlocked' /\ running'
    BY DEF StartProcess, SettingsInd, OpenIsChosen
  <1>4. SettingsTypeOK'
    BY <1>1, <1>2, <1>3 DEF SettingsTypeOK, SettingsInd, SettingsInv, StartProcess, hotkeyVars, diskSettings
  <1>. QED
    BY <1>3, <1>4 DEF SettingsInd, SettingsInv, PushedIsCurrent, ImmediateIsSaved, OpenIsChosen

LEMMA EndProcessInd == ASSUME SettingsInd, EndProcess PROVE SettingsInd'
  <1>1. setting' \in [Key -> Value] /\ pushed' = Mirror(setting')
    BY DEF EndProcess, Value
  <1>2. pushed' \in [Mirrored -> Value]
    BY <1>1, MirrorIsTyped
  <1>3. ~unlocked'
    BY DEF EndProcess
  <1>4. SettingsTypeOK'
    BY <1>1, <1>2, <1>3 DEF SettingsTypeOK, SettingsInd, SettingsInv, EndProcess, diskSettings
  <1>. QED
    BY <1>3, <1>4 DEF SettingsInd, SettingsInv, PushedIsCurrent, ImmediateIsSaved, OpenIsChosen

LEMMA OpenVaultInd == ASSUME SettingsInd, OpenVault PROVE SettingsInd'
  <1>1. current \in SVault /\ current' = current /\ running' /\ unlocked'
    BY DEF OpenVault, SettingsInd, SettingsInv, SettingsTypeOK
  <1>2. setting' = LoadedFor(current) /\ setting' \in [Key -> Value] /\ pushed' = Mirror(setting')
    BY <1>1, ReadIsTyped DEF OpenVault, SideEffects, SettingsInd, SettingsInv
  <1>3. pushed' \in [Mirrored -> Value]
    BY <1>2, MirrorIsTyped
  <1>4. /\ file' \in [SVault -> {Absent} \cup [Key -> Value]] /\ failed' \in BOOLEAN
        /\ ~failed' => file'[current] = setting' /\ setting' # Absent
    <2>1. CASE file[current] = Absent
      BY <2>1, <1>1, <1>2, SavedIsTyped DEF OpenVault, SettingsInd, SettingsInv
    <2>2. CASE file[current] # Absent
      BY <2>2, <1>1, <1>2, ReadIsTyped DEF OpenVault, SettingsInd, SettingsInv, SettingsTypeOK
    <2>. QED
      BY <2>1, <2>2
  <1>5. SettingsTypeOK'
    BY <1>1, <1>2, <1>3, <1>4 DEF SettingsTypeOK, SettingsInd, SettingsInv, OpenVault, SideEffects
  <1>6. PushedIsCurrent' /\ ImmediateIsSaved'
    BY <1>1, <1>2, <1>4 DEF PushedIsCurrent, ImmediateIsSaved, OpenVault, SideEffects
  <1>. QED
    BY <1>1, <1>5, <1>6 DEF SettingsInd, SettingsInv, OpenIsChosen

\* A control that saves both files and tells the copies kept elsewhere.
LEMMA SavingInd ==
    ASSUME SettingsInd, running, setting' \in [Key -> Value], SaveBoth(setting'),
           pushed' \in [Mirrored -> Value], registered' = registered, stale' \in BOOLEAN,
           unlocked => /\ pushed' = Mirror(setting')
                       /\ stale' \/ (~stale /\ setting'[Hotkey] = setting[Hotkey]),
           import' \in {"no", "runs"},
           UNCHANGED <<running, current, unlocked, root>>
    PROVE  SettingsInd'
  <1>1. hint' \in {Mirror(setting'), hint} /\ SaveVault(setting')
    BY DEF SaveBoth, SaveGlobal
  <1>2. hint' \in [Mirrored -> Value \cup {Absent}]
    <2>1. Mirror(setting') \in [Mirrored -> Value \cup {Absent}]
      BY MirrorIsTyped
    <2>. QED
      BY <1>1, <2>1 DEF SettingsInd, SettingsInv, SettingsTypeOK
  <1>3. file' \in [SVault -> {Absent} \cup [Key -> Value]] /\ failed' \in BOOLEAN
    BY <1>1, SavedIsTyped DEF SettingsInd, SettingsInv
  <1>4. current \in SVault /\ ~failed' => file'[current] = setting' /\ setting' # Absent
    BY <1>1, SavedIsTyped DEF SettingsInd, SettingsInv
  <1>5. SettingsTypeOK'
    BY <1>2, <1>3 DEF SettingsTypeOK, SettingsInd, SettingsInv
  <1>6. PushedIsCurrent'
    BY DEF PushedIsCurrent, SettingsInd, SettingsInv
  <1>7. ImmediateIsSaved' /\ OpenIsChosen'
    BY <1>4 DEF ImmediateIsSaved, OpenIsChosen, SettingsInd
  <1>. QED
    BY <1>5, <1>6, <1>7 DEF SettingsInd, SettingsInv

LEMMA ToggleFacts ==
    ASSUME SettingsInd, unlocked, NEW k \in Key, Toggle(k)
    PROVE  /\ setting' \in [Key -> Value]
           /\ \A l \in Key \ {k} : setting'[l] = setting[l]
  <1>1. current \in Value /\ setting \in [Key -> Value]
    BY DEF SettingsInd, SettingsInv, SettingsTypeOK, OpenIsChosen, Value
  <1>2. PICK x \in Value : setting' = [setting EXCEPT ![k] = x]
    BY <1>1 DEF Toggle, Value
  <1>. QED
    BY <1>1, <1>2

LEMMA PushedControlInd == ASSUME SettingsInd, NEW k \in Mirrored, PushedControl(k) PROVE SettingsInd'
  <1>. USE DEF PushedControl
  <1>1. k \in Key /\ Hotkey \in Key /\ k # Hotkey /\ unlocked
    BY KeysAssumption
  <1>2. setting' \in [Key -> Value] /\ \A l \in Key \ {k} : setting'[l] = setting[l]
    BY <1>1, ToggleFacts
  <1>3. pushed = Mirror(setting) /\ (stale \/ registered = setting[Hotkey]) /\ stale \in BOOLEAN
    BY <1>1 DEF SettingsInd, SettingsInv, PushedIsCurrent, SettingsTypeOK
  <1>4. pushed' = Mirror(setting')
    <2>1. pushed' = [l \in Mirrored |-> IF l = k THEN setting'[k] ELSE setting[l]]
      BY <1>3 DEF Mirror
    <2>2. \A l \in Mirrored : (IF l = k THEN setting'[k] ELSE setting[l]) = setting'[l]
      BY <1>2, KeysAssumption
    <2>. QED
      BY <2>1, <2>2 DEF Mirror
  <1>5. pushed' \in [Mirrored -> Value]
    BY <1>2, <1>4, MirrorIsTyped
  <1>6. running /\ import \in {"no", "runs"}
    BY <1>1 DEF SettingsInd, OpenIsChosen, SettingsInv, SettingsTypeOK
  <1>. QED
    BY <1>1, <1>2, <1>3, <1>4, <1>5, <1>6, SavingInd DEF hotkeyVars

\* What else saves at once leaves the mirrored settings and the hotkey alone.
LEMMA OtherSavedInd ==
    ASSUME SettingsInd, running, NEW k \in Key \ (Mirrored \cup {Hotkey}),
           setting' \in [Key -> Value], \A l \in Key \ {k} : setting'[l] = setting[l],
           SaveBoth(setting'), import' \in {"no", "runs"},
           UNCHANGED <<running, current, unlocked, pushed, hotkeyVars, root>>
    PROVE  SettingsInd'
  <1>1. Mirror(setting') = Mirror(setting)
    BY KeysAssumption DEF Mirror
  <1>2. setting'[Hotkey] = setting[Hotkey]
    BY KeysAssumption
  <1>3. pushed' \in [Mirrored -> Value] /\ stale' \in BOOLEAN /\ registered' = registered
    BY DEF SettingsInd, SettingsInv, SettingsTypeOK, hotkeyVars
  <1>4. CASE unlocked /\ ~stale
    BY <1>1, <1>2, <1>3, <1>4, SavingInd DEF SettingsInd, SettingsInv, PushedIsCurrent, hotkeyVars
  <1>5. CASE ~(unlocked /\ ~stale)
    BY <1>1, <1>2, <1>3, <1>5, SavingInd DEF SettingsInd, SettingsInv, PushedIsCurrent, hotkeyVars
  <1>. QED
    BY <1>4, <1>5

LEMMA ControlInd ==
    ASSUME SettingsInd,
           \/ \E k \in Immediate : ImmediateControl(k)
           \/ ClearImport \/ \E from \in SVault : ImportEnds(from)
    PROVE  SettingsInd'
  <1>0. setting \in [Key -> Value] /\ import \in {"no", "runs"} /\ (unlocked => running)
    BY DEF SettingsInd, SettingsInv, SettingsTypeOK, OpenIsChosen
  <1>1. ASSUME NEW k \in Immediate, ImmediateControl(k) PROVE SettingsInd'
    <2>1. k \in Key \ (Mirrored \cup {Hotkey}) /\ unlocked
      BY <1>1, KeysAssumption DEF ImmediateControl
    <2>2. setting' \in [Key -> Value] /\ \A l \in Key \ {k} : setting'[l] = setting[l]
      BY <1>1, <2>1, ToggleFacts DEF ImmediateControl
    <2>. QED
      BY <1>0, <1>1, <2>1, <2>2, OtherSavedInd DEF ImmediateControl
  <1>2. Imported \in Key \ (Mirrored \cup {Hotkey})
    BY KeysAssumption
  <1>3. ASSUME NEW x \in Value, setting' = [setting EXCEPT ![Imported] = x]
        PROVE  setting' \in [Key -> Value] /\ \A l \in Key \ {Imported} : setting'[l] = setting[l]
    BY <1>0, <1>3
  <1>4. CASE ClearImport
    <2>1. setting' \in [Key -> Value] /\ \A l \in Key \ {Imported} : setting'[l] = setting[l]
      BY <1>3, <1>4 DEF ClearImport, Value
    <2>. QED
      BY <1>0, <1>2, <1>4, <2>1, OtherSavedInd DEF ClearImport
  <1>5. ASSUME NEW from \in SVault, ImportEnds(from) PROVE SettingsInd'
    <2>1. setting' \in [Key -> Value] /\ \A l \in Key \ {Imported} : setting'[l] = setting[l]
      BY <1>3, <1>5 DEF ImportEnds, Value
    <2>. QED
      BY <1>0, <1>2, <1>5, <2>1, OtherSavedInd DEF ImportEnds
  <1>. QED
    BY <1>1, <1>4, <1>5

LEMMA HotkeyControlInd == ASSUME SettingsInd, HotkeyControl PROVE SettingsInd'
  <1>. USE DEF HotkeyControl
  <1>1. Hotkey \in Key /\ Hotkey \notin Mirrored /\ unlocked /\ running
    BY KeysAssumption DEF SettingsInd, OpenIsChosen
  <1>2. setting' \in [Key -> Value] /\ \A l \in Key \ {Hotkey} : setting'[l] = setting[l]
    BY <1>1, ToggleFacts
  <1>3. pushed' = Mirror(setting) /\ Mirror(setting') = Mirror(setting)
    BY <1>1, <1>2, KeysAssumption DEF SettingsInd, SettingsInv, PushedIsCurrent, Mirror
  <1>4. pushed' \in [Mirrored -> Value] /\ import \in {"no", "runs"}
    BY DEF SettingsInd, SettingsInv, SettingsTypeOK
  <1>. QED
    BY <1>1, <1>2, <1>3, <1>4, SavingInd

LEMMA SaveButtonInd == ASSUME SettingsInd, SaveButton PROVE SettingsInd'
  <1>1. setting' = setting /\ SaveBoth(setting') /\ running
    BY DEF SaveButton, SettingsInd, OpenIsChosen
  <1>2. setting' \in [Key -> Value] /\ import \in {"no", "runs"}
    BY <1>1 DEF SettingsInd, SettingsInv, SettingsTypeOK
  <1>3. Hotkey \in Key \ Mirrored
    BY KeysAssumption
  <1>4. stale \in BOOLEAN /\ pushed \in [Mirrored -> Value]
    BY DEF SettingsInd, SettingsInv, SettingsTypeOK
  <1>5. unlocked => pushed = Mirror(setting)
    BY DEF SettingsInd, SettingsInv, PushedIsCurrent
  <1>. QED
    BY <1>1, <1>2, <1>4, <1>5, SavingInd DEF SaveButton, hotkeyVars

\* The other actions write no file.
LEMMA UnsavedInd ==
    ASSUME SettingsInd,
           \/ \E v \in SVault : ChooseVault(v)
           \/ LockSettings \/ ReregisterHotkey \/ StartImport \/ ImportFails
           \/ \E k \in Key \ SavedAtOnce : LazyControl(k)
           \/ UNCHANGED setVars
    PROVE  SettingsInd'
  <1>. USE DEF SettingsInd, SettingsInv, SettingsTypeOK, PushedIsCurrent, ImmediateIsSaved, OpenIsChosen,
               hotkeyVars, diskSettings
  <1>1. ASSUME NEW v \in SVault, ChooseVault(v) PROVE SettingsInd'
    BY <1>1 DEF ChooseVault
  <1>2. CASE LockSettings
    BY <1>2 DEF LockSettings
  <1>3. CASE ReregisterHotkey
    <2>1. registered' \in Value \cup {Absent}
      BY <1>3, KeysAssumption DEF ReregisterHotkey
    <2>. QED
      BY <1>3, <2>1 DEF ReregisterHotkey
  <1>4. CASE StartImport \/ ImportFails
    BY <1>4 DEF StartImport, ImportFails
  <1>5. ASSUME NEW k \in Key \ SavedAtOnce, LazyControl(k) PROVE SettingsInd'
    <2>1. setting' \in [Key -> Value] /\ \A l \in Key \ {k} : setting'[l] = setting[l]
      BY <1>5, ToggleFacts DEF LazyControl
    <2>2. \A l \in SavedAtOnce : l # k /\ l \in Key
      BY KeysAssumption DEF SavedAtOnce
    <2>3. Mirror(setting') = Mirror(setting) /\ setting'[Hotkey] = setting[Hotkey]
      BY <2>1, <2>2 DEF Mirror, SavedAtOnce
    <2>4. \A l \in SavedAtOnce : setting'[l] = setting[l]
      BY <2>1, <2>2
    <2>5. PushedIsCurrent' /\ ImmediateIsSaved'
      BY <1>5, <2>3, <2>4 DEF LazyControl
    <2>. QED
      BY <1>5, <2>1, <2>5 DEF LazyControl
  <1>6. CASE UNCHANGED setVars
    BY <1>6 DEF setVars
  <1>. QED
    BY <1>1, <1>2, <1>3, <1>4, <1>5, <1>6

LEMMA SettingsIndStep == SettingsInd /\ [SettingsNext]_setVars => SettingsInd'
  <1>. SUFFICES ASSUME SettingsInd, [SettingsNext]_setVars PROVE SettingsInd'
    OBVIOUS
  <1>. QED
    BY StartProcessInd, EndProcessInd, OpenVaultInd, PushedControlInd, ControlInd,
       HotkeyControlInd, SaveButtonInd, UnsavedInd DEF SettingsNext

\* What is known of the settings in every state the program reaches.
THEOREM SettingsAlways == SettingsSpec => []SettingsInd
  <1>1. SettingsInd /\ [SettingsNext]_setVars => SettingsInd'
    BY SettingsIndStep
  <1>. QED
    BY <1>1, SettingsInitInd, PTL DEF SettingsSpec

\* For any vaults and any settings of each kind: while a vault is open the HTTP
\* layer, the window and the hotkey follow its settings, and what a control saves
\* at once is in the vault's file unless the last write of it failed (save_settings,
\* write_json_atomic and apply_vault_settings_side_effects of app_state.cpp), also
\* with an import that ends after a lock or a switch.
THEOREM SettingsSafe == SettingsSpec => []SettingsInv
  <1>1. SettingsInd => SettingsInv
    BY DEF SettingsInd
  <1>. QED
    BY <1>1, SettingsAlways, PTL

-------------------------------------------------------------------------------
(* Induction over positions: a set of them has a least one.              *)

\* The order of the natural numbers, which is well-founded.
Less == {ss \in Nat \X Nat : ss[1] < ss[2]}
LEMMA LessIsWF == IsWellFoundedOn(Less, Nat)
<1>1. OpToRel(<, Nat) = Less
    BY Zenon DEF OpToRel, Less
<1> QED
    BY <1>1, NatLessThanWellFounded, Zenon

\* What holds of 0, and of each number when of the one before, holds up to n.
LEMMA UpTo ==
    ASSUME NEW n \in Nat, NEW Q, 0 \in Q, \A k \in 1 .. n : k - 1 \in Q => k \in Q
    PROVE  0 .. n \subseteq Q
<1> DEFINE R == (0 .. n) \ Q
<1> SUFFICES ASSUME R # {} PROVE FALSE
    OBVIOUS
<1>1. R \subseteq Nat
    OBVIOUS
<1>2. PICK x \in R : \A y \in R : <<y, x>> \notin Less
  <2> HIDE DEF R
  <2> QED
    BY <1>1, LessIsWF, WFMin, Zenon
<1>3. x # 0 /\ x - 1 \in 0 .. n /\ x \in 1 .. n /\ x - 1 < x /\ x \in Nat /\ x - 1 \in Nat
    OBVIOUS
<1>4. <<x - 1, x>> \in Less
    BY <1>3 DEF Less
<1>5. x - 1 \notin R
    BY <1>2, <1>4
<1> QED
    BY <1>3, <1>5

\* The largest and the smallest element of a set.
LEMMA MaxIs ==
    ASSUME NEW s, s \subseteq Int, NEW m, m \in s, \A x \in s : x <= m
    PROVE  Max(s) = m
<1>1. s # {} /\ \A x \in s : m >= x
    OBVIOUS
<1>2. Max(s) \in s /\ \A y \in s : Max(s) >= y
    BY <1>1, Zenon DEF Max
<1>3. ASSUME NEW M, M \in s, \A y \in s : M >= y PROVE M = m
    <2>1. M \in Int /\ m \in Int /\ M >= m /\ m >= M
        BY <1>3, <1>1
    <2> QED
        BY <2>1
<1> QED
    BY Zenon, <1>2, <1>3

LEMMA MinIs ==
    ASSUME NEW s, s \subseteq Int, NEW m, m \in s, \A x \in s : m <= x
    PROVE  Min(s) = m
<1>2. Min(s) \in s /\ \A y \in s : Min(s) <= y
    BY Zenon DEF Min
<1>3. ASSUME NEW M, M \in s, \A y \in s : M <= y PROVE M = m
    <2>1. M \in Int /\ m \in Int /\ M <= m /\ m <= M
        BY <1>3
    <2> QED
        BY <2>1
<1> QED
    BY Zenon, <1>2, <1>3

\* A nonempty set of positions has a first one.
LEMMA FirstOf ==
    ASSUME NEW n, n \in Nat, NEW I, I \subseteq 1 .. n, I # {}
    PROVE  Min(I) \in I /\ \A x \in I : Min(I) <= x
<1>1. PICK m \in I : \A y \in I : <<y, m>> \notin Less
  <2>1. I \subseteq Nat
    OBVIOUS
  <2> QED
    BY <2>1, LessIsWF, WFMin, Zenon
<1>2. ASSUME NEW y \in I PROVE m <= y
  <2>1. y \in Nat /\ m \in Nat
    OBVIOUS
  <2>2. ~ (y < m)
    BY <1>1, <2>1 DEF Less
  <2> QED
    BY <2>1, <2>2
<1>3. Min(I) = m
  <2>1. I \subseteq Int
    OBVIOUS
  <2> QED
    BY <1>2, <2>1, MinIs, Zenon
<1> QED
    BY <1>2, <1>3

\* ... and a last one.
LEMMA LastOf ==
    ASSUME NEW n, n \in Nat, NEW I, I \subseteq 1 .. n, I # {}
    PROVE  Max(I) \in I /\ \A x \in I : x <= Max(I)
<1> DEFINE J == {y \in 1 .. n : n + 1 - y \in I}
<1>1. J \subseteq 1 .. n /\ J # {}
  <2>1. PICK x \in I : TRUE
    OBVIOUS
  <2>2. n + 1 - x \in 1 .. n /\ n + 1 - (n + 1 - x) = x
    OBVIOUS
  <2> QED
    BY <2>1, <2>2
<1> HIDE DEF J
<1>2. Min(J) \in J /\ \A y \in J : Min(J) <= y
    BY <1>1, FirstOf
<1> DEFINE m == n + 1 - Min(J)
<1>3. Min(J) \in 1 .. n
    BY <1>1, <1>2
<1>4. m \in I /\ \A x \in I : x <= m
  <2>1. m \in I
    BY <1>2 DEF J
  <2>2. ASSUME NEW x \in I PROVE x <= m
    <3>1. x \in 1 .. n /\ n + 1 - (n + 1 - x) = x
        OBVIOUS
    <3>2. n + 1 - x \in J
        BY <3>1 DEF J
    <3>3. Min(J) <= n + 1 - x
        BY <1>2, <3>2
    <3> QED
        BY <3>1, <3>3, <1>3
  <2> QED
    BY <2>1, <2>2
<1> HIDE DEF m
<1>5. Max(I) = m
  <2>1. I \subseteq Int
    OBVIOUS
  <2> QED
    BY <1>4, <2>1, MaxIs, Zenon
<1> QED
    BY <1>4, <1>5

\* The recursion of a fold over positions 1 .. n has a solution, when its step T
\* stays in S.
Solves(it, n, b, T) ==
    \A s \in SUBSET (1 .. n) : it[s] = IF s = {} THEN b ELSE T[<<it[s \ {Max(s)}], Max(s)>>]

LEMMA FoldSolved ==
    ASSUME NEW S, NEW n \in Nat, NEW b \in S, NEW T \in [S \X (1 .. n) -> S]
    PROVE  \E it \in [SUBSET (1 .. n) -> S] : Solves(it, n, b, T)
<1> DEFINE Q == {k \in 0 .. n : \E it \in [SUBSET (1 .. k) -> S] : Solves(it, k, b, T)}
<1>1. 0 \in Q
  <2> DEFINE it == [s \in SUBSET (1 .. 0) |-> b]
  <2>1. \A s \in SUBSET (1 .. 0) : s = {}
    OBVIOUS
  <2>2. it \in [SUBSET (1 .. 0) -> S] /\ Solves(it, 0, b, T)
    BY <2>1 DEF Solves
  <2> QED
    BY <2>2
<1>2. ASSUME NEW k \in 1 .. n, k - 1 \in Q PROVE k \in Q
  <2>1. PICK f \in [SUBSET (1 .. k - 1) -> S] : Solves(f, k - 1, b, T)
    BY <1>2
  <2> DEFINE g == [s \in SUBSET (1 .. k) |-> IF k \in s THEN T[<<f[s \ {k}], k>>] ELSE f[s]]
  <2>2. ASSUME NEW s \in SUBSET (1 .. k), k \in s
        PROVE  /\ s # {} /\ Max(s) = k /\ s \ {k} \in SUBSET (1 .. k - 1)
               /\ k \notin s \ {k} /\ s \ {k} \in SUBSET (1 .. k)
    <3>1. s \subseteq Int /\ \A x \in s : x <= k
        BY <2>2
    <3>2. Max(s) = k
        BY <3>1, <2>2, MaxIs
    <3> QED
        BY <3>1, <3>2, <2>2
  <2>3. ASSUME NEW s \in SUBSET (1 .. k), k \notin s
        PROVE  /\ s \in SUBSET (1 .. k - 1)
               /\ s # {} => Max(s) \in s /\ s \ {Max(s)} \in SUBSET (1 .. k - 1)
                            /\ s \ {Max(s)} \in SUBSET (1 .. k) /\ k \notin s \ {Max(s)}
    <3>1. s \in SUBSET (1 .. k - 1) /\ k - 1 \in Nat
        BY <2>3
    <3>2. s # {} => Max(s) \in s
        BY <3>1, LastOf
    <3> QED
        BY <3>1, <3>2, <2>3
  <2>4. g \in [SUBSET (1 .. k) -> S]
    <3>1. ASSUME NEW s \in SUBSET (1 .. k)
          PROVE  (IF k \in s THEN T[<<f[s \ {k}], k>>] ELSE f[s]) \in S
      <4>1. CASE k \in s
        <5>1. f[s \ {k}] \in S
            BY <4>1, <2>2, <2>1
        <5>2. T[<<f[s \ {k}], k>>] \in S
            BY <5>1
        <5> QED
            BY <4>1, <5>2
      <4>2. CASE k \notin s
        BY <4>2, <2>3, <2>1
      <4> QED
        BY <4>1, <4>2
    <3> QED
        BY <3>1
  <2>5. ASSUME NEW s \in SUBSET (1 .. k)
        PROVE  g[s] = IF s = {} THEN b ELSE T[<<g[s \ {Max(s)}], Max(s)>>]
    <3>1. CASE k \in s
      <4>1. g[s \ {k}] = f[s \ {k}]
        BY <3>1, <2>2
      <4>2. g[s] = T[<<f[s \ {k}], k>>]
        BY <3>1
      <4> HIDE DEF g
      <4> QED
        BY <4>1, <4>2, <3>1, <2>2
    <3>2. CASE k \notin s /\ s # {}
      <4>1. g[s \ {Max(s)}] = f[s \ {Max(s)}] /\ g[s] = f[s]
        BY <3>2, <2>3
      <4>2. f[s] = T[<<f[s \ {Max(s)}], Max(s)>>]
        BY <3>2, <2>3, <2>1 DEF Solves
      <4> HIDE DEF g
      <4> QED
        BY <4>1, <4>2, <3>2
    <3>3. CASE s = {}
      <4>1. g[s] = f[s]
        BY <3>3
      <4>2. f[{}] = b
        BY <2>1 DEF Solves
      <4> QED
        BY <3>3, <4>1, <4>2
    <3> QED
        BY <3>1, <3>2, <3>3
  <2>6. Solves(g, k, b, T)
    <3> HIDE DEF g
    <3> QED
        BY <2>5 DEF Solves
  <2> HIDE DEF g
  <2> QED
    BY <2>4, <2>6, k \in 0 .. n
<1>3. n \in Q
  <2> HIDE DEF Q
  <2>1. 0 .. n \subseteq Q
    BY <1>1, <1>2, UpTo
  <2> QED
    BY <2>1
<1> QED
    BY <1>3

\* A solution of the recursion over the positions D.
SolvesOn(it, D, b, T) ==
    \A s \in SUBSET D : it[s] = IF s = {} THEN b ELSE T[<<it[s \ {Max(s)}], Max(s)>>]

\* The same over the positions of a sequence.
LEMMA FoldSolvedOn ==
    ASSUME NEW S, NEW D, NEW q, q \in Seq(D), NEW b, b \in S,
           NEW T, T \in [S \X DOMAIN q -> S]
    PROVE  \E it \in [SUBSET DOMAIN q -> S] : SolvesOn(it, DOMAIN q, b, T)
<1>1. DOMAIN q = 1 .. Len(q) /\ Len(q) \in Nat
    BY LenProperties
<1>2. T \in [S \X (1 .. Len(q)) -> S]
    BY <1>1
<1>3. PICK it \in [SUBSET (1 .. Len(q)) -> S] : Solves(it, Len(q), b, T)
    BY <1>1, <1>2, FoldSolved, Zenon
<1>4. it \in [SUBSET DOMAIN q -> S]
    BY <1>1, <1>3
<1>5. SolvesOn(it, DOMAIN q, b, T)
    BY <1>1, <1>3, Zenon DEF Solves, SolvesOn
<1> QED
    BY <1>4, <1>5

\* The positions up to k, as the fold goes through them.
LEMMA PositionsUpTo ==
    ASSUME NEW D, NEW q \in Seq(D), NEW k \in 1 .. Len(q)
    PROVE  /\ 1 .. k \in SUBSET DOMAIN q /\ 1 .. k # {} /\ Max(1 .. k) = k
           /\ (1 .. k) \ {k} = 1 .. k - 1 /\ 1 .. k - 1 \in SUBSET DOMAIN q
<1>1. DOMAIN q = 1 .. Len(q) /\ Len(q) \in Nat
    BY LenProperties
<1>2. 1 .. k \subseteq Int /\ k \in 1 .. k /\ \A x \in 1 .. k : x <= k
    OBVIOUS
<1>3. Max(1 .. k) = k
    BY <1>2, MaxIs, Zenon
<1>4. 1 .. k # {} /\ (1 .. k) \ {k} = 1 .. k - 1 /\ 1 .. k \subseteq 1 .. Len(q)
      /\ 1 .. k - 1 \subseteq 1 .. Len(q)
  <2> DEFINE n == Len(q)
  <2>1. n \in Nat /\ k \in 1 .. n
    BY <1>1
  <2> HIDE DEF n
  <2>2. \A x : x \in (1 .. k) \ {k} <=> x \in 1 .. k - 1
    BY <2>1
  <2>3. (1 .. k) \ {k} = 1 .. k - 1
    BY <2>2, Zenon
  <2>4. 1 .. k \subseteq 1 .. n /\ 1 .. k - 1 \subseteq 1 .. n /\ k \in 1 .. k
    BY <2>1
  <2> QED
    BY <2>3, <2>4 DEF n
<1> QED
    BY <1>1, <1>3, <1>4, Zenon

\* c holds what is picked of each prefix of q.
PicksAlong(c, q, P) ==
    \A k \in 1 .. Len(q) :
        c[1 .. k] = IF q[k] \in P THEN Append(c[1 .. k - 1], q[k]) ELSE c[1 .. k - 1]

\* Picking goes through the prefixes one by one.
LEMMA PickedTrace ==
    ASSUME NEW D, NEW q \in Seq(D), NEW P
    PROVE  \E c : /\ c[{}] = <<>> /\ Picked(q, P) = c[DOMAIN q]
                  /\ PicksAlong(c, q, P)
<1> DEFINE Eq(it) == it = [s \in SUBSET DOMAIN q |->
                        IF s = {} THEN <<>>
                        ELSE IF q[Max(s)] \in P THEN Append(it[s \ {Max(s)}], q[Max(s)])
                             ELSE it[s \ {Max(s)}]]
           c == CHOOSE it : Eq(it)
           T == [x \in Seq(D) \X DOMAIN q |->
                    IF q[x[2]] \in P THEN Append(x[1], q[x[2]]) ELSE x[1]]
<1>1. T \in [Seq(D) \X DOMAIN q -> Seq(D)]
    BY LenProperties
<1>2. PICK it \in [SUBSET DOMAIN q -> Seq(D)] : \A s \in SUBSET DOMAIN q :
          it[s] = IF s = {} THEN <<>> ELSE T[<<it[s \ {Max(s)}], Max(s)>>]
  <2> DEFINE S == Seq(D)
             e == <<>>
  <2>1. e \in S /\ T \in [S \X DOMAIN q -> S]
    BY <1>1, EmptySeq
  <2> HIDE DEF T, S, e
  <2>2. \E it \in [SUBSET DOMAIN q -> S] : SolvesOn(it, DOMAIN q, e, T)
    BY <2>1, FoldSolvedOn, Zenon
  <2> QED
    BY <2>2 DEF S, e, SolvesOn
<1>3. \A s \in SUBSET DOMAIN q : s # {} => Max(s) \in DOMAIN q
    BY LastOf, LenProperties
<1>4. Eq(it)
  <2>1. ASSUME NEW s \in SUBSET DOMAIN q, s # {}
        PROVE  it[s] = IF q[Max(s)] \in P THEN Append(it[s \ {Max(s)}], q[Max(s)])
                             ELSE it[s \ {Max(s)}]
    BY <1>2, <1>3, <2>1
  <2> QED
    BY <1>2, <2>1
<1>5. Eq(c)
  <2> HIDE DEF Eq
  <2> QED
    BY <1>4, Zenon
<1>6. Picked(q, P) = c[DOMAIN q]
    BY Zenon DEF Picked, FoldLeft, MapThenFoldSet
<1>7. ASSUME NEW k \in 1 .. Len(q)
      PROVE  c[1 .. k] = IF q[k] \in P THEN Append(c[1 .. k - 1], q[k]) ELSE c[1 .. k - 1]
  <2> HIDE DEF c
  <2>1. c[1 .. k] = IF q[Max(1 .. k)] \in P
                    THEN Append(c[(1 .. k) \ {Max(1 .. k)}], q[Max(1 .. k)])
                    ELSE c[(1 .. k) \ {Max(1 .. k)}]
    BY <1>5, PositionsUpTo
  <2>2. Max(1 .. k) = k /\ (1 .. k) \ {k} = 1 .. k - 1
    BY PositionsUpTo
  <2> QED
    BY <2>1, <2>2, Zenon
<1>8. c[{}] = <<>>
  <2> HIDE DEF c
  <2> QED
    BY <1>5
<1> HIDE DEF c
<1> QED
    BY <1>6, <1>7, <1>8 DEF PicksAlong

\* What is picked of a sequence: its elements that are in P, and no others.
LEMMA PickedFacts ==
    ASSUME NEW D, NEW q, q \in Seq(D), NEW P
    PROVE  /\ Picked(q, P) \in Seq(D) /\ Len(Picked(q, P)) <= Len(q)
           /\ \A i \in DOMAIN Picked(q, P) :
                 Picked(q, P)[i] \in P /\ \E k \in DOMAIN q : q[k] = Picked(q, P)[i]
           /\ \A k \in DOMAIN q : q[k] \in P => \E i \in DOMAIN Picked(q, P) : Picked(q, P)[i] = q[k]
<1>1. PICK c : /\ c[{}] = <<>> /\ Picked(q, P) = c[DOMAIN q]
               /\ PicksAlong(c, q, P)
    BY PickedTrace, Zenon
<1> DEFINE OK(k, r) ==
              /\ r \in Seq(D) /\ Len(r) <= k
              /\ \A i \in DOMAIN r : r[i] \in P /\ \E j \in 1 .. k : q[j] = r[i]
              /\ \A j \in 1 .. k : q[j] \in P => \E i \in DOMAIN r : r[i] = q[j]
           Q == {k \in 0 .. Len(q) : OK(k, c[1 .. k])}
<1>2. Len(q) \in Nat /\ DOMAIN q = 1 .. Len(q) /\ \A k \in 1 .. Len(q) : q[k] \in D
    BY LenProperties, ElementOfSeq
<1>3. 0 \in Q
  <2>1. 1 .. 0 = {} /\ <<>> \in Seq(D) /\ Len(<<>>) = 0 /\ DOMAIN (<<>>) = {}
    BY EmptySeq
  <2> HIDE DEF OK
  <2>2. OK(0, <<>>)
    BY <2>1 DEF OK
  <2> QED
    BY <2>1, <2>2, <1>1, <1>2
<1>4. ASSUME NEW k \in 1 .. Len(q), k - 1 \in Q PROVE k \in Q
  <2> DEFINE p == c[1 .. k - 1]
             r == c[1 .. k]
  <2>1. OK(k - 1, p) /\ k \in Nat /\ k - 1 \in Nat /\ q[k] \in D
    BY <1>4, <1>2
  <2>2. r = IF q[k] \in P THEN Append(p, q[k]) ELSE p
    BY <1>1 DEF PicksAlong
  <2> HIDE DEF p, r
  <2>3. OK(k, r)
    <3>1. CASE q[k] \notin P
        BY <3>1, <2>1, <2>2
    <3>2. CASE q[k] \in P
      <4>1. /\ r \in Seq(D) /\ Len(r) = Len(p) + 1 /\ DOMAIN r = 1 .. Len(r) /\ Len(p) \in Nat
            /\ DOMAIN p = 1 .. Len(p)
            /\ r[Len(p) + 1] = q[k] /\ \A i \in 1 .. Len(p) : r[i] = p[i]
        BY <2>1, <2>2, <3>2, AppendProperties, LenProperties
      <4>2. \A i \in DOMAIN r : r[i] \in P /\ \E j \in 1 .. k : q[j] = r[i]
        BY <4>1, <2>1, <3>2, SMTT(20)
      <4>3. \A j \in 1 .. k : q[j] \in P => \E i \in DOMAIN r : r[i] = q[j]
        BY <4>1, <2>1, <3>2, SMTT(20)
      <4> QED
        BY <4>1, <4>2, <4>3, <2>1
    <3> QED
        BY <3>1, <3>2
  <2> QED
    BY <2>3, <1>2 DEF r
<1>5. Len(q) \in Q
  <2> HIDE DEF Q
  <2>1. 0 .. Len(q) \subseteq Q
    BY <1>2, <1>3, <1>4, UpTo, Zenon
  <2> QED
    BY <2>1, <1>2
<1>6. OK(Len(q), Picked(q, P))
  <2> HIDE DEF OK
  <2> QED
    BY <1>1, <1>2, <1>5
<1> QED
    BY <1>2, <1>6
-------------------------------------------------------------------------------
(* Accounts, groups and vaults. *)

\* Groups, accounts with ids in I, and vaults of them.
GroupRecs == [id : GroupId, name : GroupName]
Accounts(I) ==
    [id : I, sid : Sid \cup {NoSid}, login : Login \cup {NoLogin},
     password : BOOLEAN, is_nfa : BOOLEAN, cached : BOOLEAN, group : GroupId \cup {NoGroup}]
Vaults(I) == [accounts : Seq(Accounts(I)), groups : Seq(GroupRecs), tag : BOOLEAN]
IdRange == 1 .. MaxIds

LEMMA VaultsAre == Account = Accounts(IdRange) /\ Vault = Vaults(IdRange)
BY DEF Account, Vault, Accounts, Vaults, GroupRecs, IdRange

GroupIds(gs) == {gs[i].id : i \in DOMAIN gs}

\* The account's group and tag are the vault's.
RefersTo(a, v) ==
    /\ a.group = NoGroup \/ a.group \in GroupIds(v.groups)
    /\ a.cached => v.tag

\* A vault resolves when each of its accounts refers to it.
LEMMA ResolvesAs ==
    ASSUME NEW v
    PROVE  Resolves(v) <=> \A i \in DOMAIN v.accounts : RefersTo(v.accounts[i], v)
BY DEF Resolves, RefersTo, GroupIds

\* Every row of q is a row of r, with the same id.
KeepsIds(q, r) == \A j \in DOMAIN q : j \in DOMAIN r /\ r[j].id = q[j].id

\* One account is appended (i = 0) or put in another's place.
Put(q, i, a) == IF i = 0 THEN Append(q, a) ELSE [q EXCEPT ![i] = a]

\* What changes and what does not.
LEMMA PutFacts ==
    ASSUME NEW A, NEW q, q \in Seq(A), NEW i, i \in 0 .. Len(q),
           NEW a, a \in A
    PROVE  /\ Put(q, i, a) \in Seq(A)
           /\ (i = 0 => Len(Put(q, i, a)) = Len(q) + 1) /\ (i # 0 => Len(Put(q, i, a)) = Len(q))
           /\ \A j \in DOMAIN q : /\ j \in DOMAIN Put(q, i, a)
                                  /\ j = i => Put(q, i, a)[j] = a
                                  /\ j # i => Put(q, i, a)[j] = q[j]
           /\ \A j \in DOMAIN Put(q, i, a) :
                 \/ Put(q, i, a)[j] = a
                 \/ j \in DOMAIN q /\ Put(q, i, a)[j] = q[j]
           /\ i # 0 => i \in DOMAIN q /\ q[i] \in A
<1>1. Len(q) \in Nat /\ DOMAIN q = 1 .. Len(q) /\ \A j \in 1 .. Len(q) : q[j] \in A
    BY LenProperties, ElementOfSeq
<1>2. CASE i = 0
  <2>1. /\ Append(q, a) \in Seq(A) /\ Len(Append(q, a)) = Len(q) + 1
        /\ DOMAIN Append(q, a) = 1 .. Len(q) + 1
        /\ Append(q, a)[Len(q) + 1] = a /\ \A j \in 1 .. Len(q) : Append(q, a)[j] = q[j]
    BY AppendProperties, LenProperties
  <2> QED
    BY <1>1, <1>2, <2>1 DEF Put
<1>3. CASE i # 0
  <2>1. i \in 1 .. Len(q)
    BY <1>1, <1>3
  <2>2. /\ [q EXCEPT ![i] = a] \in Seq(A) /\ Len([q EXCEPT ![i] = a]) = Len(q)
        /\ DOMAIN [q EXCEPT ![i] = a] = DOMAIN q
        /\ \A j \in 1 .. Len(q) : [q EXCEPT ![i] = a][j] = IF j = i THEN a ELSE q[j]
    BY <1>1, <2>1, ExceptSeq
  <2> QED
    BY <1>1, <1>3, <2>1, <2>2 DEF Put
<1> QED
    BY <1>2, <1>3

\* No id moves when an account is appended or keeps its id.
LEMMA PutKeepsIds ==
    ASSUME NEW A, NEW q, q \in Seq(A), NEW i, i \in 0 .. Len(q),
           NEW a, a \in A, i # 0 => a.id = q[i].id
    PROVE  KeepsIds(q, Put(q, i, a))
<1>1. Len(q) \in Nat /\ DOMAIN q = 1 .. Len(q)
    BY LenProperties
<1>2. CASE i = 0
  <2>1. /\ DOMAIN Append(q, a) = 1 .. Len(q) + 1
        /\ \A j \in 1 .. Len(q) : Append(q, a)[j] = q[j]
    BY AppendProperties, LenProperties
  <2> QED
    BY <1>1, <1>2, <2>1 DEF Put, KeepsIds
<1>3. CASE i # 0
    BY <1>1, <1>3 DEF Put, KeepsIds
<1> QED
    BY <1>2, <1>3

\* The first position of a kind, or none.
LEMMA PlaceIn ==
    ASSUME NEW A, NEW q, q \in Seq(A), NEW I, I \subseteq 1 .. Len(q)
    PROVE  /\ (IF I # {} THEN Min(I) ELSE 0) \in 0 .. Len(q)
           /\ (IF I # {} THEN Min(I) ELSE 0) # 0 =>
                 (IF I # {} THEN Min(I) ELSE 0) \in I
<1>1. Len(q) \in Nat
    BY LenProperties
<1>2. CASE I # {}
  <2>1. Min(I) \in I
    BY <1>1, <1>2, FirstOf, Zenon
  <2>2. \A m \in I : m \in 0 .. Len(q)
    BY <1>1
  <2> QED
    BY <1>2, <2>1, <2>2
<1>3. CASE I = {}
    BY <1>1, <1>3
<1> QED
    BY <1>2, <1>3

\* A lookup gives a position or 0.
LEMMA FoundIn ==
    ASSUME NEW A, NEW q, q \in Seq(A), NEW sid, NEW login
    PROVE  FindExisting(q, sid, login) \in 0 .. Len(q)
BY PlaceIn DEF FindExisting, SelectInSeq

-------------------------------------------------------------------------------
(* What an action has to keep. *)

\* A vault that is of its type and resolves; the bundle and the dialog likewise.
Good(v) == v \in Vault /\ Resolves(v)
BundleOK ==
    bundle # NoBundle => bundle \in [content : Vault, damage : Damage] /\ Resolves(bundle.content)
Reports == [added : Nat, overwritten : Nat, tags : 0 .. 1]
Dialogs == [stage : {"closed", "picked", "preview", "done"},
            error : {"none", "corrupt", "unsupported", "wrong password"},
            preview : Vault, report : Reports]
DialogOK == dlg \in Dialogs /\ Resolves(dlg.preview) /\ (dlg.stage # "closed" => bundle # NoBundle)

\* The invariant, part by part, before and after a step.
LEMMA MergeParts ==
    MergeInv <=> /\ Good(vault) /\ BundleOK /\ DialogOK
                 /\ candidates \in Seq(Login) /\ nextId \in 1 .. MaxIds + 1
BY DEF MergeInv, MergeTypeOK, ReferencesResolve, Good, BundleOK, DialogOK, Dialogs, Reports

LEMMA MergePartsNext ==
    MergeInv' <=> /\ Good(vault') /\ BundleOK' /\ DialogOK'
                  /\ candidates' \in Seq(Login) /\ nextId' \in 1 .. MaxIds + 1
BY DEF MergeInv, MergeTypeOK, ReferencesResolve, Good, BundleOK, DialogOK, Dialogs, Reports

\* What a good vault consists of.
LEMMA GoodParts ==
    ASSUME NEW v
    PROVE  /\ Good(v) => /\ v.accounts \in Seq(Account) /\ v.groups \in Seq(GroupRecs)
                         /\ v.tag \in BOOLEAN
                         /\ v = [accounts |-> v.accounts, groups |-> v.groups, tag |-> v.tag]
                         /\ \A i \in DOMAIN v.accounts : RefersTo(v.accounts[i], v)
           /\ v \in Vault /\ (\A i \in DOMAIN v.accounts : RefersTo(v.accounts[i], v)) => Good(v)
BY ResolvesAs DEF Good, Vault, GroupRecs

\* A vault whose accounts are replaced by ones that refer to its groups and tag.
LEMMA GoodAgain ==
    ASSUME NEW v, Good(v), NEW r, r \in Seq(Account), \A j \in DOMAIN r : RefersTo(r[j], v)
    PROVE  Good([v EXCEPT !.accounts = r])
<1> DEFINE w == [v EXCEPT !.accounts = r]
<1>1. w.accounts = r /\ w.groups = v.groups /\ w.tag = v.tag /\ w \in Vault
    BY DEF Good, Vault
<1> HIDE DEF w
<1>2. \A j \in DOMAIN w.accounts : RefersTo(w.accounts[j], w)
    BY <1>1 DEF RefersTo
<1>3. Good(w)
    BY <1>1, <1>2, GoodParts
<1> QED
    BY <1>3 DEF w

\* A handler that stores other accounts, all of which refer to the vault.
LEMMA StoreSafe ==
    ASSUME MergeInv, NEW r, r \in Seq(Account), \A j \in DOMAIN r : RefersTo(r[j], vault),
           Store(r), Len(r) > Len(vault.accounts) => nextId <= MaxIds
    PROVE  MergeInv' /\ vault'.accounts = r
<1>1. Good(vault) /\ BundleOK /\ DialogOK /\ candidates \in Seq(Login) /\ nextId \in 1 .. MaxIds + 1
    BY MergeParts
<1>2. Good(vault') /\ vault'.accounts = r
    BY <1>1, GoodAgain DEF Store, Good, Vault
<1>3. BundleOK' /\ DialogOK' /\ candidates' \in Seq(Login)
    BY <1>1 DEF Store, BundleOK, DialogOK
<1>4. nextId' \in 1 .. MaxIds + 1
    BY <1>1, MergeAssumption DEF Store
<1> QED
    BY <1>2, <1>3, <1>4, MergePartsNext

\* An import that changes the account it finds, or a blank one.
LEMMA UpsertSafe ==
    ASSUME MergeInv, nextId <= MaxIds, NEW i, i \in 0 .. Len(vault.accounts),
           NEW a, a \in Account, RefersTo(a, vault),
           i # 0 => a.id = vault.accounts[i].id, Store(Put(vault.accounts, i, a))
    PROVE  MergeInv' /\ KeepsIds(vault.accounts, vault'.accounts)
<1> DEFINE q == vault.accounts
           r == Put(q, i, a)
<1>1. q \in Seq(Account) /\ \A j \in DOMAIN q : RefersTo(q[j], vault)
    BY MergeParts, GoodParts
<1>2. r \in Seq(Account) /\ \A j \in DOMAIN r : r[j] = a \/ (j \in DOMAIN q /\ r[j] = q[j])
  <2> HIDE DEF q
  <2> QED
    BY <1>1, PutFacts DEF q
<1>3. KeepsIds(q, r)
    BY <1>1, PutKeepsIds
<1> HIDE DEF q, r
<1>4. \A j \in DOMAIN r : RefersTo(r[j], vault)
    BY <1>1, <1>2
<1>5. Store(r)
    BY DEF q, r
<1>6. MergeInv' /\ vault'.accounts = r
    BY <1>2, <1>4, <1>5, StoreSafe, Zenon
<1> QED
    BY <1>3, <1>6 DEF q

\* A new account belongs to no group and has no tag.
LEMMA BlankIs ==
    ASSUME MergeInv, nextId <= MaxIds
    PROVE  Blank \in Account /\ Blank.id = nextId /\ RefersTo(Blank, vault)
BY MergeParts DEF Blank, Account, RefersTo

\* An ID looked up on this PC is an ID, or none.
LEMMA LocalIds ==
    ASSUME NEW sid \in Sid \cup {NoSid}, NEW login \in Login \cup {NoLogin}
    PROVE  SidOf(sid, login) \in Sid \cup {NoSid}
BY MergeAssumption DEF SidOf

\* Where an account is found, and that it refers to the vault's groups.
LEMMA FoundIs ==
    ASSUME MergeInv, NEW sid, NEW login
    PROVE  /\ FindExisting(vault.accounts, sid, login) \in 0 .. Len(vault.accounts)
           /\ \A i \in 0 .. Len(vault.accounts) : i # 0 =>
                 /\ i \in DOMAIN vault.accounts /\ vault.accounts[i] \in Account
                 /\ RefersTo(vault.accounts[i], vault)
<1>1. Good(vault)
    BY MergeParts
<1>2. vault.accounts \in Seq(Account)
    BY <1>1, GoodParts
<1>3. \A i \in 0 .. Len(vault.accounts) : i # 0 => i \in DOMAIN vault.accounts
    BY <1>2, LenProperties
<1> QED
    BY <1>1, <1>2, <1>3, FoundIn, GoodParts, ElementOfSeq, LenProperties

\* An account that takes over login, ID or password stays an account of the vault.
LEMMA StillRefers ==
    ASSUME NEW a, RefersTo(a, vault), NEW b, b.group = a.group, b.cached = a.cached
    PROVE  RefersTo(b, vault)
BY DEF RefersTo

\* The imports and edits of one account, action by action.
LEMMA ImportMafileSafe ==
    ASSUME MergeInv, ImportMafile
    PROVE  MergeInv' /\ KeepsIds(vault.accounts, vault'.accounts)
<1>1. PICK login \in Login, sid \in Sid \cup {NoSid}, tokenSid \in Sid \cup {NoSid}, pw \in BOOLEAN :
        LET local == SidOf(sid, login)
            sought == IF local # NoSid THEN local ELSE tokenSid
            Apply(a) == WithGuard(a, login, sought, pw)
        IN  Store(Upsert(vault.accounts, FindExisting(vault.accounts, sought, login), Apply, Blank))
    BY DEF ImportMafile
<1> DEFINE sought == IF SidOf(sid, login) # NoSid THEN SidOf(sid, login) ELSE tokenSid
           i == FindExisting(vault.accounts, sought, login)
           a == WithGuard(IF i = 0 THEN Blank ELSE vault.accounts[i], login, sought, pw)
<1>2. sought \in Sid \cup {NoSid} /\ nextId <= MaxIds
    BY LocalIds DEF ImportMafile
<1>3. Store(Put(vault.accounts, i, a))
    BY <1>1 DEF Upsert, Put
<1>4. i \in 0 .. Len(vault.accounts)
    BY FoundIs
<1> HIDE DEF i, sought
<1> DEFINE b == IF i = 0 THEN Blank ELSE vault.accounts[i]
<1>5. b \in Account /\ RefersTo(b, vault)
    BY <1>2, <1>4, BlankIs, FoundIs
<1>6. i # 0 => b = vault.accounts[i]
    OBVIOUS
<1> HIDE DEF b
<1>7. /\ WithGuard(b, login, sought, pw) \in Account
      /\ WithGuard(b, login, sought, pw).id = b.id
      /\ WithGuard(b, login, sought, pw).group = b.group
      /\ WithGuard(b, login, sought, pw).cached = b.cached
    BY <1>2, <1>5 DEF WithGuard, Account
<1>8. a = WithGuard(b, login, sought, pw)
    BY DEF b
<1> HIDE DEF a
<1>9. RefersTo(a, vault)
    BY <1>5, <1>7, <1>8, StillRefers
<1> QED
    BY <1>2, <1>3, <1>4, <1>6, <1>7, <1>8, <1>9, UpsertSafe
LEMMA ImportInfoDatSafe ==
    ASSUME MergeInv, ImportInfoDat
    PROVE  MergeInv' /\ KeepsIds(vault.accounts, vault'.accounts)
<1>1. PICK login \in Login, sid \in Sid \cup {NoSid}, pw \in BOOLEAN :
        LET sought == SidOf(sid, login)
            Apply(a) == WithEntry(a, login, sought, pw)
        IN  Store(Upsert(vault.accounts, FindExisting(vault.accounts, sought, login), Apply, Blank))
    BY DEF ImportInfoDat
<1> DEFINE sought == SidOf(sid, login)
           i == FindExisting(vault.accounts, sought, login)
           a == WithEntry(IF i = 0 THEN Blank ELSE vault.accounts[i], login, sought, pw)
<1>2. sought \in Sid \cup {NoSid} /\ nextId <= MaxIds
    BY LocalIds DEF ImportInfoDat
<1>3. Store(Put(vault.accounts, i, a))
    BY <1>1 DEF Upsert, Put
<1>4. i \in 0 .. Len(vault.accounts)
    BY FoundIs
<1> HIDE DEF i, sought
<1> DEFINE b == IF i = 0 THEN Blank ELSE vault.accounts[i]
<1>5. b \in Account /\ RefersTo(b, vault)
    BY <1>2, <1>4, BlankIs, FoundIs
<1>6. i # 0 => b = vault.accounts[i]
    OBVIOUS
<1> HIDE DEF b
<1>7. /\ WithEntry(b, login, sought, pw) \in Account
      /\ WithEntry(b, login, sought, pw).id = b.id
      /\ WithEntry(b, login, sought, pw).group = b.group
      /\ WithEntry(b, login, sought, pw).cached = b.cached
    BY <1>2, <1>5 DEF WithEntry, Account
<1>8. a = WithEntry(b, login, sought, pw)
    BY DEF b
<1> HIDE DEF a
<1>9. RefersTo(a, vault)
    BY <1>5, <1>7, <1>8, StillRefers
<1> QED
    BY <1>2, <1>3, <1>4, <1>6, <1>7, <1>8, <1>9, UpsertSafe

LEMMA FullLoginSafe ==
    ASSUME MergeInv, FullLogin
    PROVE  MergeInv' /\ KeepsIds(vault.accounts, vault'.accounts)
<1>1. PICK login \in Login, sid \in Sid :
        LET i == FindExisting(vault.accounts, sid, login)
            Apply(a) == [a EXCEPT !.password = TRUE, !.sid = sid,
                                  !.login = IF i = 0 THEN login ELSE @]
        IN  Store(Upsert(vault.accounts, i, Apply, Blank))
    BY DEF FullLogin
<1> DEFINE i == FindExisting(vault.accounts, sid, login)
           Applied(b) == [b EXCEPT !.password = TRUE, !.sid = sid,
                                   !.login = IF i = 0 THEN login ELSE @]
           a == Applied(IF i = 0 THEN Blank ELSE vault.accounts[i])
<1>2. nextId <= MaxIds
    BY DEF FullLogin
<1>3. Store(Put(vault.accounts, i, a))
    BY <1>1 DEF Upsert, Put
<1>4. i \in 0 .. Len(vault.accounts)
    BY FoundIs
<1> HIDE DEF i
<1> DEFINE b == IF i = 0 THEN Blank ELSE vault.accounts[i]
<1>5. b \in Account /\ RefersTo(b, vault)
    BY <1>2, <1>4, BlankIs, FoundIs
<1>6. i # 0 => b = vault.accounts[i]
    OBVIOUS
<1> HIDE DEF b
<1>7. /\ Applied(b) \in Account /\ Applied(b).id = b.id
      /\ Applied(b).group = b.group /\ Applied(b).cached = b.cached
    BY <1>5 DEF Account
<1>8. a = Applied(b)
    BY DEF b
<1> HIDE DEF a, Applied
<1>9. RefersTo(a, vault)
    BY <1>5, <1>7, <1>8, StillRefers
<1> QED
    BY <1>2, <1>3, <1>4, <1>6, <1>7, <1>8, <1>9, UpsertSafe

\* One account is edited in its place.
LEMMA EditSafe ==
    ASSUME MergeInv, NEW i, i \in DOMAIN vault.accounts, NEW a, a \in Account,
           RefersTo(a, vault), a.id = vault.accounts[i].id,
           Store([vault.accounts EXCEPT ![i] = a])
    PROVE  MergeInv' /\ KeepsIds(vault.accounts, vault'.accounts)
<1>1. vault.accounts \in Seq(Account) /\ \A j \in DOMAIN vault.accounts : RefersTo(vault.accounts[j], vault)
    BY MergeParts, GoodParts
<1> DEFINE q == vault.accounts
           r == [q EXCEPT ![i] = a]
<1>2. /\ r \in Seq(Account) /\ Len(r) = Len(q) /\ Len(q) \in Nat /\ DOMAIN r = DOMAIN q
      /\ r[i] = a /\ \A j \in DOMAIN q : j # i => r[j] = q[j]
  <2> HIDE DEF q
  <2>1. q \in Seq(Account) /\ i \in 1 .. Len(q) /\ i \in DOMAIN q
    BY <1>1, LenProperties DEF q
  <2> QED
    BY <2>1, ExceptSeq, LenProperties
<1>3. Store(r)
    OBVIOUS
<1> HIDE DEF r
<1>4. \A j \in DOMAIN r : RefersTo(r[j], vault)
    BY <1>1, <1>2
<1>5. MergeInv' /\ vault'.accounts = r
    BY <1>2, <1>3, <1>4, StoreSafe
<1>6. KeepsIds(q, r)
    BY <1>2 DEF KeepsIds
<1> QED
    BY <1>5, <1>6

LEMMA SaveEditSafe ==
    ASSUME MergeInv, SaveEdit
    PROVE  MergeInv' /\ KeepsIds(vault.accounts, vault'.accounts)
<1>1. PICK i \in DOMAIN vault.accounts, login \in Login, pw \in BOOLEAN :
        Store([vault.accounts EXCEPT ![i] = Edited(@, login, pw)])
    BY DEF SaveEdit
<1> DEFINE b == vault.accounts[i]
<1>2. b \in Account /\ RefersTo(b, vault)
    BY MergeParts, GoodParts, ElementOfSeq, LenProperties
<1>3. Store([vault.accounts EXCEPT ![i] = Edited(b, login, pw)])
    BY <1>1
<1> HIDE DEF b
<1>4. b.sid \in Sid \cup {NoSid} /\ SidOf(b.sid, login) \in Sid \cup {NoSid}
    BY <1>2, LocalIds DEF Account
<1> DEFINE a == Edited(b, login, pw)
<1>5. a \in Account /\ a.id = b.id /\ a.group = b.group /\ a.cached = b.cached
    BY <1>2, <1>4 DEF Account, Edited
<1> HIDE DEF a
<1>6. RefersTo(a, vault)
    BY <1>2, <1>5, StillRefers
<1>7. Store([vault.accounts EXCEPT ![i] = a]) /\ a.id = vault.accounts[i].id
    BY <1>3, <1>5 DEF a, b
<1> QED
    BY <1>5, <1>6, <1>7, EditSafe

LEMMA ConvertSafe ==
    ASSUME MergeInv, ConvertToFull
    PROVE  MergeInv' /\ KeepsIds(vault.accounts, vault'.accounts)
<1>1. PICK i \in DOMAIN vault.accounts :
        Store([vault.accounts EXCEPT ![i] = Converted(@)])
    BY DEF ConvertToFull
<1> DEFINE b == vault.accounts[i]
<1>2. b \in Account /\ RefersTo(b, vault)
    BY MergeParts, GoodParts, ElementOfSeq, LenProperties
<1>3. Store([vault.accounts EXCEPT ![i] = Converted(b)])
    BY <1>1
<1> HIDE DEF b
<1> DEFINE a == Converted(b)
<1>4. a \in Account /\ a.id = b.id /\ a.group \in {b.group, NoGroup} /\ a.cached = FALSE
    BY <1>2 DEF Account, Converted
<1> HIDE DEF a
<1>5. RefersTo(a, vault)
    BY <1>2, <1>4 DEF RefersTo
<1>6. Store([vault.accounts EXCEPT ![i] = a]) /\ a.id = vault.accounts[i].id
    BY <1>3, <1>4 DEF a, b
<1> QED
    BY <1>4, <1>5, <1>6, EditSafe

\* A removal leaves accounts that were there.
LEMMA RemoveSafe ==
    ASSUME MergeInv, RemoveAccounts
    PROVE  MergeInv'
<1>1. PICK ids :
        Store(Picked(vault.accounts, {a \in Range(vault.accounts) : a.id \notin ids}))
    BY DEF RemoveAccounts
<1> DEFINE P == {a \in Range(vault.accounts) : a.id \notin ids}
           r == Picked(vault.accounts, P)
<1>2. vault.accounts \in Seq(Account) /\ \A j \in DOMAIN vault.accounts : RefersTo(vault.accounts[j], vault)
    BY MergeParts, GoodParts
<1>3. Store(r)
    BY <1>1
<1> HIDE DEF P
<1>4. /\ r \in Seq(Account) /\ Len(r) <= Len(vault.accounts)
      /\ \A i \in DOMAIN r : \E k \in DOMAIN vault.accounts : vault.accounts[k] = r[i]
    BY <1>2, PickedFacts
<1> HIDE DEF r
<1>5. \A i \in DOMAIN r : RefersTo(r[i], vault)
    BY <1>2, <1>4
<1>6. ~ (Len(r) > Len(vault.accounts))
    BY <1>2, <1>4, LenProperties
<1> QED
    BY <1>3, <1>4, <1>5, <1>6, StoreSafe
-------------------------------------------------------------------------------
(* Groups. *)

\* The vault of these parts.
VaultOf(r, gs, t) == [accounts |-> r, groups |-> gs, tag |-> t]

\* A vault is good when its parts are of their types and its accounts refer to them.
LEMMA GoodVaultOf ==
    ASSUME NEW r, r \in Seq(Account), NEW gs, gs \in Seq(GroupRecs), NEW t, t \in BOOLEAN,
           \A j \in DOMAIN r : /\ r[j].group = NoGroup \/ r[j].group \in GroupIds(gs)
                               /\ r[j].cached => t
    PROVE  Good(VaultOf(r, gs, t))
<1> DEFINE w == VaultOf(r, gs, t)
<1>1. w.accounts = r /\ w.groups = gs /\ w.tag = t /\ w \in Vault
    BY DEF VaultOf, Vault, GroupRecs
<1> HIDE DEF w
<1>2. \A j \in DOMAIN w.accounts : RefersTo(w.accounts[j], w)
    BY <1>1 DEF RefersTo
<1>3. Good(w)
    BY <1>1, <1>2, GoodParts
<1> QED
    BY <1>3 DEF w

\* A handler that stores other accounts and groups.
LEMMA GroupsSafe ==
    ASSUME MergeInv, NEW r, r \in Seq(Account), NEW gs, gs \in Seq(GroupRecs),
           \A j \in DOMAIN r : /\ r[j].group = NoGroup \/ r[j].group \in GroupIds(gs)
                               /\ r[j].cached => vault.tag,
           StoreGroups(r, gs)
    PROVE  MergeInv' /\ vault'.accounts = r
<1>1. Good(vault) /\ BundleOK /\ DialogOK /\ candidates \in Seq(Login) /\ nextId \in 1 .. MaxIds + 1
    BY MergeParts
<1>2. /\ vault = [accounts |-> vault.accounts, groups |-> vault.groups, tag |-> vault.tag]
      /\ vault.tag \in BOOLEAN
    BY <1>1, GoodParts
<1>3. vault' = VaultOf(r, gs, vault.tag)
    BY <1>2 DEF StoreGroups, VaultOf
<1>4. Good(vault')
    BY <1>2, <1>3, GoodVaultOf
<1>5. BundleOK' /\ DialogOK' /\ candidates' \in Seq(Login) /\ nextId' \in 1 .. MaxIds + 1
    BY <1>1 DEF StoreGroups, BundleOK, DialogOK
<1> QED
    BY <1>3, <1>4, <1>5, MergePartsNext DEF VaultOf

\* What the accounts and groups of the vault are.
LEMMA VaultIs ==
    ASSUME MergeInv
    PROVE  /\ vault.accounts \in Seq(Account) /\ vault.groups \in Seq(GroupRecs)
           /\ \A j \in DOMAIN vault.accounts :
                /\ vault.accounts[j] \in Account
                /\ vault.accounts[j].group = NoGroup \/ vault.accounts[j].group \in GroupIds(vault.groups)
                /\ vault.accounts[j].cached => vault.tag
<1>1. Good(vault)
    BY MergeParts
<1>2. /\ vault.accounts \in Seq(Account) /\ vault.groups \in Seq(GroupRecs)
      /\ \A i \in DOMAIN vault.accounts : RefersTo(vault.accounts[i], vault)
    BY <1>1, GoodParts
<1>3. \A i \in DOMAIN vault.accounts : vault.accounts[i] \in Account
    BY <1>2, ElementOfSeq, LenProperties
<1> QED
    BY <1>2, <1>3 DEF RefersTo

\* Rows left alone keep their ids.
LEMMA SameIds ==
    ASSUME NEW q
    PROVE  KeepsIds(q, q)
BY DEF KeepsIds

\* The group actions, one by one.
LEMMA NewGroupSafe ==
    ASSUME MergeInv, NewGroup
    PROVE  MergeInv' /\ KeepsIds(vault.accounts, vault'.accounts)
<1>1. PICK g \in UserGroup, name \in GroupName :
        StoreGroups(vault.accounts, Append(vault.groups, [id |-> g, name |-> name]))
    BY DEF NewGroup
<1> DEFINE gs == Append(vault.groups, [id |-> g, name |-> name])
<1>2. gs \in Seq(GroupRecs) /\ GroupIds(vault.groups) \subseteq GroupIds(gs)
  <2>1. [id |-> g, name |-> name] \in GroupRecs
    BY DEF GroupRecs, GroupId
  <2>2. vault.groups \in Seq(GroupRecs)
    BY VaultIs
  <2>3. /\ gs \in Seq(GroupRecs) /\ \A k \in DOMAIN vault.groups :
              k \in DOMAIN gs /\ gs[k] = vault.groups[k]
    BY <2>1, <2>2, AppendProperties, LenProperties
  <2> HIDE DEF gs
  <2> QED
    BY <2>3 DEF GroupIds
<1>3. StoreGroups(vault.accounts, gs)
    BY <1>1
<1> HIDE DEF gs
<1>4. MergeInv' /\ vault'.accounts = vault.accounts
    BY <1>2, <1>3, VaultIs, GroupsSafe
<1> QED
    BY <1>4, SameIds

LEMMA RenameGroupSafe ==
    ASSUME MergeInv, RenameGroup
    PROVE  MergeInv' /\ KeepsIds(vault.accounts, vault'.accounts)
<1>1. PICK i \in DOMAIN vault.groups, name \in GroupName :
        StoreGroups(vault.accounts, [vault.groups EXCEPT ![i].name = name])
    BY DEF RenameGroup
<1> DEFINE q == vault.groups
           g == [q[i] EXCEPT !.name = name]
           gs == [q EXCEPT ![i] = g]
<1>2. gs \in Seq(GroupRecs) /\ GroupIds(vault.groups) \subseteq GroupIds(gs)
  <2>1. q \in Seq(GroupRecs) /\ i \in 1 .. Len(q) /\ DOMAIN q = 1 .. Len(q) /\ Len(q) \in Nat
    BY VaultIs, LenProperties
  <2> HIDE DEF q
  <2>2. q[i] \in GroupRecs
    BY <2>1, ElementOfSeq
  <2>3. g \in GroupRecs /\ g.id = q[i].id
    BY <2>2 DEF GroupRecs
  <2> HIDE DEF g
  <2>4. /\ gs \in Seq(GroupRecs) /\ DOMAIN gs = DOMAIN q
        /\ \A k \in DOMAIN q : gs[k] = IF k = i THEN g ELSE q[k]
    BY <2>1, <2>3, ExceptSeq
  <2> HIDE DEF gs
  <2>5. \A k \in DOMAIN q : gs[k].id = q[k].id
    BY <2>3, <2>4
  <2>6. GroupIds(q) \subseteq GroupIds(gs)
    BY <2>4, <2>5 DEF GroupIds
  <2> QED
    BY <2>4, <2>6 DEF q
<1>3. StoreGroups(vault.accounts, gs)
    BY <1>1
<1> HIDE DEF gs
<1>4. MergeInv' /\ vault'.accounts = vault.accounts
    BY <1>2, <1>3, VaultIs, GroupsSafe
<1> QED
    BY <1>4, SameIds

LEMMA DropSafe ==
    ASSUME MergeInv, DropOnGroup
    PROVE  MergeInv' /\ KeepsIds(vault.accounts, vault'.accounts)
<1>1. PICK i \in DOMAIN vault.accounts,
           g \in {vault.groups[k].id : k \in DOMAIN vault.groups} \cup {NoGroup} :
        StoreGroups([vault.accounts EXCEPT ![i].group = g], vault.groups)
    BY DEF DropOnGroup
<1> DEFINE q == vault.accounts
           a == [q[i] EXCEPT !.group = g]
           r == [q EXCEPT ![i] = a]
<1>2. g \in GroupIds(vault.groups) \cup {NoGroup}
    BY DEF GroupIds
<1>3. g \in GroupId \cup {NoGroup}
  <2>1. \A k \in DOMAIN vault.groups : vault.groups[k] \in GroupRecs
    BY VaultIs, ElementOfSeq, LenProperties
  <2> QED
    BY <2>1 DEF GroupRecs
<1>4. q \in Seq(Account) /\ i \in 1 .. Len(q) /\ DOMAIN q = 1 .. Len(q) /\ Len(q) \in Nat
    BY VaultIs, LenProperties
<1>5. q[i] \in Account /\ q[i].cached => vault.tag
    BY VaultIs
<1>6. \A j \in DOMAIN q : /\ q[j].group = NoGroup \/ q[j].group \in GroupIds(vault.groups)
                          /\ q[j].cached => vault.tag
    BY VaultIs
<1>7. StoreGroups(r, vault.groups)
    BY <1>1
<1> DEFINE b == q[i]
<1>8. b \in Account /\ (b.cached => vault.tag)
    BY <1>4, <1>6, ElementOfSeq
<1> HIDE DEF b
<1>9. /\ [b EXCEPT !.group = g] \in Account /\ [b EXCEPT !.group = g].id = b.id
      /\ [b EXCEPT !.group = g].group = g /\ [b EXCEPT !.group = g].cached = b.cached
    BY <1>3, <1>8 DEF Account
<1>10. a \in Account /\ a.id = q[i].id /\ a.group = g /\ (a.cached => vault.tag)
    BY <1>8, <1>9 DEF b
<1> HIDE DEF a, q
<1>11. /\ r \in Seq(Account) /\ DOMAIN r = DOMAIN q
       /\ \A k \in DOMAIN q : r[k] = IF k = i THEN a ELSE q[k]
    BY <1>4, <1>10, ExceptSeq
<1> HIDE DEF r
<1>12. \A k \in DOMAIN r : /\ r[k].group = NoGroup \/ r[k].group \in GroupIds(vault.groups)
                           /\ r[k].cached => vault.tag
    BY <1>2, <1>6, <1>10, <1>11
<1>13. MergeInv' /\ vault'.accounts = r
    BY <1>7, <1>11, <1>12, VaultIs, GroupsSafe
<1>14. KeepsIds(q, r)
    BY <1>10, <1>11 DEF KeepsIds
<1> QED
    BY <1>13, <1>14 DEF q

\* A deleted group leaves no account that refers to it.
LEMMA DeleteSafe ==
    ASSUME MergeInv, DeleteGroup
    PROVE  MergeInv' /\ KeepsIds(vault.accounts, vault'.accounts)
<1>1. PICK g :
        StoreGroups([i \in DOMAIN vault.accounts |-> Ungroup(vault.accounts[i], g)],
                    Picked(vault.groups, {h \in Range(vault.groups) : h.id # g}))
    BY DEF DeleteGroup
<1> DEFINE q == vault.accounts
           r == [i \in DOMAIN q |-> Ungroup(q[i], g)]
           P == {h \in Range(vault.groups) : h.id # g}
           gs == Picked(vault.groups, P)
<1>2. StoreGroups(r, gs)
    BY <1>1
<1>3. /\ vault.groups \in Seq(GroupRecs) /\ q \in Seq(Account)
      /\ \A j \in DOMAIN q : /\ q[j] \in Account
                             /\ q[j].group = NoGroup \/ q[j].group \in GroupIds(vault.groups)
                             /\ q[j].cached => vault.tag
    BY VaultIs
<1>4. \A k \in DOMAIN vault.groups : vault.groups[k].id # g => vault.groups[k] \in P
    BY DEF Range
<1> HIDE DEF P, q
<1>5. /\ gs \in Seq(GroupRecs)
      /\ \A k \in DOMAIN vault.groups : vault.groups[k] \in P =>
            \E i \in DOMAIN gs : gs[i] = vault.groups[k]
    BY <1>3, PickedFacts
<1> HIDE DEF gs
<1>6. ASSUME NEW h \in GroupIds(vault.groups), h # g PROVE h \in GroupIds(gs)
    BY <1>4, <1>5, <1>6 DEF GroupIds
<1>7. ASSUME NEW j \in DOMAIN q
      PROVE  /\ r[j] \in Account /\ r[j].id = q[j].id /\ r[j].cached = q[j].cached
             /\ r[j].group = NoGroup \/ r[j].group \in GroupIds(gs)
  <2> DEFINE b == q[j]
  <2>1. r[j] = Ungroup(b, g)
    OBVIOUS
  <2>2. b \in Account /\ (b.group = NoGroup \/ b.group \in GroupIds(vault.groups))
    BY <1>3
  <2> HIDE DEF b
  <2>3. CASE b.group = g
    <3>1. [b EXCEPT !.group = NoGroup] \in Account /\ [b EXCEPT !.group = NoGroup].id = b.id
          /\ [b EXCEPT !.group = NoGroup].cached = b.cached
          /\ [b EXCEPT !.group = NoGroup].group = NoGroup
        BY <2>2 DEF Account
    <3>2. Ungroup(b, g) = [b EXCEPT !.group = NoGroup]
        BY <2>3, Zenon DEF Ungroup
    <3> QED
        BY <2>1, <3>1, <3>2 DEF b
  <2>4. CASE b.group # g
    <3>1. Ungroup(b, g) = b
        BY <2>4, Zenon DEF Ungroup
    <3> QED
        BY <2>1, <2>2, <2>4, <3>1, <1>6 DEF b
  <2> QED
    BY <2>3, <2>4
<1>8. r \in Seq(Account) /\ DOMAIN r = DOMAIN q
  <2>1. DOMAIN q = 1 .. Len(q) /\ Len(q) \in Nat
    BY <1>3, LenProperties
  <2>2. r \in [1 .. Len(q) -> Account]
    BY <1>7, <2>1
  <2> HIDE DEF r
  <2> QED
    BY <2>1, <2>2
<1> HIDE DEF r
<1>9. MergeInv' /\ vault'.accounts = r
    BY <1>2, <1>3, <1>5, <1>7, <1>8, GroupsSafe
<1>10. KeepsIds(q, r)
    BY <1>7, <1>8 DEF KeepsIds
<1> QED
    BY <1>9, <1>10 DEF q
-------------------------------------------------------------------------------
(* The bundle dialogs and the list of local sign-ins. *)

\* A step that leaves the open vault alone.
LEMMA VaultKept ==
    ASSUME MergeInv, vault' = vault, nextId' = nextId, candidates' \in Seq(Login),
           BundleOK', DialogOK'
    PROVE  MergeInv' /\ KeepsIds(vault.accounts, vault'.accounts)
BY MergeParts, MergePartsNext, SameIds

\* A bundle takes along the groups and the tag its accounts refer to.
LEMMA SubsetGood ==
    ASSUME NEW v, Good(v), NEW ids
    PROVE  Good(Subset(v, ids))
<1> DEFINE q == v.accounts
           A == {a \in Range(v.accounts) : a.id \in ids}
           kept == Picked(v.accounts, A)
           G == {g \in Range(v.groups) : \E i \in DOMAIN kept : kept[i].group = g.id}
           gs == Picked(v.groups, G)
           t == \E i \in DOMAIN kept : kept[i].cached
<1>1. Subset(v, ids) = VaultOf(kept, gs, t)
    BY DEF Subset, VaultOf
<1>2. /\ v.accounts \in Seq(Account) /\ v.groups \in Seq(GroupRecs)
      /\ \A i \in DOMAIN v.accounts : RefersTo(v.accounts[i], v)
    BY GoodParts
<1> HIDE DEF A
<1>3. /\ kept \in Seq(Account)
      /\ \A i \in DOMAIN kept : \E k \in DOMAIN v.accounts : v.accounts[k] = kept[i]
    BY <1>2, PickedFacts
<1> HIDE DEF kept
<1>4. \A k \in DOMAIN v.groups : (\E i \in DOMAIN kept : kept[i].group = v.groups[k].id) => v.groups[k] \in G
    BY DEF Range
<1> HIDE DEF G
<1>5. /\ gs \in Seq(GroupRecs)
      /\ \A k \in DOMAIN v.groups : v.groups[k] \in G => \E i \in DOMAIN gs : gs[i] = v.groups[k]
    BY <1>2, PickedFacts
<1> HIDE DEF gs
<1>6. t \in BOOLEAN /\ \A j \in DOMAIN kept : kept[j].cached => t
    OBVIOUS
<1> HIDE DEF t
<1>7. ASSUME NEW j \in DOMAIN kept, kept[j].group # NoGroup
      PROVE  kept[j].group \in GroupIds(gs)
  <2>1. PICK k \in DOMAIN v.accounts : v.accounts[k] = kept[j]
    BY <1>3
  <2>2. kept[j].group \in GroupIds(v.groups)
    BY <1>2, <1>7, <2>1 DEF RefersTo
  <2>3. PICK m \in DOMAIN v.groups : v.groups[m].id = kept[j].group
    BY <2>2 DEF GroupIds
  <2>4. PICK i \in DOMAIN gs : gs[i] = v.groups[m]
    BY <1>4, <1>5, <2>3
  <2> QED
    BY <2>3, <2>4 DEF GroupIds
<1> QED
    BY <1>1, <1>3, <1>5, <1>6, <1>7, GoodVaultOf

\* The dialogs, action by action.
LEMMA ExportSafe ==
    ASSUME MergeInv, Export
    PROVE  MergeInv' /\ KeepsIds(vault.accounts, vault'.accounts)
<1>1. PICK ids :
        bundle' = [content |-> IF ids = {} THEN vault ELSE Subset(vault, ids), damage |-> "none"]
    BY DEF Export
<1>2. /\ Good(vault) /\ DialogOK /\ candidates \in Seq(Login)
      /\ UNCHANGED <<vault, dlg, candidates, nextId>>
    BY MergeParts DEF Export
<1>3. Good(vault) /\ Good(Subset(vault, ids))
    BY <1>2, SubsetGood
<1>4. Good(bundle'.content) /\ bundle' = [content |-> bundle'.content, damage |-> "none"]
  <2>1. CASE ids = {}
    BY <1>1, <1>3, <2>1
  <2>2. CASE ids # {}
    BY <1>1, <1>3, <2>2
  <2> QED
    BY <2>1, <2>2
<1>5. BundleOK'
    BY <1>4 DEF BundleOK, Good, Damage
<1>6. DialogOK'
    BY <1>2 DEF DialogOK, Export, UserStep
<1> QED
    BY <1>2, <1>5, <1>6, VaultKept

\* A closed dialog holds an empty vault.
LEMMA EmptyVaultGood == Good(NoVaultYet)
<1>1. NoVaultYet \in Vault /\ DOMAIN NoVaultYet.accounts = {}
    BY EmptySeq DEF NoVaultYet, Vault
<1> QED
    BY <1>1, GoodParts

LEMMA ClosedIs ==
    ClosedDialog \in Dialogs /\ ClosedDialog.stage = "closed" /\ ClosedDialog.preview = NoVaultYet
BY EmptyVaultGood DEF ClosedDialog, Dialogs, Reports, Good

LEMMA PickSafe ==
    ASSUME MergeInv, PickBundle
    PROVE  MergeInv' /\ KeepsIds(vault.accounts, vault'.accounts)
<1>1. /\ BundleOK /\ candidates \in Seq(Login)
      /\ UNCHANGED <<vault, bundle, candidates, nextId>> /\ bundle # NoBundle
      /\ dlg' = [ClosedDialog EXCEPT !.stage = "picked"]
    BY MergeParts DEF PickBundle
<1>2. dlg' \in Dialogs /\ dlg'.preview = NoVaultYet
    BY <1>1, ClosedIs DEF Dialogs
<1>3. DialogOK'
    BY <1>1, <1>2, EmptyVaultGood DEF DialogOK, Good
<1>4. BundleOK'
    BY <1>1 DEF BundleOK
<1> QED
    BY <1>1, <1>3, <1>4, VaultKept

LEMMA CloseSafe ==
    ASSUME MergeInv, CloseDialog
    PROVE  MergeInv' /\ KeepsIds(vault.accounts, vault'.accounts)
<1>1. /\ BundleOK /\ candidates \in Seq(Login)
      /\ UNCHANGED <<vault, bundle, candidates, nextId>> /\ dlg' = ClosedDialog
    BY MergeParts DEF CloseDialog
<1>2. DialogOK'
    BY <1>1, ClosedIs, EmptyVaultGood DEF DialogOK, Good
<1>3. BundleOK'
    BY <1>1 DEF BundleOK
<1> QED
    BY <1>1, <1>2, <1>3, VaultKept

\* The dry run counts at most as many matches as there are accounts.
LEMMA PreviewCounts ==
    ASSUME NEW dst, NEW v, Good(v)
    PROVE  PreviewMerge(dst, v) \in Reports
<1> DEFINE hits == {i \in DOMAIN v.accounts : \E j \in DOMAIN dst.accounts :
                        SameAccount(dst.accounts[j], v.accounts[i])}
<1>1. Len(v.accounts) \in Nat /\ DOMAIN v.accounts = 1 .. Len(v.accounts)
    BY GoodParts, LenProperties
<1> DEFINE n == Len(v.accounts)
<1>2. hits \in SUBSET (1 .. n)
    BY <1>1
<1>3. IsFiniteSet(1 .. n) /\ Cardinality(1 .. n) = n
  <2>1. n \in Nat /\ n \in Int /\ 1 \in Int
    BY <1>1
  <2> HIDE DEF n
  <2>2. IsFiniteSet(1 .. n) /\ Cardinality(1 .. n) = IF 1 > n THEN 0 ELSE n - 1 + 1
    BY <2>1, FS_Interval
  <2> QED
    BY <2>1, <2>2
<1>4. PreviewMerge(dst, v) = [added |-> n - Cardinality(hits), overwritten |-> Cardinality(hits),
                              tags |-> IF v.tag /\ ~dst.tag THEN 1 ELSE 0]
    BY Zenon DEF PreviewMerge
<1> HIDE DEF hits, n
<1>5. Cardinality(hits) \in Nat /\ Cardinality(hits) <= n
    BY <1>2, <1>3, FS_Subset, FS_CardinalityType
<1>6. n - Cardinality(hits) \in Nat
    BY <1>1, <1>5 DEF n
<1> QED
    BY <1>4, <1>5, <1>6 DEF Reports

LEMMA UnlockSafe ==
    ASSUME MergeInv, Unlock
    PROVE  MergeInv' /\ KeepsIds(vault.accounts, vault'.accounts)
<1>1. PICK right \in BOOLEAN :
        LET error == LoadError(bundle, right)
        IN  dlg' = IF error # "none" THEN [dlg EXCEPT !.error = error]
                   ELSE [stage |-> "preview", error |-> "none", preview |-> bundle.content,
                         report |-> PreviewMerge(vault, bundle.content)]
    BY DEF Unlock
<1> DEFINE error == LoadError(bundle, right)
<1>2. /\ BundleOK /\ DialogOK /\ candidates \in Seq(Login)
      /\ UNCHANGED <<vault, bundle, candidates, nextId>>
    BY MergeParts DEF Unlock
<1>3. error \in {"none", "corrupt", "unsupported", "wrong password"}
    BY DEF LoadError
<1>4. BundleOK'
    BY <1>2 DEF BundleOK
<1>5. DialogOK'
  <2>1. CASE error # "none"
    <3>1. dlg' = [dlg EXCEPT !.error = error]
        BY <1>1, <2>1
    <3> HIDE DEF error
    <3>2. dlg' \in Dialogs /\ dlg'.preview = dlg.preview /\ dlg'.stage = dlg.stage
        BY <1>2, <1>3, <3>1 DEF DialogOK, Dialogs
    <3> QED
        BY <1>2, <3>2 DEF DialogOK
  <2>2. CASE error = "none"
    <3>1. dlg' = [stage |-> "preview", error |-> "none", preview |-> bundle.content,
                  report |-> PreviewMerge(vault, bundle.content)]
        BY <1>1, <2>2
    <3>2. bundle # NoBundle /\ Good(bundle.content)
        BY <1>2 DEF BundleOK, DialogOK, Good, Unlock
    <3>3. dlg' \in Dialogs /\ dlg'.preview = bundle.content
        BY <3>1, <3>2, PreviewCounts DEF Dialogs, Good
    <3> QED
        BY <1>2, <3>2, <3>3 DEF DialogOK, Good
  <2> QED
    BY <2>1, <2>2
<1> QED
    BY <1>2, <1>4, <1>5, VaultKept

\* The elements of a finite set, listed.
LEMMA ListOf ==
    ASSUME NEW S, IsFiniteSet(S)
    PROVE  SetToSeq(S) \in Seq(S)
<1>1. Cardinality(S) \in Nat /\ ExistsBijection(1 .. Cardinality(S), S)
    BY FS_CardinalityType
<1>2. \E f \in [1 .. Cardinality(S) -> S] : IsInjective(f)
    BY <1>1 DEF ExistsBijection, Bijection, Injection, IsInjective
<1>3. SetToSeq(S) \in [1 .. Cardinality(S) -> S]
    BY <1>2, Zenon DEF SetToSeq
<1> QED
    BY <1>1, <1>3

\* The list of local sign-ins.
LEMMA ListedIs ==
    ASSUME NEW v
    PROVE  Listed(v) \in Seq(Login)
<1> DEFINE S == {l \in Login : LocalSid[l] # NoSid /\ FindExisting(v.accounts, LocalSid[l], l) = 0}
<1>1. IsFiniteSet(S) /\ S \subseteq Login
    BY MergeAssumption, FS_Subset
<1>2. Listed(v) = SetToSeq(S)
    BY Zenon DEF Listed
<1> HIDE DEF S
<1> QED
    BY <1>1, <1>2, ListOf

LEMMA RescanSafe ==
    ASSUME MergeInv, Rescan
    PROVE  MergeInv' /\ KeepsIds(vault.accounts, vault'.accounts)
<1>1. BundleOK /\ DialogOK /\ UNCHANGED <<vault, bundle, dlg, nextId>> /\ candidates' = Listed(vault)
    BY MergeParts DEF Rescan
<1>2. BundleOK' /\ DialogOK'
    BY <1>1 DEF BundleOK, DialogOK
<1> QED
    BY <1>1, <1>2, ListedIs, VaultKept
-------------------------------------------------------------------------------
(* Tokens. *)

\* A good vault whose ids are in I.
GoodIn(v, I) == v \in Vaults(I) /\ Resolves(v)

\* Good means good with ids that may be handed out.
LEMMA GoodIsIn ==
    ASSUME NEW v
    PROVE  Good(v) <=> GoodIn(v, IdRange)
BY VaultsAre DEF Good, GoodIn

LEMMA GoodInParts ==
    ASSUME NEW v, NEW I, GoodIn(v, I)
    PROVE  /\ v.accounts \in Seq(Accounts(I)) /\ v.groups \in Seq(GroupRecs) /\ v.tag \in BOOLEAN
           /\ v = VaultOf(v.accounts, v.groups, v.tag)
           /\ \A j \in DOMAIN v.accounts : RefersTo(v.accounts[j], v)
           /\ \A j \in DOMAIN v.accounts : v.accounts[j] \in Accounts(I)
<1>1. v \in Vaults(I) /\ \A j \in DOMAIN v.accounts : RefersTo(v.accounts[j], v)
    BY ResolvesAs DEF GoodIn
<1>2. v.accounts \in Seq(Accounts(I)) /\ v.groups \in Seq(GroupRecs) /\ v.tag \in BOOLEAN
    BY <1>1 DEF Vaults
<1>3. v = VaultOf(v.accounts, v.groups, v.tag)
    BY <1>1 DEF Vaults, VaultOf
<1> QED
    BY <1>1, <1>2, <1>3, ElementOfSeq, LenProperties

\* One account is put into a good vault, whose groups and tag may grow.
LEMMA GoodPut ==
    ASSUME NEW I, NEW v, GoodIn(v, I), NEW i, i \in 0 .. Len(v.accounts),
           NEW gs, gs \in Seq(GroupRecs), GroupIds(v.groups) \subseteq GroupIds(gs),
           NEW a, a \in Accounts(I), a.group = NoGroup \/ a.group \in GroupIds(gs), a.cached => v.tag
    PROVE  GoodIn(VaultOf(Put(v.accounts, i, a), gs, v.tag), I)
<1> DEFINE q == v.accounts
           r == Put(q, i, a)
           w == VaultOf(r, gs, v.tag)
<1>1. /\ q \in Seq(Accounts(I)) /\ v.tag \in BOOLEAN /\ \A j \in DOMAIN q : RefersTo(q[j], v)
    BY GoodInParts
<1>2. i \in 0 .. Len(q)
    OBVIOUS
<1> HIDE DEF q
<1>3. /\ r \in Seq(Accounts(I))
      /\ \A j \in DOMAIN r : r[j] = a \/ (j \in DOMAIN q /\ r[j] = q[j])
  <2> DEFINE A == Accounts(I)
  <2>1. q \in Seq(A) /\ a \in A
    BY <1>1
  <2> HIDE DEF A
  <2>2. /\ Put(q, i, a) \in Seq(A)
        /\ \A j \in DOMAIN Put(q, i, a) : Put(q, i, a)[j] = a \/ (j \in DOMAIN q /\ Put(q, i, a)[j] = q[j])
    BY <1>2, <2>1, PutFacts
  <2> QED
    BY <2>2 DEF A
<1> HIDE DEF r
<1>4. w.accounts = r /\ w.groups = gs /\ w.tag = v.tag /\ w \in Vaults(I)
    BY <1>1, <1>3 DEF VaultOf, Vaults
<1> HIDE DEF w
<1>5. \A j \in DOMAIN w.accounts : RefersTo(w.accounts[j], w)
    BY <1>1, <1>3, <1>4 DEF RefersTo
<1>6. GoodIn(w, I)
    BY <1>4, <1>5, ResolvesAs DEF GoodIn
<1> QED
    BY <1>6 DEF w, r, q

\* The reserved group is there once it was ensured.
LEMMA EnsureFacts ==
    ASSUME NEW gs, gs \in Seq(GroupRecs), NEW id, id \in GroupId, NEW name, name \in GroupName
    PROVE  /\ EnsureGroup(gs, id, name) \in Seq(GroupRecs)
           /\ GroupIds(gs) \subseteq GroupIds(EnsureGroup(gs, id, name))
           /\ Reserved(gs, id, name) \in GroupIds(EnsureGroup(gs, id, name))
           /\ Reserved(gs, id, name) \in GroupId
<1> DEFINE I == {k \in 1 .. Len(gs) : gs[k].id = id \/ gs[k].name = name}
           i == SelectInSeq(gs, LAMBDA g : g.id = id \/ g.name = name)
           e == Reserved(gs, id, name)
           g == [id |-> id, name |-> name]
<1>1. i = IF I # {} THEN Min(I) ELSE 0
    BY Zenon DEF SelectInSeq
<1>2. i \in 0 .. Len(gs) /\ (i # 0 => i \in I)
  <2>1. I \subseteq 1 .. Len(gs)
    OBVIOUS
  <2> HIDE DEF I
  <2> QED
    BY <1>1, <2>1, PlaceIn
<1>3. Len(gs) \in Nat /\ DOMAIN gs = 1 .. Len(gs) /\ \A k \in 1 .. Len(gs) : gs[k] \in GroupRecs
    BY LenProperties, ElementOfSeq
<1>4. e = IF i = 0 THEN id ELSE gs[i].id
    BY Zenon DEF Reserved
<1> HIDE DEF i
<1>5. i # 0 => i \in DOMAIN gs /\ gs[i].id \in GroupId
    BY <1>2, <1>3 DEF GroupRecs
<1> HIDE DEF I
<1>6. e \in GroupId /\ (e \in GroupIds(gs) \/ e = id)
    BY <1>4, <1>5 DEF GroupIds
<1>7. EnsureGroup(gs, id, name) = IF e \in GroupIds(gs) THEN gs ELSE Append(gs, g)
    BY Zenon DEF EnsureGroup, GroupIds
<1> HIDE DEF e
<1>8. CASE e \in GroupIds(gs)
    BY <1>6, <1>7, <1>8 DEF e
<1>9. CASE e \notin GroupIds(gs)
  <2>1. g \in GroupRecs /\ g.id = id
    BY DEF GroupRecs
  <2> HIDE DEF g
  <2>2. /\ Append(gs, g) \in Seq(GroupRecs) /\ DOMAIN Append(gs, g) = 1 .. Len(gs) + 1
        /\ Append(gs, g)[Len(gs) + 1] = g /\ \A k \in 1 .. Len(gs) : Append(gs, g)[k] = gs[k]
    BY <2>1, AppendProperties, LenProperties
  <2>3. EnsureGroup(gs, id, name) = Append(gs, g)
    BY <1>7, <1>9
  <2> DEFINE hs == Append(gs, g)
  <2>4. /\ hs \in Seq(GroupRecs) /\ (Len(gs) + 1) \in DOMAIN hs /\ hs[Len(gs) + 1].id = id
        /\ \A k \in DOMAIN gs : k \in DOMAIN hs /\ hs[k] = gs[k]
    BY <1>3, <2>1, <2>2
  <2> HIDE DEF hs
  <2>5. GroupIds(gs) \subseteq GroupIds(hs) /\ id \in GroupIds(hs)
    BY <2>4 DEF GroupIds
  <2> QED
    BY <1>6, <1>9, <2>3, <2>4, <2>5 DEF hs, e
<1> QED
    BY <1>8, <1>9

\* The reserved groups are groups.
LEMMA ReservedNames ==
    NFA \in GroupId /\ CACHED \in GroupId /\ "NFA" \in GroupName /\ "Cached" \in GroupName
BY DEF GroupId, GroupName

\* A Steam ID or none, a login or none.
AnySid == Sid \cup {NoSid}
AnyLogin == Login \cup {NoLogin}

\* A token changes neither the id nor the group nor the tag.
LEMMA TokenFacts ==
    ASSUME NEW I, NEW a, a \in Accounts(I), NEW sid, sid \in AnySid, NEW named, named \in AnyLogin
    PROVE  /\ WithToken(a, sid, named) \in Accounts(I) /\ WithToken(a, sid, named).id = a.id
           /\ WithToken(a, sid, named).group = a.group /\ WithToken(a, sid, named).cached = a.cached
BY DEF WithToken, Accounts, AnySid, AnyLogin

\* A token import changes the account it finds or appends the fresh one.
TakesToken(w, v, fresh, tokenSid, named, assign, I) ==
    \E i \in 0 .. Len(v.accounts), a \in Accounts(I), gs \in Seq(GroupRecs) :
        /\ w = VaultOf(Put(v.accounts, i, a), gs, v.tag)
        /\ i = FindExisting(v.accounts, SidOf(tokenSid, named), named)
        /\ GoodIn(VaultOf(Put(v.accounts, i, a), gs, v.tag), I)
        /\ i = 0 => a.id = fresh.id
        /\ i # 0 => a.id = v.accounts[i].id
        /\ ~assign => gs = v.groups

\* So does import_jwt_token.
LEMMA JwtFacts ==
    ASSUME NEW I, NEW v, GoodIn(v, I),
           NEW fresh, fresh \in Accounts(I), fresh.group = NoGroup, fresh.cached = FALSE,
           NEW tokenSid, tokenSid \in AnySid, NEW named, named \in AnyLogin,
           NEW assign, assign \in BOOLEAN
    PROVE  TakesToken(JwtImported(v, fresh, tokenSid, named, assign), v, fresh, tokenSid, named, assign, I)
<1> DEFINE sid == SidOf(tokenSid, named)
           i == FindExisting(v.accounts, sid, named)
           nfa == assign /\ (i = 0 \/ ~v.accounts[i].password)
           gs == IF nfa THEN EnsureGroup(v.groups, NFA, "NFA") ELSE v.groups
           b == IF i = 0 THEN fresh ELSE v.accounts[i]
           t == WithToken(b, sid, named)
           g == IF nfa THEN Reserved(v.groups, NFA, "NFA") ELSE t.group
           a == [t EXCEPT !.group = g]
<1>1. /\ v.accounts \in Seq(Accounts(I)) /\ v.groups \in Seq(GroupRecs) /\ v.tag \in BOOLEAN
      /\ v = VaultOf(v.accounts, v.groups, v.tag)
      /\ \A j \in DOMAIN v.accounts : RefersTo(v.accounts[j], v) /\ v.accounts[j] \in Accounts(I)
    BY GoodInParts
<1>2. i \in 0 .. Len(v.accounts) /\ sid \in Sid \cup {NoSid}
    BY <1>1, FoundIn, LocalIds DEF AnySid, AnyLogin
<1>4. JwtImported(v, fresh, tokenSid, named, assign) = VaultOf(Put(v.accounts, i, a), gs, v.tag)
    BY DEF JwtImported, Upsert, Put, VaultOf
<1> HIDE DEF i, sid
<1>5. /\ b \in Accounts(I) /\ (b.group = NoGroup \/ b.group \in GroupIds(v.groups)) /\ (b.cached => v.tag)
      /\ (i = 0 => b.id = fresh.id) /\ (i # 0 => b.id = v.accounts[i].id)
  <2>1. CASE i = 0
    BY <2>1
  <2>2. CASE i # 0
    <3>1. i \in DOMAIN v.accounts
        BY <1>1, <1>2, <2>2, LenProperties
    <3>2. RefersTo(v.accounts[i], v) /\ v.accounts[i] \in Accounts(I) /\ b = v.accounts[i]
        BY <1>1, <2>2, <3>1
    <3> HIDE DEF b
    <3> QED
        BY <2>2, <3>2 DEF RefersTo
  <2> QED
    BY <2>1, <2>2
<1> HIDE DEF b
<1> HIDE DEF gs, g, a, nfa
<1>6. t \in Accounts(I) /\ t.id = b.id /\ t.group = b.group /\ t.cached = b.cached
  <2>1. b \in Accounts(I)
    BY <1>5
  <2>2. sid \in AnySid /\ named \in AnyLogin
    BY <1>2 DEF AnySid, AnyLogin
  <2> QED
    BY <2>1, <2>2, TokenFacts
<1> HIDE DEF t
<1>7. /\ EnsureGroup(v.groups, NFA, "NFA") \in Seq(GroupRecs)
      /\ GroupIds(v.groups) \subseteq GroupIds(EnsureGroup(v.groups, NFA, "NFA"))
      /\ Reserved(v.groups, NFA, "NFA") \in GroupIds(EnsureGroup(v.groups, NFA, "NFA"))
      /\ Reserved(v.groups, NFA, "NFA") \in GroupId
    BY <1>1, EnsureFacts, ReservedNames
<1>8. nfa \in BOOLEAN /\ (~assign => ~nfa)
    BY DEF nfa
<1>9. /\ gs \in Seq(GroupRecs) /\ GroupIds(v.groups) \subseteq GroupIds(gs)
      /\ g \in GroupId \cup {NoGroup} /\ (g = NoGroup \/ g \in GroupIds(gs))
      /\ (~assign => gs = v.groups)
  <2>1. CASE nfa
    BY <1>7, <1>8, <2>1 DEF gs, g
  <2>2. CASE ~nfa
    <3>1. t.group \in GroupId \cup {NoGroup}
        BY <1>6 DEF Accounts
    <3> QED
        BY <1>1, <1>5, <1>6, <2>2, <3>1 DEF gs, g
  <2> QED
    BY <2>1, <2>2
<1>10. a \in Accounts(I) /\ a.id = t.id /\ a.group = g /\ a.cached = t.cached
    BY <1>6, <1>9 DEF Accounts, a
<1>11. GoodIn(VaultOf(Put(v.accounts, i, a), gs, v.tag), I)
    BY <1>2, <1>5, <1>6, <1>9, <1>10, GoodPut
<1>12. (i = 0 => a.id = fresh.id) /\ (i # 0 => a.id = v.accounts[i].id)
    BY <1>5, <1>6, <1>10
<1>13. i = FindExisting(v.accounts, SidOf(tokenSid, named), named)
    BY DEF i, sid
<1> QED
    BY <1>2, <1>4, <1>9, <1>10, <1>11, <1>12, <1>13, Zenon DEF TakesToken

\* A handler that stores a whole vault.
LEMMA StoreVaultSafe ==
    ASSUME MergeInv, NEW w, GoodIn(w, IdRange), StoreVault(w), candidates' \in Seq(Login),
           nextId + Len(w.accounts) - Len(vault.accounts) \in 1 .. MaxIds + 1
    PROVE  MergeInv'
<1>1. BundleOK /\ DialogOK
    BY MergeParts
<1>2. BundleOK' /\ DialogOK'
    BY <1>1 DEF StoreVault, BundleOK, DialogOK
<1>3. Good(vault') /\ nextId' \in 1 .. MaxIds + 1
    BY GoodIsIn DEF StoreVault
<1> QED
    BY <1>2, <1>3, MergePartsNext

\* What was put in is in.
Holds(q, a) == \E j \in DOMAIN q : q[j] = a

LEMMA PutHolds ==
    ASSUME NEW A, NEW q, q \in Seq(A), NEW i, i \in 0 .. Len(q), NEW a, a \in A
    PROVE  Holds(Put(q, i, a), a)
<1>1. Len(q) \in Nat /\ DOMAIN q = 1 .. Len(q)
    BY LenProperties
<1>2. CASE i = 0
  <2>1. /\ DOMAIN Append(q, a) = 1 .. Len(q) + 1 /\ Append(q, a)[Len(q) + 1] = a
    BY AppendProperties, LenProperties
  <2>2. Len(q) + 1 \in DOMAIN Append(q, a)
    BY <1>1, <2>1
  <2> QED
    BY <1>2, <2>1, <2>2, Zenon DEF Put, Holds
<1>3. CASE i # 0
  <2>1. i \in DOMAIN q
    BY <1>1, <1>3
  <2> QED
    BY <1>3, <2>1, PutFacts DEF Holds
<1> QED
    BY <1>2, <1>3

\* The blank account of an id.
LEMMA BlankIn ==
    ASSUME NEW I, NEW n, n \in I
    PROVE  /\ [Blank EXCEPT !.id = n] \in Accounts(I) /\ [Blank EXCEPT !.id = n].id = n
           /\ [Blank EXCEPT !.id = n].group = NoGroup /\ [Blank EXCEPT !.id = n].cached = FALSE
BY DEF Blank, Accounts

\* Whether it is appended or put in another's place, no id moves.
LEMMA PutGrows ==
    ASSUME NEW A, NEW q, q \in Seq(A), NEW i, i \in 0 .. Len(q), NEW a, a \in A,
           i # 0 => a.id = q[i].id
    PROVE  /\ Len(q) \in Nat /\ Len(Put(q, i, a)) \in {Len(q), Len(q) + 1}
           /\ KeepsIds(q, Put(q, i, a))
<1>1. Len(q) \in Nat /\ KeepsIds(q, Put(q, i, a))
    BY PutKeepsIds, LenProperties
<1>2. (i = 0 => Len(Put(q, i, a)) = Len(q) + 1) /\ (i # 0 => Len(Put(q, i, a)) = Len(q))
    BY PutFacts
<1> QED
    BY <1>1, <1>2

\* A pasted token.
LEMMA ImportJwtSafe ==
    ASSUME MergeInv, ImportJwt
    PROVE  MergeInv' /\ KeepsIds(vault.accounts, vault'.accounts)
<1>1. PICK sid \in AnySid, named \in AnyLogin, assign \in BOOLEAN :
        StoreVault(JwtImported(vault, Blank, sid, named, assign))
    BY DEF ImportJwt, AnySid, AnyLogin
<1>2. /\ GoodIn(vault, IdRange) /\ candidates' \in Seq(Login) /\ nextId \in IdRange
      /\ nextId \in 1 .. MaxIds /\ MaxIds \in Nat
    BY MergeParts, GoodIsIn, MergeAssumption DEF ImportJwt, IdRange
<1>3. Blank \in Accounts(IdRange) /\ Blank.group = NoGroup /\ Blank.cached = FALSE
    BY <1>2 DEF Blank, Accounts
<1> DEFINE w == JwtImported(vault, Blank, sid, named, assign)
<1>4. TakesToken(w, vault, Blank, sid, named, assign, IdRange)
    BY <1>2, <1>3, JwtFacts, Zenon
<1>5. StoreVault(w)
    BY <1>1
<1> HIDE DEF w
<1>6. PICK i \in 0 .. Len(vault.accounts), a \in Accounts(IdRange), gs \in Seq(GroupRecs) :
        /\ w = VaultOf(Put(vault.accounts, i, a), gs, vault.tag)
        /\ GoodIn(VaultOf(Put(vault.accounts, i, a), gs, vault.tag), IdRange)
        /\ i # 0 => a.id = vault.accounts[i].id
    BY <1>4, Zenon DEF TakesToken
<1> DEFINE q == vault.accounts
           r == Put(q, i, a)
<1>7. GoodIn(w, IdRange) /\ w.accounts = r
    BY <1>6 DEF VaultOf
<1>8. q \in Seq(Accounts(IdRange)) /\ i \in 0 .. Len(q) /\ (i # 0 => a.id = q[i].id)
    BY <1>2, <1>6, GoodInParts
<1> HIDE DEF q
<1>9. Len(q) \in Nat /\ Len(r) \in {Len(q), Len(q) + 1} /\ KeepsIds(q, r)
    BY <1>8, PutGrows, Zenon
<1> HIDE DEF r
<1>10. nextId + Len(w.accounts) - Len(vault.accounts) \in 1 .. MaxIds + 1
  <2>1. Len(w.accounts) = Len(r) /\ Len(vault.accounts) = Len(q)
    BY <1>7 DEF q
  <2>2. nextId + Len(r) - Len(q) \in 1 .. MaxIds + 1
    BY <1>2, <1>9
  <2> QED
    BY <2>1, <2>2
<1>11. MergeInv'
    BY <1>2, <1>5, <1>7, <1>10, StoreVaultSafe
<1>12. vault'.accounts = r
    BY <1>5, <1>7 DEF StoreVault
<1> QED
    BY <1>9, <1>11, <1>12 DEF q

\* An id that some account has is found.
HasId(q, id) == \E j \in DOMAIN q : q[j].id = id
\* Where the account of an id is.
PlaceOf(q, id) == SelectInSeq(q, LAMBDA a : a.id = id)

LEMMA IdFound ==
    ASSUME NEW A, NEW q, q \in Seq(A), NEW id, HasId(q, id)
    PROVE  PlaceOf(q, id) \in 1 .. Len(q)
<1> DEFINE I == {i \in 1 .. Len(q) : q[i].id = id}
<1>1. PlaceOf(q, id) = IF I # {} THEN Min(I) ELSE 0
    BY Zenon DEF PlaceOf, SelectInSeq
<1>2. I \subseteq 1 .. Len(q) /\ I # {} /\ Len(q) \in Nat
    BY LenProperties DEF HasId
<1> HIDE DEF I
<1>3. Min(I) \in I
    BY <1>2, FirstOf, Zenon
<1> QED
    BY <1>1, <1>2, <1>3

\* The group that stands for "Cached" when the import starts.
CachedGroup == Reserved(vault.groups, CACHED, "Cached")

LEMMA TaggedIs ==
    ASSUME NEW I, NEW a, a \in Accounts(I), CachedGroup \in GroupId
    PROVE  Tagged(a) \in Accounts(I) /\ Tagged(a).id = a.id /\ Tagged(a).group = CachedGroup
BY DEF Tagged, Accounts, CachedGroup

\* The k-th account moved to the Cached group.
TaggedAt(w, k) == [w EXCEPT !.accounts[k] = Tagged(@)]

LEMMA EditedVault ==
    ASSUME NEW r, NEW gs, NEW t, NEW k
    PROVE  TaggedAt(VaultOf(r, gs, t), k) = VaultOf([r EXCEPT ![k] = Tagged(r[k])], gs, t)
BY DEF VaultOf, TaggedAt

\* Replacing keeps the length.
LEMMA PutInPlace ==
    ASSUME NEW A, NEW q, q \in Seq(A), NEW i, i \in 0 .. Len(q), NEW a, a \in A, i # 0
    PROVE  Len(Put(q, i, a)) = Len(q)
BY PutFacts

\* Ids that stay over two steps stay.
LEMMA KeepsIdsOn ==
    ASSUME NEW p, NEW q, NEW r, KeepsIds(p, q), KeepsIds(q, r)
    PROVE  KeepsIds(p, r)
BY DEF KeepsIds

\* One candidate imported into a good vault that has the Cached group and tag.
CanCache(v) == v.tag = TRUE /\ CachedGroup \in GroupIds(v.groups) /\ CachedGroup \in GroupId
\* The id of the next new account.
IdFor(v) == nextId + Len(v.accounts) - Len(vault.accounts)

\* A candidate taken: the vault stays good, no id moves, at most one is used.
LEMMA TakeFacts ==
    ASSUME NEW I, NEW v, GoodIn(v, I), CanCache(v), IdFor(v) \in I, NEW l, l \in Login
    PROVE  /\ GoodIn(TakeCandidate(v, l), I) /\ CanCache(TakeCandidate(v, l))
           /\ KeepsIds(v.accounts, TakeCandidate(v, l).accounts)
           /\ Len(TakeCandidate(v, l).accounts) \in {Len(v.accounts), Len(v.accounts) + 1}
<1> DEFINE fresh == [Blank EXCEPT !.id = nextId + Len(v.accounts) - Len(vault.accounts)]
           i == FindExisting(v.accounts, LocalSid[l], l)
           id == IF i = 0 THEN fresh.id ELSE v.accounts[i].id
           w == JwtImported(v, fresh, LocalSid[l], l, FALSE)
           k == SelectInSeq(w.accounts, LAMBDA a : a.id = id)
<1>1. TakeCandidate(v, l) = [w EXCEPT !.accounts[k] = Tagged(@)]
    BY DEF TakeCandidate
<1>2. fresh \in Accounts(I) /\ fresh.group = NoGroup /\ fresh.cached = FALSE
    BY BlankIn DEF IdFor
<1>3. LocalSid[l] \in AnySid /\ l \in AnyLogin /\ FALSE \in BOOLEAN
    BY MergeAssumption DEF AnySid, AnyLogin
<1> HIDE DEF fresh
<1>4. TakesToken(w, v, fresh, LocalSid[l], l, FALSE, I)
    BY <1>2, <1>3, JwtFacts, Zenon
<1>5. SidOf(LocalSid[l], l) = LocalSid[l]
    BY DEF SidOf
<1> HIDE DEF w
<1>6. PICK m \in 0 .. Len(v.accounts), a \in Accounts(I), gs \in Seq(GroupRecs) :
        /\ w = VaultOf(Put(v.accounts, m, a), gs, v.tag)
        /\ m = FindExisting(v.accounts, SidOf(LocalSid[l], l), l)
        /\ GoodIn(VaultOf(Put(v.accounts, m, a), gs, v.tag), I)
        /\ m = 0 => a.id = fresh.id
        /\ m # 0 => a.id = v.accounts[m].id
        /\ ~FALSE => gs = v.groups
    BY <1>4, Zenon DEF TakesToken
<1>7. a.id = id
  <2>1. m = i
    BY <1>5, <1>6
  <2>2. CASE i = 0
    BY <1>6, <2>1, <2>2
  <2>3. CASE i # 0
    BY <1>6, <2>1, <2>3
  <2> QED
    BY <2>2, <2>3
<1> DEFINE q == v.accounts
           r == Put(q, m, a)
           A == Accounts(I)
<1>8. w.accounts = r /\ w.groups = v.groups /\ w.tag = v.tag /\ w = VaultOf(r, v.groups, v.tag)
    BY <1>6 DEF VaultOf
<1>9. GoodIn(w, I)
    BY <1>6
<1>10. q \in Seq(A) /\ m \in 0 .. Len(q) /\ a \in A /\ (m # 0 => a.id = q[m].id)
    BY <1>6, GoodInParts
<1>11. w.accounts \in Seq(A) /\ \A j \in DOMAIN w.accounts : w.accounts[j] \in A
    BY <1>9, GoodInParts
<1> HIDE DEF q, A, i, id
<1>12. Len(q) \in Nat /\ Len(r) \in {Len(q), Len(q) + 1} /\ KeepsIds(q, r)
    BY <1>10, PutGrows, Zenon
<1>13. Holds(r, a)
    BY <1>10, PutHolds, Zenon
<1> HIDE DEF r
<1>14. k \in 1 .. Len(r)
  <2>1. r \in Seq(A) /\ HasId(r, id)
    BY <1>7, <1>8, <1>11, <1>13 DEF Holds, HasId
  <2>2. PlaceOf(r, id) \in 1 .. Len(r)
    BY <2>1, IdFound, Zenon
  <2>3. k = PlaceOf(w.accounts, id)
    BY Zenon DEF PlaceOf
  <2> QED
    BY <1>8, <2>2, <2>3
<1> HIDE DEF k
<1> DEFINE c == Tagged(r[k])
<1>15. c \in A /\ c.id = r[k].id /\ c.group = CachedGroup
  <2>1. r[k] \in Accounts(I) /\ CachedGroup \in GroupId
    BY <1>8, <1>11, <1>14, LenProperties DEF A, CanCache
  <2> QED
    BY <2>1, TaggedIs DEF A
<1>16. TakeCandidate(v, l) = VaultOf([r EXCEPT ![k] = c], v.groups, v.tag)
  <2>1. w = VaultOf(r, v.groups, v.tag)
    BY <1>8
  <2>2. TakeCandidate(v, l) = TaggedAt(VaultOf(r, v.groups, v.tag), k)
    BY <1>1, <2>1, Zenon DEF TaggedAt
  <2> QED
    BY <2>2, EditedVault
<1> HIDE DEF c
<1>17. k # 0 /\ k \in 0 .. Len(r) /\ [r EXCEPT ![k] = c] = Put(r, k, c)
    BY <1>12, <1>14 DEF Put
<1>18. r \in Seq(A)
    BY <1>8, <1>11
<1>19. Len(Put(r, k, c)) = Len(r) /\ KeepsIds(r, Put(r, k, c))
  <2>1. r \in Seq(A) /\ k \in 0 .. Len(r) /\ c \in A /\ k # 0 /\ c.id = r[k].id
    BY <1>15, <1>17, <1>18
  <2>2. KeepsIds(r, Put(r, k, c))
    BY <2>1, PutGrows, Zenon
  <2>3. Len(Put(r, k, c)) = Len(r)
    BY <2>1, PutInPlace
  <2> QED
    BY <2>2, <2>3
<1> DEFINE z == TakeCandidate(v, l)
<1>20. z = VaultOf(Put(w.accounts, k, c), w.groups, w.tag)
    BY <1>8, <1>16, <1>17
<1>21. GoodIn(VaultOf(Put(w.accounts, k, c), w.groups, w.tag), I)
  <2>1. /\ k \in 0 .. Len(w.accounts) /\ w.groups \in Seq(GroupRecs)
        /\ GroupIds(w.groups) \subseteq GroupIds(w.groups)
        /\ c \in Accounts(I) /\ c.group \in GroupIds(w.groups) /\ w.tag = TRUE
    BY <1>8, <1>9, <1>15, <1>17, GoodInParts DEF A, CanCache
  <2> QED
    BY <1>9, <2>1, GoodPut
<1>22. z.accounts = Put(r, k, c) /\ z.groups = v.groups /\ z.tag = v.tag
    BY <1>8, <1>20 DEF VaultOf
<1> HIDE DEF z
<1>23. GoodIn(z, I) /\ CanCache(z)
    BY <1>20, <1>21, <1>22 DEF CanCache
<1>24. KeepsIds(v.accounts, z.accounts)
    BY <1>12, <1>19, <1>22, KeepsIdsOn DEF q
<1>25. Len(z.accounts) \in {Len(v.accounts), Len(v.accounts) + 1}
    BY <1>12, <1>19, <1>22 DEF q
<1> QED
    BY <1>23, <1>24, <1>25 DEF z
\* Candidates are taken one after another.
TakesAlong(c, p) ==
    \A k \in 1 .. Len(p) : c[1 .. k] = TakeCandidate(c[1 .. k - 1], p[k])

\* The fold of TakeCandidate, prefix by prefix.
LEMMA TakesTrace ==
    ASSUME MergeInv, NEW p, p \in Seq(Login), NEW start, GoodIn(start, Int), CanCache(start)
    PROVE  \E c : /\ c[{}] = start /\ FoldLeft(TakeCandidate, start, p) = c[DOMAIN p]
                  /\ TakesAlong(c, p)
<1> DEFINE S == {v \in Vaults(Int) : Resolves(v) /\ CanCache(v)}
           Eq(it) == it = [s \in SUBSET DOMAIN p |->
                        IF s = {} THEN start ELSE TakeCandidate(it[s \ {Max(s)}], p[Max(s)])]
           c == CHOOSE it : Eq(it)
           T == [x \in S \X DOMAIN p |-> TakeCandidate(x[1], p[x[2]])]
<1>1. ASSUME NEW v \in S, NEW l \in Login PROVE TakeCandidate(v, l) \in S
  <2>1. GoodIn(v, Int) /\ CanCache(v)
    BY DEF GoodIn
  <2>2. IdFor(v) \in Int
    <3>1. nextId \in Int /\ Len(vault.accounts) \in Nat
        BY MergeParts, VaultIs, LenProperties
    <3>2. Len(v.accounts) \in Nat
        BY <2>1, GoodInParts, LenProperties
    <3> QED
        BY <3>1, <3>2 DEF IdFor
  <2>3. GoodIn(TakeCandidate(v, l), Int) /\ CanCache(TakeCandidate(v, l))
    BY <2>1, <2>2, TakeFacts, Zenon
  <2> QED
    BY <2>3, Zenon DEF GoodIn
<1>2. start \in S /\ \A j \in DOMAIN p : p[j] \in Login
    BY ElementOfSeq, LenProperties DEF GoodIn
<1> HIDE DEF S
<1>3. T \in [S \X DOMAIN p -> S]
    BY <1>1, <1>2
<1>4. PICK it \in [SUBSET DOMAIN p -> S] : \A s \in SUBSET DOMAIN p :
          it[s] = IF s = {} THEN start ELSE T[<<it[s \ {Max(s)}], Max(s)>>]
  <2> HIDE DEF T
  <2>1. \E it \in [SUBSET DOMAIN p -> S] : SolvesOn(it, DOMAIN p, start, T)
    BY <1>2, <1>3, FoldSolvedOn, Zenon
  <2> QED
    BY <2>1 DEF SolvesOn
<1>5. \A s \in SUBSET DOMAIN p : s # {} => Max(s) \in DOMAIN p
    BY LastOf, LenProperties
<1>6. Eq(it)
  <2>1. ASSUME NEW s \in SUBSET DOMAIN p, s # {}
        PROVE  it[s] = TakeCandidate(it[s \ {Max(s)}], p[Max(s)])
    BY <1>4, <1>5, <2>1
  <2> QED
    BY <1>4, <2>1
<1>7. Eq(c)
  <2> HIDE DEF Eq
  <2> QED
    BY <1>6, Zenon
<1>8. FoldLeft(TakeCandidate, start, p) = c[DOMAIN p]
    BY Zenon DEF FoldLeft, MapThenFoldSet
<1>9. ASSUME NEW k \in 1 .. Len(p) PROVE c[1 .. k] = TakeCandidate(c[1 .. k - 1], p[k])
  <2> HIDE DEF c
  <2>1. c[1 .. k] = TakeCandidate(c[(1 .. k) \ {Max(1 .. k)}], p[Max(1 .. k)])
    BY <1>7, PositionsUpTo
  <2>2. Max(1 .. k) = k /\ (1 .. k) \ {k} = 1 .. k - 1
    BY PositionsUpTo
  <2> QED
    BY <2>1, <2>2, Zenon
<1>10. c[{}] = start
  <2> HIDE DEF c
  <2> QED
    BY <1>7
<1> HIDE DEF c
<1> QED
    BY <1>8, <1>9, <1>10 DEF TakesAlong

\* All of them taken: at most one id each, and no id moves.
LEMMA AllTaken ==
    ASSUME MergeInv, NEW p, p \in Seq(Login), NEW start, GoodIn(start, IdRange), CanCache(start),
           start.accounts = vault.accounts, nextId + Len(p) - 1 <= MaxIds
    PROVE  /\ GoodIn(FoldLeft(TakeCandidate, start, p), IdRange)
           /\ KeepsIds(vault.accounts, FoldLeft(TakeCandidate, start, p).accounts)
           /\ nextId + Len(FoldLeft(TakeCandidate, start, p).accounts) - Len(vault.accounts)
                 \in 1 .. MaxIds + 1
<1>1. nextId \in 1 .. MaxIds + 1 /\ MaxIds \in Nat /\ Len(vault.accounts) \in Nat
    BY MergeParts, MergeAssumption, VaultIs, LenProperties
<1>2. GoodIn(start, Int)
  <2>1. Accounts(IdRange) \subseteq Accounts(Int)
    BY DEF Accounts, IdRange
  <2>2. start.accounts \in Seq(Accounts(IdRange))
    BY GoodInParts
  <2>3. start.accounts \in Seq(Accounts(Int))
    BY <2>1, <2>2
  <2>4. start \in Vaults(Int)
    BY <2>3 DEF GoodIn, Vaults
  <2> QED
    BY <2>4 DEF GoodIn
<1>3. PICK c : /\ c[{}] = start /\ FoldLeft(TakeCandidate, start, p) = c[DOMAIN p]
               /\ TakesAlong(c, p)
    BY <1>2, TakesTrace, Zenon
<1> DEFINE n == Len(vault.accounts)
           OK(k, v) == /\ GoodIn(v, IdRange) /\ CanCache(v) /\ KeepsIds(vault.accounts, v.accounts)
                       /\ Len(v.accounts) \in n .. n + k
           Q == {k \in 0 .. Len(p) : OK(k, c[1 .. k])}
<1>4. Len(p) \in Nat /\ DOMAIN p = 1 .. Len(p) /\ \A k \in 1 .. Len(p) : p[k] \in Login
    BY LenProperties, ElementOfSeq
<1>5. 0 \in Q
  <2>1. OK(0, start)
    BY <1>1, SameIds
  <2>2. 1 .. 0 = {}
    OBVIOUS
  <2> HIDE DEF OK
  <2> QED
    BY <1>3, <1>4, <2>1, <2>2
<1>6. ASSUME NEW k \in 1 .. Len(p), k - 1 \in Q PROVE k \in Q
  <2> DEFINE v == c[1 .. k - 1]
             w == c[1 .. k]
             l == p[k]
  <2>1. OK(k - 1, v) /\ l \in Login /\ k \in Nat
    BY <1>4, <1>6
  <2>2. w = TakeCandidate(v, l)
    BY <1>3, Zenon DEF TakesAlong
  <2> HIDE DEF v, w, l
  <2>3. IdFor(v) \in IdRange
    BY <1>1, <1>4, <2>1 DEF IdFor, IdRange
  <2>4. /\ GoodIn(w, IdRange) /\ CanCache(w) /\ KeepsIds(v.accounts, w.accounts)
        /\ Len(w.accounts) \in {Len(v.accounts), Len(v.accounts) + 1}
    BY <2>1, <2>2, <2>3, TakeFacts
  <2>5. KeepsIds(vault.accounts, w.accounts)
    BY <2>1, <2>4, KeepsIdsOn
  <2>6. Len(w.accounts) \in n .. n + k
    BY <1>1, <2>1, <2>4
  <2>7. OK(k, w)
    BY <2>4, <2>5, <2>6
  <2> HIDE DEF OK
  <2> QED
    BY <2>7, <1>4 DEF w
<1>7. Len(p) \in Q
  <2> HIDE DEF Q
  <2>1. 0 .. Len(p) \subseteq Q
    BY <1>4, <1>5, <1>6, UpTo, Zenon
  <2> QED
    BY <2>1, <1>4
<1> DEFINE done == FoldLeft(TakeCandidate, start, p)
<1>8. OK(Len(p), done)
  <2> HIDE DEF OK, done
  <2> QED
    BY <1>3, <1>4, <1>7 DEF done
<1> HIDE DEF done
<1>9. nextId + Len(done.accounts) - n \in 1 .. MaxIds + 1
  <2> DEFINE m == Len(done.accounts)
             k == Len(p)
  <2>1. n \in Nat /\ k \in Nat /\ m \in n .. n + k /\ nextId + k - 1 <= MaxIds
    BY <1>1, <1>4, <1>8
  <2> HIDE DEF m, k, n
  <2>2. nextId + m - n \in 1 .. MaxIds + 1
    BY <1>1, <2>1
  <2> QED
    BY <2>2 DEF m
<1> QED
    BY <1>8, <1>9 DEF done

\* "Import selected".
LEMMA ImportCachedSafe ==
    ASSUME MergeInv, ImportCached
    PROVE  MergeInv' /\ KeepsIds(vault.accounts, vault'.accounts)
<1> DEFINE start == [accounts |-> vault.accounts, tag |-> TRUE,
                     groups |-> EnsureGroup(vault.groups, CACHED, "Cached")]
<1>1. PICK S : /\ StoreVault(FoldLeft(TakeCandidate, start, Picked(candidates, S)))
               /\ candidates' = Listed(FoldLeft(TakeCandidate, start, Picked(candidates, S)))
    BY DEF ImportCached
<1> DEFINE p == Picked(candidates, S)
           done == FoldLeft(TakeCandidate, start, p)
<1>2. nextId + Len(candidates) - 1 <= MaxIds /\ candidates \in Seq(Login)
      /\ nextId \in Nat /\ MaxIds \in Nat
    BY MergeParts, MergeAssumption DEF ImportCached
<1>3. p \in Seq(Login) /\ Len(p) <= Len(candidates)
    BY <1>2, PickedFacts
<1> HIDE DEF p
<1>4. nextId + Len(p) - 1 <= MaxIds
    BY <1>2, <1>3, LenProperties
<1>5. start.accounts = vault.accounts /\ GoodIn(start, IdRange) /\ CanCache(start)
  <2>1. /\ vault.groups \in Seq(GroupRecs) /\ vault.accounts \in Seq(Account)
        /\ \A j \in DOMAIN vault.accounts :
              vault.accounts[j].group = NoGroup \/ vault.accounts[j].group \in GroupIds(vault.groups)
    BY VaultIs
  <2> DEFINE gs == EnsureGroup(vault.groups, CACHED, "Cached")
  <2>2. /\ gs \in Seq(GroupRecs) /\ GroupIds(vault.groups) \subseteq GroupIds(gs)
        /\ CachedGroup \in GroupIds(gs) /\ CachedGroup \in GroupId
    BY <2>1, EnsureFacts, ReservedNames DEF CachedGroup
  <2> HIDE DEF gs
  <2>3. start = VaultOf(vault.accounts, gs, TRUE)
    BY DEF VaultOf, gs
  <2>4. Good(VaultOf(vault.accounts, gs, TRUE))
    BY <2>1, <2>2, GoodVaultOf
  <2>5. start.accounts = vault.accounts /\ start.groups = gs /\ start.tag = TRUE
    BY <2>3 DEF VaultOf
  <2> HIDE DEF start
  <2> QED
    BY <2>2, <2>3, <2>4, <2>5, GoodIsIn DEF CanCache
<1> HIDE DEF start
<1>6. /\ GoodIn(done, IdRange) /\ KeepsIds(vault.accounts, done.accounts)
      /\ nextId + Len(done.accounts) - Len(vault.accounts) \in 1 .. MaxIds + 1
    BY <1>3, <1>4, <1>5, AllTaken, Zenon
<1>7. StoreVault(done) /\ candidates' = Listed(done)
    BY <1>1 DEF p
<1> HIDE DEF done
<1>8. MergeInv'
    BY <1>6, <1>7, ListedIs, StoreVaultSafe
<1>9. vault'.accounts = done.accounts
    BY <1>7 DEF StoreVault
<1> QED
    BY <1>6, <1>8, <1>9
-------------------------------------------------------------------------------
(* The merge of a bundle. *)

\* What a merge under way has: accounts and counts.
Accs == [accounts : Seq(Account), added : Nat, overwritten : Nat]

\* The account refers to these groups and this tag.
Refers(a, gs, t) == (a.group = NoGroup \/ a.group \in GroupIds(gs)) /\ (a.cached => t)

\* A merge under way: every account refers to what the merged vault will have,
\* and no id of q has moved.
Merging(q, gs, t) ==
    {acc \in Accs : /\ KeepsIds(q, acc.accounts)
                    /\ \A j \in DOMAIN acc.accounts : Refers(acc.accounts[j], gs, t)}

\* A merge step that found the account at i, or 0.
CountedIn(acc, r, i) ==
    [accounts |-> r, added |-> IF i = 0 THEN acc.added + 1 ELSE acc.added,
     overwritten |-> IF i = 0 THEN acc.overwritten ELSE acc.overwritten + 1]

LEMMA CountedIs ==
    ASSUME NEW acc, acc \in Accs, NEW r, r \in Seq(Account), NEW i
    PROVE  CountedIn(acc, r, i) \in Accs /\ CountedIn(acc, r, i).accounts = r
BY DEF Accs, CountedIn

\* An overwritten account keeps its id and takes the group and tag of the other.
LEMMA OverwriteIs ==
    ASSUME NEW old, old \in Account, NEW a, a \in Account
    PROVE  /\ Overwrite(old, a) \in Account /\ Overwrite(old, a).id = old.id
           /\ Overwrite(old, a).group = a.group /\ Overwrite(old, a).cached = a.cached
BY DEF Overwrite, Account

\* Where the account that same_account calls the same is.
MatchOf(q, x) == SelectInSeq(q, LAMBDA a : SameAccount(a, x))

LEMMA MatchIn ==
    ASSUME NEW A, NEW q, q \in Seq(A), NEW x
    PROVE  MatchOf(q, x) \in 0 .. Len(q)
<1> DEFINE I == {i \in 1 .. Len(q) : SameAccount(q[i], x)}
<1>1. MatchOf(q, x) = IF I # {} THEN Min(I) ELSE 0
    BY Zenon DEF MatchOf, SelectInSeq
<1>2. I \subseteq 1 .. Len(q)
    OBVIOUS
<1> HIDE DEF I
<1> QED
    BY <1>1, <1>2, PlaceIn

\* Merging one account.
LEMMA MergeStep ==
    ASSUME NEW q, NEW gs, NEW t, NEW acc, acc \in Merging(q, gs, t),
           NEW incoming, incoming \in Account, Refers(incoming, gs, t)
    PROVE  MergeAccount(acc, incoming) \in Merging(q, gs, t)
<1> DEFINE p == acc.accounts
           i == SelectInSeq(p, LAMBDA a : SameAccount(a, incoming))
           old == IF i = 0 THEN incoming ELSE p[i]
           a == Overwrite(old, incoming)
           r == Put(p, i, a)
<1>1. /\ acc \in Accs /\ p \in Seq(Account) /\ KeepsIds(q, p)
      /\ \A j \in DOMAIN p : Refers(p[j], gs, t)
    BY DEF Merging, Accs
<1>2. i \in 0 .. Len(p)
  <2>1. i = MatchOf(p, incoming)
    BY Zenon DEF MatchOf
  <2> HIDE DEF i, p
  <2> QED
    BY <1>1, <2>1, MatchIn
<1>3. MergeAccount(acc, incoming) = CountedIn(acc, r, i)
    BY DEF MergeAccount, Upsert, Put, CountedIn
<1> HIDE DEF i, p
<1>4. old \in Account /\ (i # 0 => old = p[i])
  <2>1. CASE i = 0
    BY <2>1
  <2>2. CASE i # 0
    BY <1>1, <1>2, <2>2, ElementOfSeq
  <2> QED
    BY <2>1, <2>2
<1> HIDE DEF old
<1>5. /\ a \in Account /\ a.id = old.id /\ a.group = incoming.group /\ a.cached = incoming.cached
    BY <1>4, OverwriteIs
<1> HIDE DEF a
<1>6. i # 0 => a.id = p[i].id
    BY <1>4, <1>5
<1>7. KeepsIds(p, r)
    BY <1>1, <1>2, <1>5, <1>6, PutGrows
<1>8. r \in Seq(Account) /\ \A j \in DOMAIN r : r[j] = a \/ (j \in DOMAIN p /\ r[j] = p[j])
    BY <1>1, <1>2, <1>5, PutFacts
<1> HIDE DEF r
<1>9. Refers(a, gs, t)
    BY <1>5 DEF Refers
<1>10. KeepsIds(q, r) /\ \A j \in DOMAIN r : Refers(r[j], gs, t)
  <2>1. KeepsIds(q, r)
    BY <1>1, <1>7, KeepsIdsOn
  <2> QED
    BY <2>1, <1>1, <1>8, <1>9
<1> DEFINE z == CountedIn(acc, r, i)
<1>11. z \in Accs /\ z.accounts = r
    BY <1>1, <1>8, CountedIs
<1> HIDE DEF z
<1>12. z \in Merging(q, gs, t)
    BY <1>10, <1>11 DEF Merging
<1> QED
    BY <1>3, <1>12 DEF z

\* The bundle's accounts merged one after another.
LEMMA MergeFold ==
    ASSUME NEW q, q \in Seq(Account), NEW gs, NEW t, NEW b, b \in Merging(q, gs, t),
           NEW p, p \in Seq(Account), \A j \in DOMAIN p : Refers(p[j], gs, t)
    PROVE  FoldLeft(MergeAccount, b, p) \in Merging(q, gs, t)
<1> DEFINE S == Merging(q, gs, t)
           Eq(it) == it = [s \in SUBSET DOMAIN p |->
                        IF s = {} THEN b ELSE MergeAccount(it[s \ {Max(s)}], p[Max(s)])]
           c == CHOOSE it : Eq(it)
           T == [x \in S \X DOMAIN p |-> MergeAccount(x[1], p[x[2]])]
<1>1. /\ Len(p) \in Nat /\ DOMAIN p = 1 .. Len(p) /\ \A j \in DOMAIN p : p[j] \in Account
      /\ b \in S
    BY ElementOfSeq, LenProperties
<1>2. ASSUME NEW acc \in S, NEW j \in DOMAIN p PROVE MergeAccount(acc, p[j]) \in S
    BY <1>1, MergeStep
<1> HIDE DEF S
<1>3. T \in [S \X DOMAIN p -> S]
    BY <1>2
<1>4. PICK it \in [SUBSET DOMAIN p -> S] : \A s \in SUBSET DOMAIN p :
          it[s] = IF s = {} THEN b ELSE T[<<it[s \ {Max(s)}], Max(s)>>]
  <2> HIDE DEF T
  <2>1. \E it \in [SUBSET DOMAIN p -> S] : SolvesOn(it, DOMAIN p, b, T)
    BY <1>1, <1>3, FoldSolvedOn, Zenon
  <2> QED
    BY <2>1 DEF SolvesOn
<1>5. \A s \in SUBSET DOMAIN p : s # {} => Max(s) \in DOMAIN p
    BY LastOf, LenProperties
<1>6. Eq(it)
  <2>1. ASSUME NEW s \in SUBSET DOMAIN p, s # {}
        PROVE  it[s] = MergeAccount(it[s \ {Max(s)}], p[Max(s)])
    BY <1>4, <1>5, <2>1
  <2> QED
    BY <1>4, <2>1
<1>7. Eq(c)
  <2> HIDE DEF Eq
  <2> QED
    BY <1>6, Zenon
<1>8. FoldLeft(MergeAccount, b, p) = c[DOMAIN p]
    BY Zenon DEF FoldLeft, MapThenFoldSet
<1>9. ASSUME NEW k \in 1 .. Len(p) PROVE c[1 .. k] = MergeAccount(c[1 .. k - 1], p[k])
  <2> HIDE DEF c
  <2>1. c[1 .. k] = MergeAccount(c[(1 .. k) \ {Max(1 .. k)}], p[Max(1 .. k)])
    BY <1>7, PositionsUpTo
  <2>2. Max(1 .. k) = k /\ (1 .. k) \ {k} = 1 .. k - 1
    BY PositionsUpTo
  <2> QED
    BY <2>1, <2>2, Zenon
<1>10. c[{}] = b
  <2> HIDE DEF c
  <2> QED
    BY <1>7
<1> HIDE DEF c
<1> DEFINE Q == {k \in 0 .. Len(p) : c[1 .. k] \in S}
<1>11. 0 \in Q
  <2>1. 1 .. 0 = {}
    OBVIOUS
  <2> QED
    BY <1>1, <1>10, <2>1
<1>12. ASSUME NEW k \in 1 .. Len(p), k - 1 \in Q PROVE k \in Q
    BY <1>1, <1>2, <1>9, <1>12
<1>13. Len(p) \in Q
  <2> HIDE DEF Q
  <2>1. 0 .. Len(p) \subseteq Q
    BY <1>1, <1>11, <1>12, UpTo, Zenon
  <2> QED
    BY <2>1, <1>1
<1> QED
    BY <1>1, <1>8, <1>13 DEF S

\* The groups of a merged vault: its own, and the bundle's that it did not have.
LEMMA MergedGroups ==
    ASSUME NEW gs, gs \in Seq(GroupRecs), NEW hs, hs \in Seq(GroupRecs),
           NEW p, p \in Seq(GroupRecs),
           \A k \in DOMAIN hs : hs[k].id \notin GroupIds(gs) => \E i \in DOMAIN p : p[i] = hs[k]
    PROVE  /\ gs \o p \in Seq(GroupRecs)
           /\ GroupIds(gs) \subseteq GroupIds(gs \o p)
           /\ GroupIds(hs) \subseteq GroupIds(gs \o p)
<1> DEFINE z == gs \o p
<1>2. /\ z \in Seq(GroupRecs) /\ Len(z) = Len(gs) + Len(p)
      /\ \A i \in 1 .. Len(gs) + Len(p) : z[i] = IF i <= Len(gs) THEN gs[i] ELSE p[i - Len(gs)]
    BY ConcatProperties
<1>3. /\ Len(gs) \in Nat /\ Len(p) \in Nat /\ DOMAIN gs = 1 .. Len(gs) /\ DOMAIN p = 1 .. Len(p)
      /\ DOMAIN z = 1 .. Len(gs) + Len(p)
    BY <1>2, LenProperties
<1> HIDE DEF z
<1>4. ASSUME NEW i \in DOMAIN gs PROVE gs[i].id \in GroupIds(z)
  <2>1. i \in DOMAIN z /\ z[i] = gs[i]
    BY <1>2, <1>3
  <2> QED
    BY <2>1 DEF GroupIds
<1>5. ASSUME NEW i \in DOMAIN p PROVE p[i].id \in GroupIds(z)
  <2>1. Len(gs) + i \in DOMAIN z /\ z[Len(gs) + i] = p[i]
    BY <1>2, <1>3
  <2> QED
    BY <2>1 DEF GroupIds
<1>6. ASSUME NEW k \in DOMAIN hs PROVE hs[k].id \in GroupIds(z)
  <2>1. CASE hs[k].id \in GroupIds(gs)
    BY <1>4, <2>1 DEF GroupIds
  <2>2. CASE hs[k].id \notin GroupIds(gs)
    BY <1>5, <2>2
  <2> QED
    BY <2>1, <2>2
<1> QED
  <2>1. GroupIds(gs) \subseteq GroupIds(z) /\ GroupIds(hs) \subseteq GroupIds(z)
    BY <1>4, <1>6 DEF GroupIds
  <2> QED
    BY <1>2, <2>1 DEF z

\* The merge of two good vaults is one, and no id of the first moves.
LEMMA MergeGood ==
    ASSUME NEW dst, Good(dst), NEW imported, Good(imported)
    PROVE  /\ Good(MergedVault(MergeInto(dst, imported)))
           /\ KeepsIds(dst.accounts, MergedVault(MergeInto(dst, imported)).accounts)
<1> DEFINE sought == {dst.groups[i].id : i \in DOMAIN dst.groups}
           P == {g \in Range(imported.groups) : g.id \notin sought}
           more == Picked(imported.groups, P)
           gs == dst.groups \o more
           t == dst.tag \/ imported.tag
           q == dst.accounts
           p == imported.accounts
           b == [accounts |-> q, added |-> 0, overwritten |-> 0]
           m == FoldLeft(MergeAccount, b, p)
<1>1. MergedVault(MergeInto(dst, imported)) = VaultOf(m.accounts, gs, t)
    BY DEF MergedVault, MergeInto, VaultOf
<1>2. /\ q \in Seq(Account) /\ dst.groups \in Seq(GroupRecs) /\ dst.tag \in BOOLEAN
      /\ \A j \in DOMAIN q : RefersTo(q[j], dst)
    BY GoodParts
<1>3. /\ p \in Seq(Account) /\ imported.groups \in Seq(GroupRecs) /\ imported.tag \in BOOLEAN
      /\ \A j \in DOMAIN p : RefersTo(p[j], imported)
    BY GoodParts
<1>4. \A k \in DOMAIN imported.groups :
        imported.groups[k].id \notin GroupIds(dst.groups) => imported.groups[k] \in P
    BY DEF Range, GroupIds
<1> HIDE DEF P
<1>4a. /\ more \in Seq(GroupRecs)
       /\ \A k \in DOMAIN imported.groups : imported.groups[k] \in P =>
             \E i \in DOMAIN more : more[i] = imported.groups[k]
    BY <1>3, PickedFacts
<1> HIDE DEF more
<1>5. /\ gs \in Seq(GroupRecs) /\ GroupIds(dst.groups) \subseteq GroupIds(gs)
      /\ GroupIds(imported.groups) \subseteq GroupIds(gs)
    BY <1>2, <1>3, <1>4, <1>4a, MergedGroups
<1>6. t \in BOOLEAN /\ (dst.tag => t) /\ (imported.tag => t)
    BY <1>2, <1>3
<1> HIDE DEF gs, t, q, p
<1>7. \A j \in DOMAIN q : Refers(q[j], gs, t)
    BY <1>2, <1>5, <1>6 DEF Refers, RefersTo
<1>8. \A j \in DOMAIN p : Refers(p[j], gs, t)
    BY <1>3, <1>5, <1>6 DEF Refers, RefersTo
<1>9. b \in Merging(q, gs, t)
    BY <1>2, <1>7, SameIds DEF Merging, Accs
<1> HIDE DEF b
<1>10. m \in Merging(q, gs, t)
    BY <1>2, <1>3, <1>8, <1>9, MergeFold
<1> HIDE DEF m
<1>11. /\ m.accounts \in Seq(Account) /\ KeepsIds(q, m.accounts)
       /\ \A j \in DOMAIN m.accounts : Refers(m.accounts[j], gs, t)
    BY <1>10 DEF Merging, Accs
<1> DEFINE r == m.accounts
<1>12. Good(VaultOf(r, gs, t))
  <2> HIDE DEF r
  <2>1. /\ r \in Seq(Account) /\ \A j \in DOMAIN r : /\ r[j].group = NoGroup \/ r[j].group \in GroupIds(gs)
                                                     /\ r[j].cached => t
    BY <1>11 DEF Refers, r
  <2> QED
    BY <1>5, <1>6, <2>1, GoodVaultOf
<1> QED
    BY <1>1, <1>11, <1>12 DEF VaultOf, q

\* The merge, as the import dialog does it.
LEMMA ImportSafe ==
    ASSUME MergeInv, Import
    PROVE  MergeInv' /\ KeepsIds(vault.accounts, vault'.accounts)
<1>1. /\ Good(vault) /\ BundleOK /\ DialogOK /\ candidates \in Seq(Login) /\ nextId \in 1 .. MaxIds + 1
    BY MergeParts
<1>2. /\ vault' = MergedVault(MergeInto(vault, dlg.preview))
      /\ dlg' = [dlg EXCEPT !.stage = "done", !.preview = NoVaultYet]
      /\ dlg.stage = "preview" /\ UNCHANGED <<bundle, candidates, nextId>>
    BY DEF Import
<1>3. Good(dlg.preview)
    BY <1>1 DEF DialogOK, Dialogs, Good
<1>4. Good(vault') /\ KeepsIds(vault.accounts, vault'.accounts)
    BY <1>1, <1>2, <1>3, MergeGood
<1>5. BundleOK'
    BY <1>1, <1>2 DEF BundleOK
<1>6. dlg' \in Dialogs /\ dlg'.preview = NoVaultYet
    BY <1>1, <1>2, EmptyVaultGood DEF DialogOK, Dialogs, Good
<1>7. DialogOK'
    BY <1>1, <1>2, <1>6, EmptyVaultGood DEF DialogOK, Good
<1> QED
    BY <1>1, <1>2, <1>4, <1>5, <1>7, MergePartsNext
-------------------------------------------------------------------------------
(* The invariant. *)

\* A vault to start with, or a bundle from elsewhere, was written by this program.
LEMMA MergeStart ==
    ASSUME MergeInit
    PROVE  MergeInv
<1>1. vault \in FirstVaults /\ bundle \in Foreign \cup {NoBundle} /\ dlg = ClosedDialog
      /\ candidates = <<>>
    BY DEF MergeInit
<1>2. Good(vault)
    BY <1>1, MergeAssumption DEF Good
<1>3. BundleOK
    BY <1>1, MergeAssumption DEF BundleOK
<1>4. DialogOK
    BY <1>1, ClosedIs, EmptyVaultGood DEF DialogOK, Good
<1>5. candidates \in Seq(Login)
    BY <1>1, EmptySeq
<1>6. nextId \in 1 .. MaxIds + 1
  <2> DEFINE ids == {vault.accounts[i].id : i \in DOMAIN vault.accounts}
  <2>1. ids \subseteq 1 .. MaxIds
    <3>1. \A i \in DOMAIN vault.accounts : vault.accounts[i] \in Account
        BY <1>2, GoodParts, ElementOfSeq, LenProperties
    <3> QED
        BY <3>1 DEF Account
  <2>2. nextId = 1 + Cardinality(ids)
    BY DEF MergeInit
  <2> HIDE DEF ids
  <2>3. MaxIds \in Nat /\ IsFiniteSet(1 .. MaxIds) /\ Cardinality(1 .. MaxIds) = MaxIds
    BY MergeAssumption, FS_Interval
  <2>4. Cardinality(ids) \in Nat /\ Cardinality(ids) <= MaxIds
    BY <2>1, <2>3, FS_Subset, FS_CardinalityType
  <2> QED
    BY <2>2, <2>3, <2>4
<1> QED
    BY <1>2, <1>3, <1>4, <1>5, <1>6, MergeParts

\* Only a removal takes an id away.
IdsKept ==
    \/ RemoveAccounts
    \/ \A i \in DOMAIN vault.accounts : i \in DOMAIN vault'.accounts
                                       /\ vault'.accounts[i].id = vault.accounts[i].id

\* Every step keeps the invariant, and only a removal takes an id away.
LEMMA MergeStepSafe ==
    ASSUME MergeInv, [MergeNext]_mergeVars
    PROVE  MergeInv' /\ (IdsKept \/ UNCHANGED mergeVars)
<1>1. CASE ImportMafile
    BY <1>1, ImportMafileSafe DEF IdsKept, KeepsIds
<1>2. CASE ImportInfoDat
    BY <1>2, ImportInfoDatSafe DEF IdsKept, KeepsIds
<1>3. CASE ImportJwt
    BY <1>3, ImportJwtSafe DEF IdsKept, KeepsIds
<1>4. CASE Rescan
    BY <1>4, RescanSafe DEF IdsKept, KeepsIds
<1>5. CASE ImportCached
    BY <1>5, ImportCachedSafe DEF IdsKept, KeepsIds
<1>6. CASE FullLogin
    BY <1>6, FullLoginSafe DEF IdsKept, KeepsIds
<1>7. CASE SaveEdit
    BY <1>7, SaveEditSafe DEF IdsKept, KeepsIds
<1>8. CASE ConvertToFull
    BY <1>8, ConvertSafe DEF IdsKept, KeepsIds
<1>9. CASE RemoveAccounts
    BY <1>9, RemoveSafe DEF IdsKept
<1>10. CASE NewGroup
    BY <1>10, NewGroupSafe DEF IdsKept, KeepsIds
<1>11. CASE RenameGroup
    BY <1>11, RenameGroupSafe DEF IdsKept, KeepsIds
<1>12. CASE DropOnGroup
    BY <1>12, DropSafe DEF IdsKept, KeepsIds
<1>13. CASE DeleteGroup
    BY <1>13, DeleteSafe DEF IdsKept, KeepsIds
<1>14. CASE Export
    BY <1>14, ExportSafe DEF IdsKept, KeepsIds
<1>15. CASE PickBundle
    BY <1>15, PickSafe DEF IdsKept, KeepsIds
<1>16. CASE Unlock
    BY <1>16, UnlockSafe DEF IdsKept, KeepsIds
<1>17. CASE Import
    BY <1>17, ImportSafe DEF IdsKept, KeepsIds
<1>18. CASE CloseDialog
    BY <1>18, CloseSafe DEF IdsKept, KeepsIds
<1>19. CASE UNCHANGED mergeVars
  <2>1. vault' = vault /\ bundle' = bundle /\ dlg' = dlg /\ candidates' = candidates /\ nextId' = nextId
    BY <1>19 DEF mergeVars
  <2>2. BundleOK' /\ DialogOK' /\ candidates' \in Seq(Login)
    BY <2>1, MergeParts DEF BundleOK, DialogOK
  <2> QED
    BY <1>19, <2>1, <2>2, VaultKept
<1> QED
    BY <1>1, <1>2, <1>3, <1>4, <1>5, <1>6, <1>7, <1>8, <1>9, <1>10, <1>11, <1>12, <1>13, <1>14,
       <1>15, <1>16, <1>17, <1>18, <1>19 DEF MergeNext

\* Types, and every account of the open vault, of a bundle and of the import
\* dialog refers to a group and a tag its vault has (store.cpp subset_vault,
\* merge_into, ensure_*).
THEOREM MergeSafe == MergeSpec => []MergeInv
<1>1. MergeInit => MergeInv
    BY MergeStart
<1>2. MergeInv /\ [MergeNext]_mergeVars => MergeInv'
    BY MergeStepSafe
<1> QED
    BY <1>1, <1>2, PTL DEF MergeSpec

\* No import, merge or edit takes an account's id away or moves it to another
\* row; only a removal does (store.hpp:66).
THEOREM IdsSafe == MergeSpec => IdsStay
<1>1. MergeInv /\ [MergeNext]_mergeVars => [IdsKept]_mergeVars
    BY MergeStepSafe
<1>2. MergeSpec => [][IdsKept]_mergeVars
    BY <1>1, MergeSafe, PTL DEF MergeSpec
<1>3. [][IdsKept]_mergeVars <=> IdsStay
    BY DEF IdsStay, IdsKept
<1> QED
    BY <1>2, <1>3
===============================================================================
