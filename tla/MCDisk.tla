-------------------------------- MODULE MCDisk --------------------------------
(***************************************************************************)
(* What the program keeps on disk, on small instances: the data folder and *)
(* its relocation, the vaults of a folder, their settings, the accounts    *)
(* inside a vault with the bundles that carry them elsewhere, and the      *)
(* Steam Guard secrets of an account.                                      *)
(*                                                                         *)
(* They share no state in the model, so one run explores each beside the   *)
(* others' initial state and their state counts add.  So do those of       *)
(* the settings, of which a behaviour touches at most two (Touched): they  *)
(* are saved, loaded and pushed together but never read one for the other. *)
(* Of Steam Guard one looks at three requests for one account, or at two   *)
(* requests for two accounts (OnTouched).                                  *)
(***************************************************************************)
EXTENDS VaultFiles, Settings, AccountMerge, SdaWizard, DataFolder, TLC

VARIABLES part, touched

Acc(id, sid, login, nfa, group) ==
    [id |-> id, sid |-> sid, login |-> login, password |-> ~nfa, is_nfa |-> nfa,
     cached |-> FALSE, group |-> group]

\* A vault from an earlier run, with an account whose Steam ID nobody knows yet.
MCOne == [accounts |-> <<Acc(1, NoSid, "x", FALSE, NoGroup)>>, groups |-> <<>>, tag |-> FALSE]
MCFirst == {NoVaultYet, MCOne}

\* A bundle made elsewhere: its account has the first id of this vault's, too.
MCElsewhere == [accounts |-> <<Acc(1, "s", "y", TRUE, NFA)>>,
                groups |-> <<[id |-> NFA, name |-> "NFA"]>>, tag |-> FALSE]
MCForeign == [content : {MCElsewhere}, damage : Damage]

\* loginusers.vdf of this PC knows the Steam ID of one login.
MCLocal == [l \in Login |-> IF l = "y" THEN "s" ELSE NoSid]

\* The first state of each part, and one of them while another is explored.
AllInit ==
    /\ VaultFilesInit /\ SettingsInit /\ MergeInit /\ SdaInit /\ Init
    /\ part \in {"files", "settings", "merge", "steam guard", "folder"}
    /\ touched \in CASE part = "settings" -> {{k, l} : k, l \in Key}
                     [] part = "steam guard" -> {{a} : a \in SAcct} \cup {SAcct}
                     [] OTHER -> {{}}
    /\ part # "files" => bins = {} /\ remember = FALSE
    /\ part # "settings" => root = Absent
    /\ part # "merge" => vault = MCOne /\ bundle = NoBundle
    /\ part # "steam guard" \/ Cardinality(touched) > 1 => \A a \in SAcct : ~Has(a) /\ linked[a].active = 0
    /\ part # "folder" => legacy = {}

\* The other settings keep what they were born with; a save fails where only
\* one setting is touched.
Touched ==
    /\ \A k \in Key \ touched : setting'[k] \in {Factory, Legacy, Absent}
    /\ Cardinality(touched) > 1 =>
          /\ ~failed'
          /\ file' # file /\ unlocked' = unlocked => hint' = Mirror(setting')

\* The dialogs work on one account, or on several with a request less.
OnTouched ==
    /\ {add'.acct, rem'.acct} \subseteq touched \cup {NoSAcct}
    /\ Cardinality(touched) > 1 => requests' < MaxRequests

AllNext ==
    /\ UNCHANGED <<part, touched>>
    /\ \/ part = "files" /\ VaultFilesNext /\ UNCHANGED <<setVars, mergeVars, sdaVars, vars>>
       \/ part = "settings" /\ SettingsNext /\ Touched /\ UNCHANGED <<vfVars, mergeVars, sdaVars, vars>>
       \/ part = "merge" /\ MergeNext /\ UNCHANGED <<vfVars, setVars, sdaVars, vars>>
       \/ part = "steam guard" /\ SdaNext /\ OnTouched /\ UNCHANGED <<vfVars, setVars, mergeVars, vars>>
       \/ part = "folder" /\ Next /\ UNCHANGED <<vfVars, setVars, mergeVars, sdaVars>>

allVars == <<vfVars, setVars, mergeVars, sdaVars, vars, part, touched>>
AllSpec == AllInit /\ [][AllNext]_allVars

\* Steam Guard while the vault stays open and the process alive.
AttendedNext ==
    Tracked /\ ~locked' /\ UNCHANGED <<vfVars, setVars, mergeVars, vars, part, touched>>
AttendedSpec == AllInit /\ part = "steam guard" /\ [][AttendedNext]_allVars

Symmetry == Permutations(Id) \cup Permutations(SAcct)
===============================================================================
