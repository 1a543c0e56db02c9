-------------------------------- MODULE MCSteam --------------------------------
(***************************************************************************)
(* What the program does with the Steam client and the game coordinator of *)
(* CS2, on small instances: launching an account, the trace cleaner, the   *)
(* CS2 screen and the background sweeps.                                   *)
(*                                                                         *)
(* The parts are explored one beside the initial state of the others, so   *)
(* their state counts add.  The CS2 screen is looked at twice: its storage *)
(* units with no drop to claim, and a drop with no units; the sweeps too:  *)
(* the auto-pull and the validation use clients of their own.              *)
(***************************************************************************)
EXTENDS Launch, Cleaner, Cs2Screen, GcSweep, TLC

CONSTANTS alice, bob

VARIABLE part

Parts == {"launch", "cleaner", "units", "claim", "away", "pull", "validation"}
InInventory == [x \in GAcct |-> [i \in Item |-> Inv]]
AllLocked == [x \in GAcct |-> "locked"]

\* The first states of a part, and one of them while another part is explored.
AllInit ==
    /\ part \in Parts
    /\ IF part = "launch" THEN TRUE ELSE configured = {} /\ cm = [x \in Player |-> "none"]
    /\ IF part = "cleaner" THEN TRUE
       ELSE userdata = {} /\ readable = TRUE /\ keep = {} /\ profile = "quick"
    /\ IF part = "units" THEN tokens = GAcct
       ELSE /\ where = InInventory
            /\ IF part = "claim" THEN TRUE ELSE tokens = IF part = "away" THEN GAcct ELSE {}
    /\ IF part \in {"claim", "away"} THEN TRUE ELSE drop = AllLocked
    /\ IF part = "pull" THEN TRUE
       ELSE IF part = "validation" THEN nfa = [x \in GAcct |-> "Unknown"]
       ELSE nfa = [x \in GAcct |-> "full"] /\ token = {}
    /\ LaunchInit /\ CleanInit /\ GcInit /\ ScreenInit /\ SweepInit

\* The vault stays open with all its accounts; nobody signs in or opens a unit.
Present == session' = "open" /\ accounts' = accounts
OnlyTheDrop == screen'.open = Inv /\ screen'.pickedInv = {}
OneClaim == OnlyTheDrop /\ presses' < 2 /\ signing' = {} /\ Len(clients') < 2

screenOnly == <<screen, vaultVars, presses>>
sweepOnly == <<pull, val, token, signin, cache, nfa, sweeps>>

AllNext ==
    /\ UNCHANGED part
    /\ \/ part = "launch" /\ LaunchNext /\ UNCHANGED <<cleanVars, cs2Vars, sweepOnly>>
       \/ part = "cleaner" /\ CleanNext /\ UNCHANGED <<launchVars, cs2Vars, sweepOnly>>
       \/ /\ part = "units" /\ ScreenNext /\ drop' = drop /\ Present
          /\ UNCHANGED <<launchVars, cleanVars, sweepOnly>>
       \/ /\ part = "claim" /\ ScreenNext /\ OnlyTheDrop /\ Present
          /\ UNCHANGED <<launchVars, cleanVars, sweepOnly>>
       \/ /\ part = "away" /\ ScreenNext /\ OneClaim
          /\ UNCHANGED <<launchVars, cleanVars, sweepOnly>>
       \/ /\ part = "pull" /\ SweepNext /\ val' = val
          /\ UNCHANGED <<launchVars, cleanVars, screenOnly>>
       \/ /\ part = "validation" /\ SweepNext /\ pull' = pull
          /\ UNCHANGED <<launchVars, cleanVars, screenOnly>>

AllSpec == AllInit /\ [][AllNext]_<<launchVars, cleanVars, cs2Vars, sweepVars, part>>

Symmetry == Permutations({alice, bob}) \cup Permutations(Unit)
================================================================================
