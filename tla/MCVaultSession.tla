---------------------------- MODULE MCVaultSession ----------------------------
(***************************************************************************)
(* Two vaults and two edits are enough for a snapshot to be pending while   *)
(* an older one is being written, for one to be ahead of the file after a   *)
(* failure or a crash, and for a save to have a second file to go to.       *)
(***************************************************************************)
EXTENDS VaultSession
===============================================================================
