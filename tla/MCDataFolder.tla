----------------------------- MODULE MCDataFolder -----------------------------
(***************************************************************************)
(* The default folder and two others, so that a move can start from either *)
(* kind and end in either, and a third folder can hold something else; two  *)
(* edits, so that one can be left behind by the other.                      *)
(***************************************************************************)
EXTENDS DataFolder, TLC

Symmetry == Permutations(Custom) \cup Permutations(Edits)
===============================================================================
