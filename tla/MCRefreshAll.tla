----------------------------- MODULE MCRefreshAll -----------------------------
(***************************************************************************)
(* Two accounts with a web session and two without: one account can end     *)
(* while another is dropped, in either phase and across the two.  One of    *)
(* each kind is also refreshed, validated or imported by hand, and one may  *)
(* be removed.                                                             *)
(***************************************************************************)
EXTENDS RefreshAll
===============================================================================
