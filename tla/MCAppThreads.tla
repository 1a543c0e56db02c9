----------------------------- MODULE MCAppThreads -----------------------------
(***************************************************************************)
(* Two workers, so that one can sleep in a task while the other waits; a    *)
(* staggered task of two accounts, so that its results have an order, and a *)
(* plain one, whose notification can go to the sleeper.                     *)
(***************************************************************************)
EXTENDS AppThreads

CONSTANTS sweep, plain

MCSteps == [t \in {sweep, plain} |-> IF t = sweep THEN 2 ELSE 0]
===============================================================================
