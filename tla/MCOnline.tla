------------------------------- MODULE MCOnline -------------------------------
(***************************************************************************)
(* The work that goes to Steam's web servers, on small instances: mobile   *)
(* confirmations, trade offers and inventories, and the sign-in wizard.    *)
(* They share no state in the model, so one run explores each beside the   *)
(* other's initial state and their state counts add.                       *)
(*                                                                         *)
(* Of the confirmations one looks either at frames drawn while callbacks   *)
(* wait, without logins and batches, or at all the rest while the user     *)
(* starts nothing before every callback has run.                           *)
(*                                                                         *)
(* Of the trade offers a behaviour looks either at one account, with all   *)
(* that may happen to its offers, or at the two accounts of a bulk send,   *)
(* with the sessions and the offers left alone (Narrow).                   *)
(***************************************************************************)
EXTENDS Confirmations, TradeOffers, LoginWizard, TLC

CONSTANTS a1, market, trade, w1, w2, t1, t2, o1, o2, i1, i2

VARIABLE part

\* One account with two confirmations, of which the program may approve one, and
\* the filters "All" and "Trade".
MCOwner == (market :> a1) @@ (trade :> a1)
MCFilters == {Confs, {trade}}
MCOfferTo == (o1 :> t1) @@ (o2 :> t1)
MCItems == (t1 :> {i1}) @@ (t2 :> {i2})

AllInit ==
    /\ Init /\ TradeInit /\ WizInit
    /\ part \in {"confirmations", "late callbacks", "one trader", "two traders", "wizard"}

Narrow ==
    IF part = "one trader"
    THEN /\ dead'[t2] = {} /\ t2 \notin modal'.accounts
         /\ \A w \in Tasks : task'[w].kind # "none" => Covers(task'[w]) = {t1}
    ELSE /\ newest' = newest /\ dead' = dead /\ pressed' <= 2
         /\ pressed' = 2 => modal.open /\ \A w \in Tasks : task[w].kind # "bulksend"
         /\ modal'.open => pressed' = 0 \/ \E a \in Traders : invLoading'[a] \/ invLoaded'[a]

AllNext ==
    /\ UNCHANGED part
    /\ \/ /\ part = "confirmations" /\ UNCHANGED <<trVars, wizVars>>
          /\ \/ Unattended
             \/ User /\ (posted = <<>> \/ shown # NoView)
       \/ /\ part = "late callbacks" /\ UNCHANGED <<trVars, wizVars>>
          /\ Next /\ logins' = logins /\ total' = 0
       \/ part \in {"one trader", "two traders"} /\ TradeNext /\ Narrow /\ UNCHANGED <<vars, wizVars>>
       \/ part = "wizard" /\ WizNext /\ UNCHANGED <<vars, trVars>>

AllSpec == AllInit /\ [][AllNext]_<<vars, trVars, wizVars, part>>

Symmetry == Permutations({w1, w2})
===============================================================================
