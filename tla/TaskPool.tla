------------------------------- MODULE TaskPool -------------------------------
(***************************************************************************)
(* What job_pump promises its callers: a task that was submitted is started *)
(* once, in the order of submission, and has ended before the application   *)
(* state it works on is destroyed.                                          *)
(***************************************************************************)
EXTENDS Naturals, Sequences

CONSTANT Tasks

VARIABLES order,   \* the tasks submitted and not yet started, oldest first
          started, \* the tasks being executed
          ended,   \* the tasks that have been executed
          open     \* the application state still exists

vars == <<order, started, ended, open>>

Submitted == {order[i] : i \in 1..Len(order)} \cup started \cup ended

Init == order = <<>> /\ started = {} /\ ended = {} /\ open = TRUE

Submit(t) ==
    /\ open
    /\ t \notin Submitted
    /\ order' = Append(order, t)
    /\ UNCHANGED <<started, ended, open>>

Start ==
    /\ open
    /\ order # <<>>
    /\ order' = Tail(order)
    /\ started' = started \cup {Head(order)}
    /\ UNCHANGED <<ended, open>>

End(t) ==
    /\ t \in started
    /\ started' = started \ {t}
    /\ ended' = ended \cup {t}
    /\ UNCHANGED <<order, open>>

Close ==
    /\ order = <<>> /\ started = {}
    /\ open' = FALSE
    /\ UNCHANGED <<order, started, ended>>

Next == Start \/ Close \/ \E t \in Tasks : Submit(t) \/ End(t)

Spec == Init /\ [][Next]_vars
===============================================================================
