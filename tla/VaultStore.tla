------------------------------ MODULE VaultStore ------------------------------
(***************************************************************************)
(* What the application promises about vaults, with no thread, queue or    *)
(* temporary file in sight.  A vault's durable contents (store) follow the *)
(* contents accepted for it (accepted), which follow what the user sees    *)
(* (view).  Contents are the edits applied so far, so "newer" is inclusion. *)
(***************************************************************************)
CONSTANTS Vaults,   \* the vaults of this installation
          Edits,    \* changes the user or a background result can apply
          None      \* no such file, or no vault open

VARIABLES store,    \* store[v]: the contents a restart would find, or None
          accepted, \* accepted[v]: the contents handed over for saving
          view      \* the contents on screen, or None while locked

vars == <<store, accepted, view>>

Snapshot == [vault : Vaults, edits : SUBSET Edits]

\* A freshly created vault: create_new_vault writes an empty Vault.
Fresh(v) == [vault |-> v, edits |-> {}]

\* s holds every edit r holds, and belongs to the same vault.
AtLeast(s, r) == s.vault = r.vault /\ r.edits \subseteq s.edits

Init ==
    /\ store \in [Vaults -> Snapshot \cup {None}]
    /\ \A v \in Vaults : store[v] # None => store[v].vault = v
    /\ accepted = store
    /\ view = None

\* The user creates a vault, giving up whatever it held, and it opens.
Create(v) ==
    /\ view = None
    /\ store' = [store EXCEPT ![v] = Fresh(v)]
    /\ accepted' = [accepted EXCEPT ![v] = Fresh(v)]
    /\ view' \in {None, Fresh(v)}

\* A second vault is created from the settings while another one is open.
CreateBeside(v) ==
    /\ store[v] = None
    /\ store' = [store EXCEPT ![v] = Fresh(v)]
    /\ accepted' = [accepted EXCEPT ![v] = Fresh(v)]
    /\ UNCHANGED view

\* Opening a vault shows everything accepted for it, and all of it is durable.
Open(v) ==
    /\ view = None
    /\ store[v] # None
    /\ accepted[v] = store[v]
    /\ view' = store[v]
    /\ UNCHANGED <<store, accepted>>

\* An edit, handed over for saving at once, now or later.
Change(e) ==
    /\ view # None
    /\ view' = [view EXCEPT !.edits = @ \cup {e}]
    /\ accepted' \in {accepted, [accepted EXCEPT ![view.vault] = view']}
    /\ UNCHANGED store

Accept ==
    /\ view # None
    /\ accepted' = [accepted EXCEPT ![view.vault] = view]
    /\ UNCHANGED <<store, view>>

\* The durable contents advance towards the accepted ones.  They never go
\* back, never overtake what was accepted, and never change owner.
Persist(v) ==
    /\ store[v] # None
    /\ \E s \in Snapshot :
          /\ AtLeast(s, store[v])
          /\ AtLeast(accepted[v], s)
          /\ store' = [store EXCEPT ![v] = s]
    /\ UNCHANGED <<accepted, view>>

\* A failed write gives up what was accepted but not yet durable.
GiveUp(v) ==
    /\ accepted' = [accepted EXCEPT ![v] = store[v]]
    /\ UNCHANGED <<store, view>>

Close ==
    /\ view' = None
    /\ UNCHANGED <<store, accepted>>

\* The process ends: only the files remain.
Stop ==
    /\ view' = None
    /\ accepted' = store
    /\ UNCHANGED store

Next ==
    \/ \E v \in Vaults : Create(v) \/ CreateBeside(v) \/ Open(v) \/ Persist(v) \/ GiveUp(v)
    \/ \E e \in Edits : Change(e)
    \/ Accept \/ Close \/ Stop

Spec == Init /\ [][Next]_vars
===============================================================================
