------------------------------ MODULE SnapshotRow ------------------------------
(***************************************************************************)
(* What the operations on the automatic-snapshot row promise: each of them *)
(* takes effect at once, on the row as it is at that moment, however long  *)
(* its transaction asks the region and whoever else is at work.            *)
(*                                                                         *)
(* AppUpgrade composes the upgrade requests with the operations in this    *)
(* form; SnapshotTracking shows that the transactions of the code keep it. *)
(***************************************************************************)
EXTENDS AutoSnapshot

VARIABLE
    late        \* the deadline of an enabled row has passed

rowVars == <<row, outcome, late>>

RowInit ==
    /\ row = NoRow
    /\ outcome = [e \in EventIds |-> "none"]
    /\ late = FALSE

\* Outside of the row: the region starts and ends deployments, time passes.
RegionMoves ==
    /\ \A e \in EventIds : outcome[e] \in {"success", "failure"} => outcome'[e] = outcome[e]
    /\ UNCHANGED <<row, late>>

TimePasses == Enabled /\ late' = TRUE /\ UNCHANGED <<row, outcome>>

Registration ==
    \E events \in EventMap, upgrade \in BOOLEAN :
        /\ \A s \in Services : events[s] # NoEvent => outcome[events[s]] # "none"
        /\ Track(events, upgrade)

\* An expired row does not stand in the way of an upgrade.
ClaimExpired ==
    /\ Supported /\ Enabled /\ late
    /\ row' = [status |-> "dispatching", tracked |-> NoEvents]

Operation ==
    /\ \/ Registration \/ Cancel \/ BeforeUpgrade \/ ClaimExpired
       \/ Settle
       \/ late /\ Expire
    /\ late' = FALSE
    /\ UNCHANGED outcome

RowSpec == RowInit /\ [][RegionMoves \/ TimePasses \/ Operation]_rowVars
=============================================================================
