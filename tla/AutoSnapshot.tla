---------------------------- MODULE AutoSnapshot ----------------------------
(***************************************************************************)
(* The automatic-snapshot row of one application                           *)
(* (console/services/app_version_auto_snapshot.py).                        *)
(*                                                                         *)
(* The row lives in ConsoleSysConfig under APP_SNAPSHOT_<app id>.  It does *)
(* two jobs: while it is enabled it keeps a second upgrade of the          *)
(* application from starting, and when the tracked deployment events all   *)
(* succeed the background worker records a snapshot of the application.    *)
(* Every writer first locks the application row (select_for_update), so    *)
(* each operator below is one atomic step.  Reading the region's events    *)
(* is part of that step: the worker reads them while it holds the lock.    *)
(*                                                                         *)
(* This module is the row and its operations; AppUpgrade composes it with  *)
(* the upgrade and restore requests of the application.                    *)
(***************************************************************************)
CONSTANTS
    Services,   \* components of the application
    EventIds,   \* ids of deployment events of the region
    NoEvent,    \* "the row tracks no event of this component"
    Supported   \* FALSE when a component is a vm_run or kubeblocks workload

VARIABLES
    row,        \* the row: its status and, per component, the event it tracks
    outcome     \* region: what became of every event

SnapshotStatus == {"absent", "dispatching", "pending",
                   "success", "failure", "cancelled", "expired"}

EventMap == [Services -> EventIds \cup {NoEvent}]

NoEvents == [s \in Services |-> NoEvent]

Row == [status : SnapshotStatus, tracked : EventMap]

NoRow == [status |-> "absent", tracked |-> NoEvents]

\* ConsoleSysConfig.enable: _finish clears it, track and before_upgrade set it.
Enabled == row.status \in {"dispatching", "pending"}

Tracked == {row.tracked[s] : s \in Services} \ {NoEvent}

\* _event_result maps both failure and timeout to "failure".
Failed == \E e \in Tracked : outcome[e] \in {"failure", "timeout"}

\* A mutant of Succeeded: one successful event is enough.
SucceededSome == \E e \in Tracked : outcome[e] = "success"

Succeeded == Tracked # {} /\ \A e \in Tracked : outcome[e] = "success"

\* _finish.  The events stay in the payload, but after anything but a failure
\* nothing reads them again: the model forgets them.
Finish(status) ==
    row' = [status  |-> status,
            tracked |-> IF status = "failure" THEN row.tracked ELSE NoEvents]

\* Components deployed again replace their event; the others keep theirs only
\* while the previous round is still pending or ended in failure.
Merged(events) ==
    [s \in Services |->
        IF events[s] # NoEvent THEN events[s]
        ELSE IF row.status \in {"pending", "failure"} THEN row.tracked[s]
        ELSE NoEvent]

Cancel ==
    IF row = NoRow THEN UNCHANGED row ELSE Finish("cancelled")

\* A mutant of Track: what a component deploys replaces the claim of an upgrade.
TrackAlways(events, upgrade) ==
    IF ~Supported THEN UNCHANGED row
    ELSE IF events = NoEvents
         THEN IF upgrade THEN Cancel ELSE UNCHANGED row
    ELSE row' = [status |-> "pending", tracked |-> Merged(events)]

Track(events, upgrade) ==
    IF ~Supported THEN UNCHANGED row
    ELSE IF events = NoEvents
         THEN IF upgrade THEN Cancel ELSE UNCHANGED row
    ELSE IF row.status = "dispatching" /\ ~upgrade THEN UNCHANGED row
    ELSE row' = [status |-> "pending", tracked |-> Merged(events)]

\* One visit of the worker.  The deadline is checked first; a pending row
\* whose events all succeeded may still have to wait for its components to run
\* (_ready) or for the snapshot to be written, so success is never forced.
Expire == Enabled /\ Finish("expired")

Settle ==
    /\ row.status = "pending"
    /\ \/ Failed /\ Finish("failure")
       \/ ~Failed /\ Succeeded /\ Finish("success")

\* before_upgrade reconciles the row, refuses while it is still enabled, and
\* otherwise snapshots the application and claims the row.
MayDispatch ==
    \/ ~Supported
    \/ ~Enabled
    \/ row.status = "pending" /\ (Failed \/ Succeeded)

MayRefuse == Supported /\ Enabled /\ ~(row.status = "pending" /\ Failed)

BeforeUpgrade ==
    /\ MayDispatch
    /\ row' = IF Supported
              THEN [status |-> "dispatching", tracked |-> NoEvents]
              ELSE row
=============================================================================
