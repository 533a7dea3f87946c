--------------------------- MODULE SnapshotTracking ---------------------------
(***************************************************************************)
(* The transactions on the automatic-snapshot row of one application       *)
(* (console/services/app_version_auto_snapshot.py and its callers).        *)
(*                                                                         *)
(* Deployments of components, batches of them, upgrades, restores and      *)
(* rollbacks to a snapshot are requests; every console process also has a  *)
(* worker that visits the enabled rows.  The region accepts a deployment   *)
(* before the request registers its event, and the events are read, the    *)
(* components asked for and the snapshot written in the middle of a        *)
(* transaction.                                                            *)
(*                                                                         *)
(* On MySQL whoever reads the row to change it holds the lock of the       *)
(* application's row until its transaction ends.  SQLite has no such lock: *)
(* a transaction reads the state it began with, and can write only while   *)
(* nobody else is writing and nobody has committed since.                  *)
(***************************************************************************)
EXTENDS Naturals

CONSTANTS
    Components,     \* components of the application, all of the market
    Requests,       \* requests of clients
    Workers,        \* one thread in every console process
    Kinds,          \* what every request may be
    NoEvent, None,
    MaxEvents,      \* bound: deployments of a component that the region accepts
    MaxFaults       \* bound: requests and visits that fail or die

EventIds == 1 .. MaxEvents

Processes == Requests \cup Workers

ASSUME TrackingAssumption ==
    /\ Requests \cap Workers = {} /\ None \notin Processes
    /\ Kinds \in [Requests -> SUBSET {"deploy", "batch", "upgrade", "restore", "rollback"}]
    /\ MaxEvents \in Nat /\ MaxFaults \in Nat /\ NoEvent \notin EventIds

VARIABLES
    row, late,      \* the row, and whether the deadline of an enabled row has passed
    outcome,        \* at the region: what became of every event
    database,       \* "sqlite" or "mysql"
    lock,           \* who holds the application's row, or SQLite's right to write
    fresh,          \* on SQLite: transactions since whose first read nobody has committed
    pc, held,       \* what a process does, and the events it carries or has read
    faults,
    covered         \* history: how many automatic snapshots were taken for every event

tables == <<row, late>>
transactions == <<lock, fresh>>
process == <<pc, held>>
vars == <<tables, outcome, database, transactions, process, faults, covered>>

\* The applications with a vm_run or kubeblocks component have no row at all.
Snapshot == INSTANCE AutoSnapshot WITH Services <- Components, Supported <- TRUE
Abstract == INSTANCE SnapshotRow WITH Services <- Components, Supported <- TRUE

NoEvents == Snapshot!NoEvents
EventsOf(map) == {map[c] : c \in Components} \ {NoEvent}

RequestPhase == {"idle", "register", "batch", "batchRegister", "claim", "claimed",
                 "dispatch", "registerUpgrade", "cancel", "restoring", "rollback"}
WorkerPhase == {"idle", "visit", "read", "seen"}

TypeOK ==
    /\ row \in Snapshot!Row /\ late \in BOOLEAN
    /\ outcome \in [EventIds -> {"none", "started", "success", "failure"}]
    /\ database \in {"sqlite", "mysql"}
    /\ lock \in Processes \cup {None} /\ fresh \subseteq Processes
    /\ pc \in [Processes -> RequestPhase \cup WorkerPhase]
    /\ held \in [Processes -> Snapshot!EventMap]
    /\ faults \in 0 .. MaxFaults
    /\ covered \in [EventIds -> Nat]

Init ==
    /\ row = Snapshot!NoRow /\ late = FALSE
    /\ outcome = [e \in EventIds |-> "none"]
    /\ database \in {"sqlite", "mysql"}
    /\ lock = None /\ fresh = {}
    /\ pc = [p \in Processes |-> "idle"]
    /\ held = [p \in Processes |-> NoEvents]
    /\ faults = 0 /\ covered = [e \in EventIds |-> 0]

-----------------------------------------------------------------------------
(* Transactions                                                            *)

\* A mutant of Begin: the application is not locked.
BeginUnlocked(p) ==
    IF database = "mysql"
    THEN UNCHANGED <<lock, fresh>>
    ELSE fresh' = fresh \cup {p} /\ UNCHANGED lock

\* select_for_update of the application, and the read of the row behind it.
Begin(p) ==
    IF database = "mysql"
    THEN lock = None /\ lock' = p /\ UNCHANGED fresh
    ELSE fresh' = fresh \cup {p} /\ UNCHANGED lock

\* Nobody else stands in the way of a write.
MayWrite(p) == lock \in {None, p} /\ (database = "sqlite" => p \in fresh)

Leave(p) ==
    /\ lock' = IF lock = p THEN None ELSE lock
    /\ fresh' = fresh \ {p}

\* The transaction has written: what the others have read so far is out of date,
\* and the row has a new deadline or none.
Commit == lock' = None /\ fresh' = {} /\ late' = FALSE

\* An operation that leaves the row alone writes nothing.
End(p) == IF row' = row THEN Leave(p) /\ UNCHANGED late ELSE Commit

Goto(p, phase, events) ==
    /\ pc' = [pc EXCEPT ![p] = phase]
    /\ held' = [held EXCEPT ![p] = events]

Done(p) == Goto(p, "idle", NoEvents)

\* One more automatic snapshot covers what is in the map.
Cover(events) ==
    covered' = [e \in EventIds |-> IF e \in EventsOf(events) THEN covered[e] + 1 ELSE covered[e]]

\* The region accepts a deployment of some components; it numbers its events.
Accept(events) ==
    LET new == EventsOf(events) IN
    /\ \A e \in new : outcome[e] = "none"
    /\ \A e \in new : \A d \in 1 .. e - 1 : d \in new \/ outcome[d] # "none"
    /\ \A c, d \in Components : events[c] = events[d] => c = d \/ events[c] = NoEvent
    /\ outcome' = [e \in EventIds |-> IF e \in new THEN "started" ELSE outcome[e]]

-----------------------------------------------------------------------------
(* Deployments of components                                               *)

\* deploy, upgrade, batch_operations and the installation of a template: the
\* region is asked first, and its events are registered afterwards.
Deploy(p) ==
    /\ pc[p] = "idle" /\ "deploy" \in Kinds[p]
    /\ \E events \in Snapshot!EventMap \ {NoEvents} :
        Accept(events) /\ Goto(p, "register", events)
    /\ UNCHANGED <<tables, database, transactions, faults, covered>>

Register(p) ==
    /\ pc[p] = "register" /\ lock = None
    /\ Snapshot!Track(held[p], FALSE)
    /\ End(p) /\ Done(p)
    /\ UNCHANGED <<outcome, database, faults, covered>>

\* batch_action deploys and registers one component after the other in a single
\* transaction.  What the first one locks stays locked to the end, so that
\* registering them one by one comes to registering them together.
BatchBegin(p) ==
    /\ pc[p] = "idle" /\ "batch" \in Kinds[p]
    /\ fresh' = IF database = "mysql" THEN fresh ELSE fresh \cup {p}
    /\ Goto(p, "batch", NoEvents)
    /\ UNCHANGED <<tables, outcome, database, lock, faults, covered>>

BatchDeploy(p) ==
    /\ pc[p] = "batch"
    /\ \E c \in Components, e \in EventIds :
        /\ held[p][c] = NoEvent
        /\ Accept([NoEvents EXCEPT ![c] = e])
        /\ Goto(p, "batchRegister", [held[p] EXCEPT ![c] = e])
    /\ UNCHANGED <<tables, database, transactions, faults, covered>>

BatchRegister(p) ==
    /\ pc[p] = "batchRegister"
    /\ MayWrite(p)
    /\ lock' = p
    /\ Goto(p, "batch", held[p])
    /\ UNCHANGED <<tables, outcome, database, fresh, faults, covered>>

BatchCommit(p) ==
    /\ pc[p] = "batch"
    /\ Snapshot!Track(held[p], FALSE)
    /\ End(p) /\ Done(p)
    /\ UNCHANGED <<outcome, database, faults, covered>>

-----------------------------------------------------------------------------
(* Upgrades, restores and rollbacks                                        *)

\* before_upgrade settles the row first, and is refused if that leaves it enabled.
ClaimBegin(p) ==
    /\ pc[p] = "idle" /\ "upgrade" \in Kinds[p]
    /\ Begin(p)
    /\ Goto(p, "claim", NoEvents)
    /\ UNCHANGED <<tables, outcome, database, faults, covered>>

ClaimRefused(p) ==
    /\ pc[p] = "claim"
    /\ Snapshot!Enabled /\ ~late
    /\ Leave(p) /\ Done(p)
    /\ UNCHANGED <<tables, outcome, database, faults, covered>>

\* A mutant of ClaimGranted: the whole row is carried on instead of its events.
ClaimGrantedWhole(p) ==
    /\ pc[p] = "claim"
    /\ Snapshot!MayDispatch \/ late
    /\ Goto(p, "claimed", row)
    /\ UNCHANGED <<tables, outcome, database, transactions, faults, covered>>

ClaimGranted(p) ==
    /\ pc[p] = "claim"
    /\ Snapshot!MayDispatch \/ late
    /\ Goto(p, "claimed",
            IF row.status = "pending" /\ ~late /\ ~Snapshot!Failed THEN row.tracked ELSE NoEvents)
    /\ UNCHANGED <<tables, outcome, database, transactions, faults, covered>>

Claim(p) ==
    /\ pc[p] = "claimed" /\ MayWrite(p)
    /\ row' = [status |-> "dispatching", tracked |-> NoEvents]
    /\ Cover(held[p])
    /\ Commit /\ Goto(p, "dispatch", NoEvents)
    /\ UNCHANGED <<outcome, database, faults>>

\* Both upgrade and restore register what the region accepts, if anything.
DeployVersion(p) ==
    /\ pc[p] \in {"dispatch", "restoring"}
    /\ \E events \in Snapshot!EventMap :
        Accept(events) /\ Goto(p, "registerUpgrade", events)
    /\ UNCHANGED <<tables, database, transactions, faults, covered>>

RegisterUpgrade(p) ==
    /\ pc[p] = "registerUpgrade" /\ lock = None
    /\ Snapshot!Track(held[p], TRUE)
    /\ End(p) /\ Done(p)
    /\ UNCHANGED <<outcome, database, faults, covered>>

\* _update_upgrade_record: an upgrade that has failed gives up its claim.  What
\* the region accepted before the failure, or without its answer having come
\* back, is not registered.
UpgradeFails(p) ==
    /\ pc[p] = "dispatch" /\ faults < MaxFaults
    /\ faults' = faults + 1
    /\ \E events \in Snapshot!EventMap : Accept(events)
    /\ Goto(p, "cancel", NoEvents)
    /\ UNCHANGED <<tables, database, transactions, covered>>

CancelClaim(p) ==
    /\ pc[p] = "cancel" /\ lock = None
    /\ Snapshot!Cancel
    /\ End(p) /\ Done(p)
    /\ UNCHANGED <<outcome, database, faults, covered>>

Restore(p) ==
    /\ pc[p] = "idle" /\ "restore" \in Kinds[p] /\ lock = None
    /\ Snapshot!Cancel
    /\ End(p) /\ Goto(p, "restoring", NoEvents)
    /\ UNCHANGED <<outcome, database, faults, covered>>

\* rollback_snapshot cancels and restores in one transaction, and registers
\* nothing of what it deploys (CREATE_ROLLBACK_SNAPSHOT).
RollbackBegin(p) ==
    /\ pc[p] = "idle" /\ "rollback" \in Kinds[p] /\ lock = None
    /\ lock' = p
    /\ Goto(p, "rollback", NoEvents)
    /\ UNCHANGED <<tables, outcome, database, fresh, faults, covered>>

RollbackCommit(p) ==
    /\ pc[p] = "rollback"
    /\ Snapshot!Cancel
    /\ End(p) /\ Done(p)
    /\ UNCHANGED <<outcome, database, faults, covered>>

-----------------------------------------------------------------------------
(* The workers                                                             *)

\* run_once lists the enabled rows; reconcile reads the row again in its
\* transaction, since somebody else may have changed it by then.
List(w) ==
    /\ pc[w] = "idle" /\ Snapshot!Enabled
    /\ Goto(w, "visit", NoEvents)
    /\ UNCHANGED <<tables, outcome, database, transactions, faults, covered>>

Visit(w) ==
    /\ pc[w] = "visit"
    /\ Begin(w)
    /\ Goto(w, "read", NoEvents)
    /\ UNCHANGED <<tables, outcome, database, faults, covered>>

\* Not enabled any more, claimed by an upgrade, events that have not ended or
\* that the region does not list, or components that do not run yet (_ready).
NothingToDo(w) ==
    /\ pc[w] \in {"read", "seen"}
    /\ pc[w] = "read" => ~(Snapshot!Enabled /\ late)
    /\ Leave(w) /\ Done(w)
    /\ UNCHANGED <<tables, outcome, database, faults, covered>>

\* A mutant of Expire: claimed rows are passed over before the deadline is seen.
ExpirePending(w) ==
    /\ pc[w] = "read" /\ MayWrite(w) /\ late
    /\ row.status = "pending" /\ Snapshot!Expire
    /\ End(w) /\ Done(w)
    /\ UNCHANGED <<outcome, database, faults, covered>>

Expire(w) ==
    /\ pc[w] = "read" /\ MayWrite(w) /\ late
    /\ Snapshot!Expire
    /\ End(w) /\ Done(w)
    /\ UNCHANGED <<outcome, database, faults, covered>>

SettleFailed(w) ==
    /\ pc[w] = "read" /\ MayWrite(w) /\ ~late
    /\ row.status = "pending" /\ Snapshot!Failed
    /\ Snapshot!Finish("failure")
    /\ End(w) /\ Done(w)
    /\ UNCHANGED <<outcome, database, faults, covered>>

ReadEvents(w) ==
    /\ pc[w] = "read" /\ ~late
    /\ row.status = "pending" /\ Snapshot!Succeeded
    /\ Goto(w, "seen", row.tracked)
    /\ UNCHANGED <<tables, outcome, database, transactions, faults, covered>>

\* The snapshot and the row that reports it are committed together.
TakeSnapshot(w) ==
    /\ pc[w] = "seen" /\ MayWrite(w)
    /\ Snapshot!Finish("success")
    /\ Cover(held[w])
    /\ End(w) /\ Done(w)
    /\ UNCHANGED <<outcome, database, faults>>

-----------------------------------------------------------------------------
(* Failures, time and the region                                           *)

\* A process dies, or whatever it was about to do raises: the transaction is
\* undone, and an event that was not registered never will be.
Fail(p) ==
    /\ pc[p] # "idle" /\ faults < MaxFaults
    /\ faults' = faults + 1
    /\ Leave(p) /\ Done(p)
    /\ UNCHANGED <<tables, outcome, database, covered>>

\* SQLite does not let a transaction write on top of what it has not read.
Busy(p) ==
    /\ database = "sqlite" /\ p \notin fresh
    /\ pc[p] \in {"claim", "claimed", "batchRegister", "read", "seen"}
    /\ lock # p
    /\ Leave(p) /\ Done(p)
    /\ UNCHANGED <<tables, outcome, database, faults, covered>>

DeadlinePasses ==
    /\ Snapshot!Enabled /\ ~late
    /\ late' = TRUE
    /\ UNCHANGED <<row, outcome, database, transactions, process, faults, covered>>

EventEnds ==
    /\ \E e \in EventIds, result \in {"success", "failure"} :
        outcome[e] = "started" /\ outcome' = [outcome EXCEPT ![e] = result]
    /\ UNCHANGED <<tables, database, transactions, process, faults, covered>>

Proceed(p) ==
    \/ Register(p) \/ BatchRegister(p) \/ BatchCommit(p)
    \/ ClaimRefused(p) \/ ClaimGranted(p) \/ Claim(p)
    \/ DeployVersion(p) \/ RegisterUpgrade(p) \/ CancelClaim(p)
    \/ RollbackCommit(p) \/ Busy(p)

Start(p) ==
    \/ Deploy(p) \/ BatchBegin(p) \/ BatchDeploy(p) \/ ClaimBegin(p)
    \/ Restore(p) \/ RollbackBegin(p) \/ UpgradeFails(p)

Work(w) ==
    \/ List(w) \/ NothingToDo(w) \/ Expire(w) \/ SettleFailed(w)
    \/ ReadEvents(w) \/ TakeSnapshot(w) \/ Busy(w)

Next ==
    \/ \E p \in Requests : Start(p) \/ Proceed(p)
    \/ \E w \in Workers : Work(w) \/ Visit(w)
    \/ \E p \in Processes : Fail(p)
    \/ DeadlinePasses \/ EventEnds

Spec == Init /\ [][Next]_vars

\* Requests run on, time passes, and the workers come round every ten seconds;
\* who waits for a lock that is released again and again gets it.
FairSpec ==
    /\ Spec
    /\ \A p \in Requests : WF_vars(Proceed(p))
    /\ \A w \in Workers : WF_vars(Work(w)) /\ SF_vars(Visit(w))
    /\ WF_vars(DeadlinePasses)

-----------------------------------------------------------------------------
(* Properties                                                              *)

\* Whatever the transactions ask in between and however they overlap, on both
\* databases: each changes the row as if it had happened at once.
KeepsRow == Abstract!RowSpec

\* No deployment is behind two automatic snapshots: although every process has a
\* worker, and they and the upgrades that settle the row themselves may all find
\* the same row, none takes a snapshot from what another has finished meanwhile.
CoveredOnce ==
    \A e \in EventIds :
        /\ covered[e] <= 1
        /\ Snapshot!Enabled /\ e \in Snapshot!Tracked => covered[e] = 0

\* An automatic snapshot never covers a deployment that failed or still runs,
\* although the row goes on collecting events while a worker asks about those
\* it has read.
CoveredEarned == \A e \in EventIds : covered[e] > 0 => outcome[e] = "success"

\* Only the end of an upgrade, a restore or a rollback, or the deadline, opens
\* the row an upgrade has claimed: the deployments that are registered
\* meanwhile and the workers leave it alone.
ClaimKept ==
    [][ row.status = "dispatching" /\ row'.status # "dispatching" =>
          \/ late
          \/ \E p \in Requests :
                /\ pc[p] \in {"idle", "registerUpgrade", "cancel", "rollback"}
                /\ pc'[p] # pc[p] ]_vars

\* An enabled row, which keeps upgrades out, does not stay enabled for good,
\* not even when the upgrade that claimed it died or no event ever ends.
GateReopens == Snapshot!Enabled ~> ~Snapshot!Enabled
=============================================================================
