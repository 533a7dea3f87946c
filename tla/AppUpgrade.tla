----------------------------- MODULE AppUpgrade -----------------------------
(***************************************************************************)
(* Upgrading and restoring one group of components installed from an       *)
(* application template (console/services/upgrade_services.py,             *)
(* market_app/app_upgrade.py, market_app/app_restore.py).                  *)
(*                                                                         *)
(* A group has upgrade records: a row is created by POST upgrade-records,  *)
(* executed by POST .../upgrade, retried by POST .../deploy, undone by     *)
(* POST .../rollback (which adds a rollback record), and brought up to     *)
(* date by GET .../upgrade-records/<id>, which asks the region what became *)
(* of the deployment events and writes a verdict.                          *)
(*                                                                         *)
(* A request is a Django worker running one of these handlers: it holds an *)
(* in-memory copy of the record (obj) and of the component records (held)  *)
(* read at some earlier time, and the other requests run between any two   *)
(* of its database or region calls.  AppUpgradeRecord.save() writes every  *)
(* field of the copy.                                                      *)
(***************************************************************************)
EXTENDS Naturals, FiniteSets

CONSTANTS
    Requests,       \* concurrent HTTP requests
    Components,     \* components of the group
    Versions,       \* versions of the template
    Initial,        \* the installed version
    Targets,        \* versions the clients ask for
    Kinds,          \* kinds of requests the clients make
    DiskVersions,   \* versions whose template carries the rainbond-disk plugin
    FenceSupported, \* the application has no vm_run or kubeblocks component
    MaxRecords,     \* bound: upgrade and rollback records
    MaxBatches,     \* bound: deployments of one record
    MaxFaults,      \* bound: failures, those of a failure's own handling aside
    MaxCrashes,     \* bound: workers that die
    None

ASSUME ConstantsAssumption ==
    /\ Initial \in Versions
    /\ Targets \subseteq Versions
    /\ Kinds \subseteq {"create", "upgrade", "component", "restore", "retry",
                       "poll", "list"}
    /\ DiskVersions \subseteq Versions
    /\ FenceSupported \in BOOLEAN
    /\ MaxRecords \in Nat
    /\ MaxBatches \in Nat \ {0}
    /\ MaxFaults \in Nat
    /\ MaxCrashes \in Nat

VARIABLES
    records,    \* app_upgrade_record, by ID
    latest,     \* ID of the record with the newest update_time, 0 when none
    rows,       \* service_upgrade_record: status, or None when there is no row
    batches,    \* how many deployments of a record got as far as the region
    event,      \* region: what became of the deployment of a component
    console,    \* template version of the group in the console's database
    region,     \* template version of the components in the region
    fence,      \* the application's automatic-snapshot row
    req,        \* the requests
    made,       \* history: component records ever inserted
    dropped,    \* history: component records a crash left deleted
    parted,     \* history: what may have parted the region from the console
    faults,     \* the failures that MaxFaults bounds, so far
    crashes     \* crashes so far

db == <<records, latest, rows>>
deployments == <<batches, event>>
versions == <<console, region>>
history == <<made, dropped>>
failures == <<parted, faults, crashes>>

vars == <<db, deployments, versions, fence, req, history, failures>>

-----------------------------------------------------------------------------
(* Records                                                                 *)

RecordIds == 1 .. MaxRecords
NoId == 0

\* One deployment of a record creates at most one row per component.
RowIds == RecordIds \X (1 .. MaxBatches) \X Components

UpgradeStatus == {"NOT", "UPGRADING", "UPGRADED", "ROLLING", "ROLLBACK",
                  "PARTIAL_UPGRADED", "PARTIAL_ROLLBACK",
                  "UPGRADE_FAILED", "ROLLBACK_FAILED", "DEPLOY_FAILED"}

UnfinishedStatus == {"NOT", "UPGRADING", "ROLLING"}

Record == [type    : {"upgrade", "rollback"},
           status  : UpgradeStatus,
           version : Versions \cup {None},
           old     : Versions \cup {None},
           snap    : Versions \cup {None},   \* what the snapshot restores
           parent  : RecordIds \cup {NoId}]

Exists(r) == records[r] # None

Existing == {r \in RecordIds : Exists(r)}

IsFinished(rec) == rec.status \notin UnfinishedStatus

CanUpgrade(rec) == rec.status = "NOT"

CanRollback(rec) ==
    /\ rec.type = "upgrade"
    /\ rec.status \in {"UPGRADED", "ROLLBACK", "PARTIAL_UPGRADED",
                       "PARTIAL_ROLLBACK", "DEPLOY_FAILED"}

CanDeploy(rec) ==
    /\ IsFinished(rec)
    /\ rec.status \in {"UPGRADE_FAILED", "ROLLBACK_FAILED", "PARTIAL_UPGRADED",
                       "PARTIAL_ROLLBACK", "DEPLOY_FAILED"}

InProgress(type) == IF type = "upgrade" THEN "UPGRADING" ELSE "ROLLING"
Succeeded(type) == IF type = "upgrade" THEN "UPGRADED" ELSE "ROLLBACK"
Partial(type) == IF type = "upgrade" THEN "PARTIAL_UPGRADED" ELSE "PARTIAL_ROLLBACK"
\* A mutant of AllFailed: one word for both kinds of record.
AllFailedAlike(type) == "UPGRADE_FAILED"
AllFailed(type) == IF type = "upgrade" THEN "UPGRADE_FAILED" ELSE "ROLLBACK_FAILED"

ASSUME NoneAssumption ==
    None \notin Versions \cup UpgradeStatus \cup Record \cup RowIds

NoRows == [k \in RowIds |-> None]

RowsOf(r) == [k \in RowIds |-> IF k[1] = r THEN rows[k] ELSE None]

Present(rs) == {k \in RowIds : rs[k] # None}

\* A mutant of StatusTable: a failed deployment counts as done.
StatusTableCopied ==
    [UPGRADING |-> [success |-> "UPGRADED", failure |-> "UPGRADED",
                    timeout |-> "UPGRADED"],
     ROLLING   |-> [success |-> "ROLLBACK", failure |-> "ROLLBACK",
                    timeout |-> "ROLLBACK"]]

\* status_tables: how an event moves the status of a component record.
StatusTable ==
    [UPGRADING |-> [success |-> "UPGRADED", failure |-> "UPGRADE_FAILED",
                    timeout |-> "UPGRADED"],
     ROLLING   |-> [success |-> "ROLLBACK", failure |-> "ROLLBACK_FAILED",
                    timeout |-> "ROLLBACK"]]

Refreshed(status, outcome) ==
    IF status \in DOMAIN StatusTable /\ outcome \in {"success", "failure", "timeout"}
    THEN StatusTable[status][outcome]
    ELSE status

\* Mutants of Verdict: one component that has finished is enough; nothing
\* deployed counts as everything deployed; a failure is never a verdict.
VerdictOfSome(rec, rs) ==
    LET statuses == {rs[k] : k \in Present(rs)}
    IN  IF statuses \subseteq UnfinishedStatus
        THEN rec.status ELSE Partial(rec.type)

VerdictOfNone(rec, rs) ==
    LET statuses == {rs[k] : k \in Present(rs)}
    IN  IF statuses \cap UnfinishedStatus # {}
        THEN rec.status
        ELSE IF statuses \subseteq {"UPGRADED", "ROLLBACK"}
        THEN Succeeded(rec.type)
        ELSE Partial(rec.type)

VerdictOfSuccess(rec, rs) ==
    LET statuses == {rs[k] : k \in Present(rs)}
    IN  IF statuses # {} /\ statuses \subseteq {"UPGRADED", "ROLLBACK"}
        THEN Succeeded(rec.type)
        ELSE rec.status

\* _update_app_record_status.
Verdict(rec, rs) ==
    LET statuses == {rs[k] : k \in Present(rs)}
    IN  IF statuses \cap UnfinishedStatus # {}
        THEN rec.status
        ELSE IF statuses # {} /\ statuses \subseteq {"ROLLBACK_FAILED", "UPGRADE_FAILED"}
        THEN AllFailed(rec.type)
        ELSE IF statuses # {} /\ statuses \subseteq {"UPGRADED", "ROLLBACK"}
        THEN Succeeded(rec.type)
        ELSE Partial(rec.type)

-----------------------------------------------------------------------------
(* Requests                                                                *)

Phase == {"idle",
          \* POST upgrade-records
          "insert",
          \* POST .../upgrade
          "construct", "publish", "sync", "save",
          \* POST .../rollback
          "restoreConstruct", "restoreCancel", "restoreSync", "restoreSave", "restoreRecord",
          \* both
          "deploy", "track", "createRows",
          \* a failure of either: up to the end of the request, or to rollback()
          "cancel", "fail", "cancelUndo", "failUndo", "undo",
          \* GET .../upgrade-records/<id>
          "fetchRows", "fetchEvents", "saveRecord", "deleteRows", "insertRows",
          \* POST .../deploy and GET .../upgrade-records
          "retry", "listed"}

\* An upgrade or a restore that has yet to call the region's deployment.
BeforeDeployment == {"construct", "publish", "sync", "save", "restoreRecord", "deploy"}

\* Between the claim of the snapshot row and what ends it.
Claiming == {"sync", "save", "deploy", "track", "cancel", "cancelUndo"}

\* Whoever will insert a record.
Inserting == {"insert", "restoreConstruct", "restoreCancel", "restoreSync", "restoreSave",
              "restoreRecord"}

Request == [pc   : Phase,
            rec  : RecordIds \cup {NoId},
            obj  : Record \cup {None},
            ver  : Versions \cup {None},        \* the version to deploy
            orig : Versions \cup {None},        \* original_app's version
            n    : 0 .. MaxBatches,             \* its deployment of rec
            held : [RowIds -> UpgradeStatus \cup {None}]]

Idle == [pc |-> "idle", rec |-> NoId, obj |-> None, ver |-> None,
         orig |-> None, n |-> 0, held |-> NoRows]

\* A handler starts: the view has loaded record r, if it has one.
Start(q, pc, r, ver, orig) ==
    /\ req[q].pc = "idle"
    /\ req' = [req EXCEPT ![q] =
                 [pc |-> pc, rec |-> r, obj |-> IF r = NoId THEN None ELSE records[r],
                  ver |-> ver, orig |-> orig, n |-> 0, held |-> NoRows]]

Goto(q, pc) == req' = [req EXCEPT ![q].pc = pc]

Return(q) == req' = [req EXCEPT ![q] = Idle]

Fence == INSTANCE AutoSnapshot WITH
            Services <- Components, EventIds <- RowIds, NoEvent <- None,
            Supported <- FenceSupported, row <- fence, outcome <- event

\* AppUpgradeRecord.save(): every field of the copy, and update_time.
Save(r, rec) ==
    /\ records' = [records EXCEPT ![r] = rec]
    /\ latest' = r

\* AppUpgrade._update_upgrade_record on the request's copy.
Updated(q, status, snap) ==
    [req[q].obj EXCEPT !.status = status, !.snap = snap, !.version = req[q].ver]

Fault == faults < MaxFaults /\ faults' = faults + 1

\* The bounds.  A request starts only when the ids it will allocate are left,
\* so they never hold up a request under way.
RoomForRecord == Existing # RecordIds

RoomForBatch(r) == batches[r] < MaxBatches

\* Ids that requests already under way will still allocate.
Reserved == Cardinality({q \in Requests : req[q].pc \in Inserting})

FreeRecord == Cardinality(Existing) + Reserved < MaxRecords

\* The ids are those of an AUTO_INCREMENT column.
NewId == CHOOSE r \in RecordIds \ Existing : 1 .. (r - 1) \subseteq Existing

FreeBatch(r) ==
    LET deploying == {q \in Requests : req[q].rec = r /\ req[q].pc \in BeforeDeployment}
    IN  batches[r] + Cardinality(deploying) < MaxBatches

-----------------------------------------------------------------------------
(* POST upgrade-records                                                    *)

\* create_upgrade_record: the group's last record and its installed version
\* are read in one transaction; only that record is examined.
CreateRead(q) ==
    /\ FreeRecord
    /\ latest # NoId => IsFinished(records[latest])
    /\ Start(q, "insert", NoId, None, console)
    /\ UNCHANGED <<db, deployments, versions, fence, history, failures>>

CreateInsert(q) ==
    /\ req[q].pc = "insert"
    /\ RoomForRecord
    /\ Save(NewId, [type |-> "upgrade", status |-> "NOT", version |-> None,
                    old |-> req[q].orig, snap |-> None, parent |-> NoId])
    /\ Return(q)
    /\ UNCHANGED <<rows, deployments, versions, fence, history, failures>>

-----------------------------------------------------------------------------
(* POST .../upgrade                                                        *)

\* The view loads the record, and can_upgrade is asked of that copy.
UpgradeLoad(q, r, v) ==
    /\ Exists(r)
    /\ CanUpgrade(records[r])
    /\ FreeBatch(r)
    /\ Start(q, "construct", r, v, None)
    /\ UNCHANGED <<db, deployments, versions, fence, history, failures>>

\* The constructor of AppUpgrade reads the installed application, which is what
\* rollback() would put back.
Construct(q) ==
    /\ req[q].pc = "construct"
    /\ req' = [req EXCEPT ![q].pc = "publish", ![q].orig = console]
    /\ UNCHANGED <<db, deployments, versions, fence, history, failures>>

\* upgrade_component runs the same AppUpgrade.upgrade without a record; the
\* request gets no further than the check of the record, so what it would
\* deploy is left out.
UpgradeComponentLoad(q) ==
    /\ Start(q, "publish", NoId, None, None)
    /\ UNCHANGED <<db, deployments, versions, fence, history, failures>>

\* The template is locked, before_upgrade claims the application, and two
\* columns of the record are updated in place.  The copy is not refreshed, and
\* neither the status in the database nor update_time takes part.
Published(q) ==
    /\ req[q].pc = "publish"
    /\ req[q].obj # None
    /\ Fence!BeforeUpgrade
    /\ records' = [records EXCEPT ![req[q].rec].status = "UPGRADING",
                                  ![req[q].rec].version = req[q].ver]
    /\ UNCHANGED <<latest, rows, deployments, versions, history, parted, crashes>>

Publish(q) ==
    /\ Published(q)
    /\ Goto(q, "sync")
    /\ UNCHANGED faults

\* All that is committed, and then a storage of the region does not acknowledge
\* the end of its lease: the request ends with 409 all the same.
PublishUnconfirmed(q) ==
    /\ Published(q)
    /\ Fault
    /\ Return(q)

\* The request ends with 409: no record, a deployment still pending, or (a
\* fault) the template was retired, the registries' coordination is down or
\* the baseline snapshot could not be taken.
PublishRefused(q) ==
    /\ req[q].pc = "publish"
    /\ \/ /\ req[q].obj = None \/ Fence!MayRefuse
          /\ UNCHANGED faults
       \/ Fault
    /\ Return(q)
    /\ UNCHANGED <<db, deployments, versions, fence, history, parted, crashes>>

\* install_plugins, then sync_new_app.
SyncNewApp(q) ==
    /\ req[q].pc = "sync"
    /\ region' = req[q].ver
    /\ Goto(q, "save")
    /\ UNCHANGED <<db, deployments, console, fence, history, failures>>

\* A failure on the way: the copy gets what _update_upgrade_record will save.
FailsWith(q, pc, obj) ==
    /\ Fault
    /\ req' = [req EXCEPT ![q].pc = pc, ![q].obj = obj]

\* Either call raises.  The region may have applied the change, or the first of
\* the calls it consists of, and nobody takes it back.
SyncNewAppFails(q) ==
    /\ req[q].pc = "sync"
    /\ FailsWith(q, "cancel", Updated(q, "UPGRADE_FAILED", None))
    /\ \/ UNCHANGED <<region, parted>>
       \/ /\ region' = req[q].ver
          /\ parted' = parted \cup {"sync"}
    /\ UNCHANGED <<db, deployments, console, fence, history, crashes>>

\* _save_app: snapshot, application and record in one transaction.
SaveApp(q) ==
    /\ req[q].pc = "save"
    /\ console' = req[q].ver
    /\ Save(req[q].rec, Updated(q, "UPGRADING", req[q].orig))
    /\ req' = [req EXCEPT ![q].pc = "deploy",
                          ![q].obj = Updated(q, "UPGRADING", req[q].orig)]
    /\ UNCHANGED <<rows, deployments, region, fence, history, failures>>

\* A mutant of SaveAppFails: the region is not put back.
SaveAppFailsForward(q) ==
    /\ req[q].pc = "save"
    /\ FailsWith(q, "cancel", Updated(q, "UPGRADE_FAILED", None))
    /\ UNCHANGED <<db, deployments, versions, fence, history, parted, crashes>>

SaveAppFails(q) ==
    /\ req[q].pc = "save"
    /\ FailsWith(q, "cancelUndo", Updated(q, "UPGRADE_FAILED", None))
    /\ UNCHANGED <<db, deployments, versions, fence, history, parted, crashes>>

\* The rainbond-disk plugin is reconciled after _save_app has committed, under
\* the same except clause.
DiskPluginFails(q) ==
    /\ req[q].pc = "deploy"
    /\ req[q].obj.type = "upgrade"
    /\ req[q].ver \in DiskVersions
    /\ FailsWith(q, "cancelUndo", Updated(q, "UPGRADE_FAILED", None))
    /\ parted' = parted \cup {"plugin"}
    /\ UNCHANGED <<db, deployments, versions, fence, history, crashes>>

\* _update_upgrade_record gives up the claim first; a failure to do so is only
\* logged.
Cancel(q) ==
    /\ req[q].pc \in {"cancel", "cancelUndo"}
    /\ Goto(q, IF req[q].pc = "cancel" THEN "fail" ELSE "failUndo")
    /\ Fence!Cancel \/ UNCHANGED fence
    /\ UNCHANGED <<db, deployments, versions, history, failures>>

RecordFailure(q) ==
    /\ req[q].pc \in {"fail", "failUndo"}
    /\ Save(req[q].rec, req[q].obj)
    /\ IF req[q].pc = "fail" THEN Return(q) ELSE Goto(q, "undo")
    /\ UNCHANGED <<rows, deployments, versions, fence, history, failures>>

\* The database is out; rollback() is not reached.
RecordFailureFails(q) ==
    /\ req[q].pc \in {"fail", "failUndo"}
    /\ parted' = IF req[q].pc = "failUndo" THEN parted \cup {"record"} ELSE parted
    /\ Return(q)
    /\ UNCHANGED <<db, deployments, versions, fence, history, faults, crashes>>

\* The region gets the components back that the request found when it began, and
\* that is too late when the application has gone on since: when the console has
\* another version, or another request is between its sync and its save.
LateUndo(q) ==
    \/ console # req[q].orig
    \/ \E p \in Requests : req[p].pc \in {"save", "restoreSave"}

\* rollback().
Undo(q) ==
    /\ req[q].pc = "undo"
    /\ region' = req[q].orig
    /\ parted' = IF LateUndo(q) /\ parted = {} THEN {"late"} ELSE parted
    /\ Return(q)
    /\ UNCHANGED <<db, deployments, console, fence, history, faults, crashes>>

UndoFails(q) ==
    /\ req[q].pc = "undo"
    /\ parted' = parted \cup {"undo"}
    /\ Return(q)
    /\ UNCHANGED <<db, deployments, versions, fence, history, faults, crashes>>

-----------------------------------------------------------------------------
(* POST .../rollback                                                       *)

\* can_rollback is asked of the loaded copy.
RestoreLoad(q, r) ==
    /\ Exists(r)
    /\ CanRollback(records[r])
    /\ FreeRecord
    /\ Start(q, "restoreConstruct", r, None, None)
    /\ UNCHANGED <<db, deployments, versions, fence, history, failures>>

\* A mutant of RestoreConstruct: nobody looks whether there is a snapshot.
RestoreConstructBlind(q) ==
    /\ req[q].pc = "restoreConstruct"
    /\ req' = [req EXCEPT ![q].pc = "restoreCancel", ![q].ver = req[q].obj.snap,
                          ![q].orig = console]
    /\ UNCHANGED <<db, deployments, versions, fence, history, failures>>

\* The constructor of AppRestore reads the installed application, and raises when
\* the record has no snapshot.
RestoreConstruct(q) ==
    /\ req[q].pc = "restoreConstruct"
    /\ IF req[q].obj.snap = None
       THEN Return(q)
       ELSE req' = [req EXCEPT ![q].pc = "restoreCancel", ![q].ver = req[q].obj.snap,
                               ![q].orig = console]
    /\ UNCHANGED <<db, deployments, versions, fence, history, failures>>

\* Whatever the snapshot row is at, a restore puts an end to it.
RestoreCancel(q) ==
    /\ req[q].pc = "restoreCancel"
    /\ \/ Fence!Cancel /\ Goto(q, "restoreSync") /\ UNCHANGED faults
       \/ Fault /\ Return(q) /\ UNCHANGED fence
    /\ UNCHANGED <<db, deployments, versions, history, parted, crashes>>

RestoreSync(q) ==
    /\ req[q].pc = "restoreSync"
    /\ region' = req[q].ver
    /\ Goto(q, "restoreSave")
    /\ UNCHANGED <<db, deployments, console, fence, history, failures>>

RestoreSyncFails(q) ==
    /\ req[q].pc = "restoreSync"
    /\ Fault
    /\ \/ UNCHANGED <<region, parted>>
       \/ /\ region' = req[q].ver
          /\ parted' = parted \cup {"sync"}
    /\ Return(q)
    /\ UNCHANGED <<db, deployments, console, fence, history, crashes>>

RestoreSave(q) ==
    /\ req[q].pc = "restoreSave"
    /\ console' = req[q].ver
    /\ Goto(q, "restoreRecord")
    /\ UNCHANGED <<db, deployments, region, fence, history, failures>>

RestoreSaveFails(q) ==
    /\ req[q].pc = "restoreSave"
    /\ Fault
    /\ Goto(q, "undo")
    /\ UNCHANGED <<db, deployments, versions, fence, history, parted, crashes>>

\* create_rollback_record: the versions and the snapshot are those of the copy
\* loaded when the request started.  From here on the rollback record is the
\* request's record.
RestoreRecord(q) ==
    LET rollback == [type    |-> "rollback",
                     status  |-> "ROLLING",
                     version |-> req[q].obj.old,
                     old     |-> req[q].obj.version,
                     snap    |-> req[q].obj.snap,
                     parent  |-> req[q].rec]
    IN  /\ req[q].pc = "restoreRecord"
        /\ RoomForRecord
        /\ Save(NewId, rollback)
        /\ req' = [req EXCEPT ![q].pc = "deploy", ![q].rec = NewId, ![q].obj = rollback]
        /\ UNCHANGED <<rows, deployments, versions, fence, history, failures>>

\* The application is already saved when the insert fails; only the region is
\* put back.
RestoreRecordFails(q) ==
    /\ req[q].pc = "restoreRecord"
    /\ Fault
    /\ parted' = parted \cup {"record"}
    /\ Goto(q, "undo")
    /\ UNCHANGED <<db, deployments, versions, fence, history, crashes>>

-----------------------------------------------------------------------------
(* Deployment, after an upgrade or a restore                               *)

\* The rows a request makes of its deployment.
Deployment(q) == {k \in RowIds : k[1] = req[q].rec /\ k[2] = req[q].n}

\* The region answers with an event per component it deploys ("running"); a
\* component whose action is NOTHING needs none, and one the answer leaves out
\* has none.
Deploy(q) ==
    /\ req[q].pc = "deploy"
    /\ RoomForBatch(req[q].rec)
    /\ \E fate \in [Components -> {"running", "needless", "none"}] :
        LET r == req[q].rec
            n == batches[r] + 1
        IN  /\ event' = [k \in RowIds |->
                           IF k[1] = r /\ k[2] = n THEN fate[k[3]] ELSE event[k]]
            /\ batches' = [batches EXCEPT ![r] = n]
            /\ req' = [req EXCEPT ![q].pc = "track", ![q].n = n]
    /\ UNCHANGED <<db, versions, fence, history, failures>>

\* The events are handed to the snapshot row; a failure to do so is only logged.
Track(q) ==
    /\ req[q].pc = "track"
    /\ \/ /\ Fence!Track([c \in Components |->
                 LET k == <<req[q].rec, req[q].n, c>>
                 IN  IF event[k] \in {"none", "needless"} THEN None ELSE k], TRUE)
          /\ UNCHANGED faults
       \/ Fault /\ UNCHANGED fence
    /\ Goto(q, "createRows")
    /\ UNCHANGED <<db, deployments, versions, history, parted, crashes>>

\* build and upgrade are two calls: the first may have started deployments.
\* AppUpgrade writes the record without its snapshot; AppRestore keeps it.
DeployFails(q) ==
    /\ req[q].pc = "deploy"
    /\ RoomForBatch(req[q].rec)
    /\ \E started \in SUBSET Components :
        LET r == req[q].rec
            n == batches[r] + 1
        IN  /\ event' = [k \in RowIds |->
                           IF k[1] = r /\ k[2] = n /\ k[3] \in started
                           THEN "running" ELSE event[k]]
            /\ batches' = [batches EXCEPT ![r] = n]
    /\ IF req[q].obj.type = "upgrade"
       THEN FailsWith(q, "cancel", Updated(q, "DEPLOY_FAILED", None))
       ELSE FailsWith(q, "fail", [req[q].obj EXCEPT !.status = "DEPLOY_FAILED"])
    /\ UNCHANGED <<db, versions, fence, history, parted, crashes>>

\* _create_component_record: one bulk insert.
CreateRows(q) ==
    LET type == req[q].obj.type
        mine == {k \in Deployment(q) : event[k] # "none"}
    IN  /\ req[q].pc = "createRows"
        /\ rows' = [k \in RowIds |->
                      IF k \notin mine THEN rows[k]
                      ELSE IF event[k] = "needless" THEN Succeeded(type)
                      ELSE InProgress(type)]
        /\ made' = made \cup mine
        /\ Return(q)
        /\ UNCHANGED <<records, latest, deployments, versions, fence, dropped, failures>>

-----------------------------------------------------------------------------
(* GET .../upgrade-records/<id>                                            *)

Poll(q, r) ==
    /\ Exists(r)
    /\ ~IsFinished(records[r])
    /\ Start(q, "fetchRows", r, None, None)
    /\ UNCHANGED <<db, deployments, versions, fence, history, failures>>

FetchRows(q) ==
    /\ req[q].pc = "fetchRows"
    /\ req' = [req EXCEPT ![q].pc = "fetchEvents", ![q].held = RowsOf(req[q].rec)]
    /\ UNCHANGED <<db, deployments, versions, fence, history, failures>>

\* The rows and the record are updated in memory.
FetchEvents(q) ==
    LET held == [k \in RowIds |-> Refreshed(req[q].held[k], event[k])]
    IN  /\ req[q].pc = "fetchEvents"
        /\ req' = [req EXCEPT ![q].pc = "saveRecord", ![q].held = held,
                              ![q].obj.status = Verdict(req[q].obj, held)]
        /\ UNCHANGED <<db, deployments, versions, fence, history, failures>>

FetchEventsFails(q) ==
    /\ req[q].pc = "fetchEvents"
    /\ Fault
    /\ Return(q)
    /\ UNCHANGED <<db, deployments, versions, fence, history, parted, crashes>>

SaveRecord(q) ==
    /\ req[q].pc = "saveRecord"
    /\ Save(req[q].rec, req[q].obj)
    /\ IF Present(req[q].held) = {} THEN Return(q) ELSE Goto(q, "deleteRows")
    /\ UNCHANGED <<rows, deployments, versions, fence, history, failures>>

\* A mutant of DeleteRows: only the rows still under way are replaced.
DeleteRowsUnfinished(q) ==
    /\ req[q].pc = "deleteRows"
    /\ rows' = [k \in RowIds |-> IF req[q].held[k] \in UnfinishedStatus THEN None ELSE rows[k]]
    /\ Goto(q, "insertRows")
    /\ UNCHANGED <<records, latest, deployments, versions, fence, history, failures>>

\* bulk_update is a delete followed by an insert of the copies, each committed
\* on its own.
DeleteRows(q) ==
    /\ req[q].pc = "deleteRows"
    /\ rows' = [k \in RowIds |-> IF k \in Present(req[q].held) THEN None ELSE rows[k]]
    /\ Goto(q, "insertRows")
    /\ UNCHANGED <<records, latest, deployments, versions, fence, history, failures>>

\* A mutant of InsertRows: only the rows that have finished come back.
InsertRowsFinished(q) ==
    /\ req[q].pc = "insertRows"
    /\ rows' = [k \in RowIds |-> IF req[q].held[k] \in UnfinishedStatus \cup {None}
                                 THEN rows[k] ELSE req[q].held[k]]
    /\ Return(q)
    /\ UNCHANGED <<records, latest, deployments, versions, fence, history, failures>>

\* A primary key that is back in the table makes the whole insert fail.
InsertRows(q) ==
    /\ req[q].pc = "insertRows"
    /\ rows' = IF Present(req[q].held) \cap Present(rows) = {}
               THEN [k \in RowIds |->
                       IF k \in Present(req[q].held) THEN req[q].held[k] ELSE rows[k]]
               ELSE rows
    /\ Return(q)
    /\ UNCHANGED <<records, latest, deployments, versions, fence, history, failures>>

-----------------------------------------------------------------------------
(* POST .../deploy and GET .../upgrade-records                             *)

RetryLoad(q, r) ==
    /\ Exists(r)
    /\ CanDeploy(records[r])
    /\ Start(q, "retry", r, None, None)
    /\ UNCHANGED <<db, deployments, versions, fence, history, failures>>

\* The component records whose deployment is repeated.
RetryTargets(r) ==
    {k \in RowIds : k[1] = r /\ rows[k] \in
        {"PARTIAL_UPGRADED", "PARTIAL_ROLLBACK", "DEPLOY_FAILED"}}

Retry(q) ==
    LET again == RetryTargets(req[q].rec)
        status == InProgress(req[q].obj.type)
    IN  /\ req[q].pc = "retry"
        /\ event' = [k \in RowIds |-> IF k \in again THEN "running" ELSE event[k]]
        /\ Save(req[q].rec, [req[q].obj EXCEPT !.status = status])
        /\ rows' = [k \in RowIds |-> IF k \in again THEN status ELSE rows[k]]
        /\ Return(q)
        /\ UNCHANGED <<batches, versions, fence, history, failures>>

RetryFails(q) ==
    /\ req[q].pc = "retry"
    /\ Fault
    /\ Save(req[q].rec, [req[q].obj EXCEPT !.status = "DEPLOY_FAILED"])
    /\ Return(q)
    /\ UNCHANGED <<rows, deployments, versions, fence, history, parted, crashes>>

\* sync_unfinished_records tests the bound method record.is_finished, which is
\* true whatever the record's status.
IsFinishedAttribute(rec) == TRUE

\* The page, newest first, without the records that have not started.
Listed == {r \in Existing : records[r].status # "NOT"}

Unsynced == {r \in Listed : ~IsFinishedAttribute(records[r])}

List(q) ==
    /\ Listed # {}
    /\ IF Unsynced = {}
       THEN Start(q, "listed", NoId, None, None)
       ELSE Start(q, "fetchRows", CHOOSE r \in Unsynced : \A s \in Unsynced : s <= r,
                  None, None)
    /\ UNCHANGED <<db, deployments, versions, fence, history, failures>>

ListReturn(q) ==
    /\ req[q].pc = "listed"
    /\ Return(q)
    /\ UNCHANGED <<db, deployments, versions, fence, history, failures>>

-----------------------------------------------------------------------------
(* The world around the requests                                           *)

\* A worker dies between two calls; nothing restarts its request.
Crash(q) ==
    /\ req[q].pc # "idle"
    /\ crashes < MaxCrashes
    /\ crashes' = crashes + 1
    /\ dropped' = IF req[q].pc = "insertRows"
                  THEN dropped \cup Present(req[q].held) ELSE dropped
    /\ parted' = IF req[q].pc \in {"save", "cancelUndo", "failUndo", "undo", "restoreSave"}
                 THEN parted \cup {"crash"} ELSE parted
    /\ Return(q)
    /\ UNCHANGED <<db, deployments, versions, fence, made, faults>>

\* The region finishes a deployment.
EventEnds(k) ==
    /\ event[k] = "running"
    /\ \E outcome \in {"success", "failure", "timeout"} :
          event' = [event EXCEPT ![k] = outcome]
    /\ UNCHANGED <<db, batches, versions, fence, req, history, failures>>

SnapshotWorker ==
    /\ Fence!Settle
    /\ UNCHANGED <<db, deployments, versions, req, history, failures>>

\* The 20-minute deadline passes.  Under a request that still needs its claim
\* that is a fault.
FenceExpires ==
    /\ Fence!Expire
    /\ IF \E q \in Requests : req[q].pc \in Claiming
       THEN Fault /\ parted' = parted \cup {"deadline"}
       ELSE UNCHANGED <<faults, parted>>
    /\ UNCHANGED <<db, deployments, versions, req, history, crashes>>

-----------------------------------------------------------------------------
Init ==
    /\ records = [r \in RecordIds |-> None]
    /\ latest = NoId
    /\ rows = NoRows
    /\ batches = [r \in RecordIds |-> 0]
    /\ event = [k \in RowIds |-> "none"]
    /\ console = Initial
    /\ region = Initial
    /\ fence = Fence!NoRow
    /\ req = [q \in Requests |-> Idle]
    /\ made = {}
    /\ dropped = {}
    /\ parted = {}
    /\ faults = 0
    /\ crashes = 0

Upgrading(q) ==
    \/ Construct(q)
    \/ Publish(q) \/ PublishUnconfirmed(q) \/ PublishRefused(q)
    \/ SyncNewApp(q) \/ SyncNewAppFails(q)
    \/ SaveApp(q) \/ SaveAppFails(q) \/ DiskPluginFails(q)
    \/ Undo(q) \/ UndoFails(q)

Failing(q) == Cancel(q) \/ RecordFailure(q) \/ RecordFailureFails(q)

Restoring(q) ==
    \/ RestoreConstruct(q) \/ RestoreCancel(q)
    \/ RestoreSync(q) \/ RestoreSyncFails(q)
    \/ RestoreSave(q) \/ RestoreSaveFails(q)
    \/ RestoreRecord(q) \/ RestoreRecordFails(q)

Deploying(q) ==
    \/ Deploy(q) \/ DeployFails(q) \/ Track(q) \/ CreateRows(q)
    \/ Retry(q) \/ RetryFails(q)

Syncing(q) ==
    \/ FetchRows(q)
    \/ FetchEvents(q) \/ FetchEventsFails(q)
    \/ SaveRecord(q) \/ DeleteRows(q) \/ InsertRows(q)
    \/ ListReturn(q)

Starting(q) ==
    \/ "create" \in Kinds /\ CreateRead(q)
    \/ "upgrade" \in Kinds /\ \E r \in RecordIds, v \in Targets : UpgradeLoad(q, r, v)
    \/ "component" \in Kinds /\ UpgradeComponentLoad(q)
    \/ "restore" \in Kinds /\ \E r \in RecordIds : RestoreLoad(q, r)
    \/ "retry" \in Kinds /\ \E r \in RecordIds : RetryLoad(q, r)
    \/ "poll" \in Kinds /\ \E r \in RecordIds : Poll(q, r)
    \/ "list" \in Kinds /\ List(q)

Continuing(q) ==
    \/ CreateInsert(q) \/ Upgrading(q) \/ Failing(q) \/ Restoring(q)
    \/ Deploying(q) \/ Syncing(q)

Next ==
    \/ \E q \in Requests : Starting(q) \/ Continuing(q) \/ Crash(q)
    \/ \E k \in RowIds : EventEnds(k)
    \/ SnapshotWorker \/ FenceExpires

Spec == Init /\ [][Next]_vars

-----------------------------------------------------------------------------
(* Fairness                                                                *)

\* A handler that has started runs to its end (Crash and the faults aside): in
\* every phase one of these steps is enabled.
HandlerStep(q) ==
    \/ CreateInsert(q)
    \/ Construct(q) \/ Publish(q) \/ PublishRefused(q) \/ SyncNewApp(q) \/ SaveApp(q)
    \/ Cancel(q) \/ RecordFailure(q) \/ Undo(q)
    \/ RestoreConstruct(q) \/ RestoreCancel(q)
    \/ RestoreSync(q) \/ RestoreSave(q) \/ RestoreRecord(q)
    \/ Deploy(q) \/ Track(q) \/ CreateRows(q) \/ Retry(q)
    \/ FetchRows(q) \/ FetchEvents(q) \/ SaveRecord(q)
    \/ DeleteRows(q) \/ InsertRows(q) \/ ListReturn(q)

\* Handlers end, the region finishes every deployment, the worker thread visits
\* the row every ten seconds.
SystemFairness ==
    /\ \A q \in Requests : WF_vars(HandlerStep(q))
    /\ \A k \in RowIds : WF_vars(EventEnds(k))
    /\ WF_vars(SnapshotWorker \/ FenceExpires)

\* The page of a record keeps asking for it, whatever else the workers do.
PolledSpec ==
    Spec /\ SystemFairness
    /\ \A r \in RecordIds : SF_vars(\E q \in Requests : Poll(q, r))

-----------------------------------------------------------------------------
(* Properties                                                              *)

Partings == {"sync", "undo", "late", "plugin", "record", "crash", "deadline"}

\* Every variable has the shape the tables and handlers give it.
TypeOK ==
    /\ records \in [RecordIds -> Record \cup {None}]
    /\ latest \in RecordIds \cup {NoId}
    /\ latest # NoId => Exists(latest)
    /\ rows \in [RowIds -> UpgradeStatus \cup {None}]
    /\ batches \in [RecordIds -> 0 .. MaxBatches]
    /\ event \in [RowIds -> {"none", "needless", "running",
                             "success", "failure", "timeout"}]
    /\ console \in Versions
    /\ region \in Versions
    /\ fence \in Fence!Row
    /\ req \in [Requests -> Request]
    /\ made \subseteq RowIds
    /\ dropped \subseteq RowIds
    /\ parted \subseteq Partings
    /\ faults \in 0 .. MaxFaults
    /\ crashes \in 0 .. MaxCrashes

FamilyOf(type) ==
    IF type = "upgrade"
    THEN {"NOT", "UPGRADING", "UPGRADED", "PARTIAL_UPGRADED", "UPGRADE_FAILED",
          "DEPLOY_FAILED"}
    ELSE {"ROLLING", "ROLLBACK", "PARTIAL_ROLLBACK", "ROLLBACK_FAILED", "DEPLOY_FAILED"}

\* A component record says what the region said: it is reported done only when
\* its deployment succeeded, timed out or was not needed, and failed only when
\* it failed, although every poll writes back statuses it computed from rows
\* and events read earlier.
RowTruth ==
    \A k \in RowIds :
        /\ rows[k] \in {"UPGRADED", "ROLLBACK"}
              => event[k] \in {"success", "timeout", "needless"}
        /\ rows[k] \in {"UPGRADE_FAILED", "ROLLBACK_FAILED"} => event[k] = "failure"

\* Rows of a deployment that a poll has deleted are in the hands of a request
\* that is about to insert them again; only a worker that dies there loses
\* them, however many polls overlap - unless two upgrades that both loaded the
\* record as new have deployed it twice.  Then a poll that knows one deployment
\* can make the insert of a poll that knows both collide, and it is dropped whole.
RowsNotLost ==
    \A k \in made : rows[k] = None =>
        \/ k \in dropped
        \/ \E q \in Requests : req[q].pc = "insertRows" /\ req[q].held[k] # None
        \/ \E j \in made : j[1] = k[1] /\ j[2] # k[2]

\* Overlapping polls never tear a deployment apart: its rows are in the table
\* all together or not at all.
BatchesWhole ==
    \A j, k \in made : j[1] = k[1] /\ j[2] = k[2] => (rows[j] = None <=> rows[k] = None)

\* A record is reported fully upgraded or rolled back only when some complete
\* deployment of it succeeded in every component that has a record.
VerdictEarned ==
    \A r \in Existing : records[r].status \in {"UPGRADED", "ROLLBACK"} =>
        \E n \in 1 .. MaxBatches :
            LET batch == {k \in made : k[1] = r /\ k[2] = n}
            IN  batch # {} /\ \A k \in batch : event[k] \in {"success", "timeout", "needless"}

\* A record never carries a status of the other kind of record, although every
\* save writes a whole record read earlier.
StatusFamily ==
    \A r \in Existing : records[r].status \in FamilyOf(records[r].type)

AllIdle == \A q \in Requests : req[q].pc = "idle"

\* When no request is under way the region runs the version the console shows.
\* The failures of which nothing in the code makes good are excused: sync_new_app
\* raised after it had changed something, or its answer was lost (sync); rollback()
\* raised (undo) or came late; the plugin failed or the record of a restore or of a
\* failure was not saved, for which the region alone is put back or nothing at all
\* (plugin, record); a worker died in between (crash); or the deadline opened the
\* snapshot row under its holder.  Where no snapshot row keeps overlapping upgrades
\* apart, or restores step in, it holds of requests that come one at a time.
Converged == AllIdle /\ parted = {} => region = console

\* An upgrade that has claimed the snapshot row is alone between its claim and
\* what ends it, however many are asked for at once, unless the deadline of the row
\* passed under it.  Restores do not ask for the row.
OneClaims ==
    \A p, q \in Requests :
        /\ FenceSupported /\ "restore" \notin Kinds /\ "deadline" \notin parted
        /\ req[p].pc \in Claiming /\ req[q].pc \in Claiming
        => p = q

\* When no request is under way and none was cut short, a finished record has no
\* component record still under way.
FinishedMeansFinished ==
    AllIdle /\ crashes = 0 =>
        \A r \in Existing : IsFinished(records[r]) =>
            \A k \in RowIds : k[1] = r => rows[k] \notin UnfinishedStatus

\* A record that has been started and is polled reaches a final status.
EventuallyFinished ==
    \A r \in RecordIds :
        Exists(r) /\ records[r].status \in {"UPGRADING", "ROLLING"}
            ~> Exists(r) /\ IsFinished(records[r])
=============================================================================
