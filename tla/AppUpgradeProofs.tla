-------------------------- MODULE AppUpgradeProofs --------------------------
(***************************************************************************)
(* Theorems about AppUpgrade, for any requests, components and versions    *)
(* and for any bounds.                                                     *)
(***************************************************************************)
EXTENDS AppUpgrade, TLAPS

USE ConstantsAssumption, NoneAssumption DEF NoId

-----------------------------------------------------------------------------
(* Types                                                                   *)

\* Phases in which a request certainly has a record.
Working == Phase \ {"idle", "insert", "publish", "listed"}

\* Phases that still use the versions the request is between.
MovingPhase == {"sync", "save", "deploy", "cancelUndo", "failUndo", "undo",
                "restoreCancel", "restoreSync", "restoreSave", "restoreRecord"}

\* TypeOK allows None in the fields of a request; a handler that uses a field
\* has set it.
Loaded(x, existing) ==
    LET published == x.pc = "publish" /\ x.obj # None
    IN  /\ x.pc \in Working \/ published => x.obj \in Record /\ x.rec \in existing
        /\ x.pc \in MovingPhase \/ published => x.ver \in Versions /\ x.orig \in Versions
        /\ x.pc = "construct" => x.ver \in Versions
        /\ x.pc = "track" => x.n # 0

AllLoaded == \A q \in Requests : Loaded(req[q], Existing)

\* Records are never deleted, so their ids leave no gap.
NoGap == \E n \in 0 .. MaxRecords : Existing = 1 .. n

TypeInv == TypeOK /\ AllLoaded /\ NoGap

\* TypeOK in the parts a step disturbs one at a time.
RecordsOK ==
    /\ records \in [RecordIds -> Record \cup {None}]
    /\ latest \in RecordIds \cup {NoId}
    /\ latest # NoId => Exists(latest)
    /\ NoGap

RequestsOK == req \in [Requests -> Request] /\ AllLoaded

WorldOK ==
    /\ rows \in [RowIds -> UpgradeStatus \cup {None}]
    /\ batches \in [RecordIds -> 0 .. MaxBatches]
    /\ event \in [RowIds -> {"none", "needless", "running",
                             "success", "failure", "timeout"}]
    /\ console \in Versions
    /\ region \in Versions
    /\ fence \in Fence!Row
    /\ made \subseteq RowIds
    /\ dropped \subseteq RowIds
    /\ parted \subseteq Partings
    /\ faults \in 0 .. MaxFaults
    /\ crashes \in 0 .. MaxCrashes

\* The parts make up the whole, before a step and after it.
LEMMA TypeParts ==
    /\ TypeInv => RecordsOK /\ RequestsOK /\ WorldOK
    /\ RecordsOK' /\ RequestsOK' /\ WorldOK' => TypeInv'
BY DEF TypeInv, TypeOK, RecordsOK, RequestsOK, WorldOK

\* The id of the next record is free, and follows the last one.
LEMMA NewIdIsFree ==
    ASSUME NoGap, RoomForRecord
    PROVE  /\ NewId \in RecordIds
           /\ ~Exists(NewId)
           /\ Existing \cup {NewId} = 1 .. NewId
<1>1. PICK n \in 0 .. MaxRecords : Existing = 1 .. n
  BY DEF NoGap
<1>2. n + 1 \in RecordIds \ Existing /\ 1 .. (n + 1) - 1 \subseteq Existing
  BY <1>1 DEF RoomForRecord, RecordIds
<1>3. /\ NewId \in RecordIds \ Existing
      /\ 1 .. (NewId - 1) \subseteq Existing
  BY <1>2 DEF NewId
<1>4. NewId = n + 1
  BY <1>1, <1>3 DEF RecordIds
<1> QED  BY <1>1, <1>3, <1>4 DEF Existing

\* A step of one request keeps the requests well-formed when what it leaves
\* behind is, and no record disappears.
LEMMA RequestStep ==
    ASSUME TypeInv, NEW q \in Requests, NEW x \in Request,
           req' = [req EXCEPT ![q] = x],
           Existing \subseteq Existing',
           Loaded(x, Existing')
    PROVE  RequestsOK'
<1>1. req \in [Requests -> Request]
  BY DEF TypeInv, TypeOK
<1>2. ASSUME NEW p \in Requests PROVE Loaded(req'[p], Existing')
  <2>1. CASE p = q
    BY <2>1, <1>1
  <2>2. CASE p # q
    <3>1. Loaded(req[p], Existing) /\ req'[p] = req[p]
      BY <2>2, <1>1 DEF TypeInv, AllLoaded
    <3> QED  BY <3>1 DEF Loaded
  <2> QED  BY <2>1, <2>2
<1> QED  BY <1>1, <1>2 DEF AllLoaded, RequestsOK

\* Idle requests are well-formed whatever the records are.
LEMMA IdleLoaded == Idle \in Request /\ Loaded(Idle, Existing')
<1>1. NoRows \in [RowIds -> UpgradeStatus \cup {None}]
  BY DEF NoRows
<1>2. Idle \in Request
  BY <1>1 DEF Idle, Request, Phase
<1> QED  BY <1>2 DEF Idle, Loaded, Working, MovingPhase

\* Saving a record.
LEMMA SaveStep ==
    ASSUME TypeInv, NEW r \in RecordIds, NEW rec \in Record, Save(r, rec)
    PROVE  /\ records' \in [RecordIds -> Record \cup {None}]
           /\ latest' \in RecordIds \cup {NoId} /\ Exists(latest)'
           /\ Existing' = Existing \cup {r}
<1>1. records \in [RecordIds -> Record \cup {None}]
  BY DEF TypeInv, TypeOK
<1>2. records'[r] = rec /\ rec # None
  BY <1>1 DEF Save
<1>3. Existing' = Existing \cup {r}
  BY <1>1, <1>2 DEF Save, Existing, Exists
<1> QED  BY <1>1, <1>2, <1>3 DEF Save, Exists

\* Saving a record that exists.
LEMMA SaveKept ==
    ASSUME TypeInv, NEW r \in RecordIds, NEW rec \in Record, Save(r, rec),
           r \in Existing
    PROVE  RecordsOK' /\ Existing' = Existing
<1>1. Existing' = Existing
  BY SaveStep
<1>2. NoGap'
  BY <1>1 DEF TypeInv, NoGap
<1> QED  BY <1>1, <1>2, SaveStep DEF RecordsOK

\* Saving a new record under the next id.
LEMMA SaveNew ==
    ASSUME TypeInv, NEW rec \in Record, Save(NewId, rec), RoomForRecord
    PROVE  RecordsOK' /\ Existing' = Existing \cup {NewId}
<1>1. NewId \in RecordIds /\ Existing \cup {NewId} = 1 .. NewId
  BY NewIdIsFree DEF TypeInv
<1>2. Existing' = Existing \cup {NewId}
  BY <1>1, SaveStep
<1>3. NoGap'
  BY <1>1, <1>2 DEF NoGap, RecordIds
<1> QED  BY <1>1, <1>2, <1>3, SaveStep DEF RecordsOK

\* The operations on the automatic-snapshot row keep its shape.
LEMMA FenceStep ==
    ASSUME fence \in Fence!Row
    PROVE  /\ Fence!Cancel => fence' \in Fence!Row
           /\ Fence!Expire => fence' \in Fence!Row
           /\ Fence!Settle => fence' \in Fence!Row
           /\ Fence!BeforeUpgrade => fence' \in Fence!Row
           /\ \A events \in Fence!EventMap, upgrade \in BOOLEAN :
                 Fence!Track(events, upgrade) => fence' \in Fence!Row
<1>1. Fence!NoEvents \in Fence!EventMap
  BY DEF Fence!NoEvents, Fence!EventMap
<1>2. \A status \in Fence!SnapshotStatus : Fence!Finish(status) => fence' \in Fence!Row
  BY <1>1 DEF Fence!Finish, Fence!Row
<1>3. /\ Fence!Cancel => fence' \in Fence!Row
      /\ Fence!Expire => fence' \in Fence!Row
      /\ Fence!Settle => fence' \in Fence!Row
  BY <1>2 DEF Fence!Cancel, Fence!Expire, Fence!Settle, Fence!SnapshotStatus
<1>4. Fence!BeforeUpgrade => fence' \in Fence!Row
  BY <1>1 DEF Fence!BeforeUpgrade, Fence!Row, Fence!SnapshotStatus
<1>5. ASSUME NEW events \in Fence!EventMap, NEW upgrade \in BOOLEAN,
             Fence!Track(events, upgrade)
      PROVE  fence' \in Fence!Row
  <2>1. Fence!Merged(events) \in Fence!EventMap
    BY DEF Fence!Merged, Fence!EventMap, Fence!Row
  <2> QED
    BY <1>3, <1>5, <2>1 DEF Fence!Track, Fence!Row, Fence!SnapshotStatus
<1> QED  BY <1>3, <1>4, <1>5

\* A step that leaves the records alone.
LEMMA RecordsKept ==
    ASSUME TypeInv, UNCHANGED <<records, latest>>
    PROVE  RecordsOK' /\ Existing' = Existing
BY DEF TypeInv, TypeOK, RecordsOK, Existing, Exists, NoGap

\* A request that returns.
LEMMA ReturnStep ==
    ASSUME TypeInv, NEW q \in Requests, Return(q), Existing \subseteq Existing'
    PROVE  RequestsOK'
BY IdleLoaded, RequestStep DEF Return

\* A request that goes on with what it has.
LEMMA GotoStep ==
    ASSUME TypeInv, NEW q \in Requests, NEW pc \in Phase, Goto(q, pc),
           Existing \subseteq Existing',
           pc \notin {"construct", "publish", "track"},
           \/ pc \in Working => req[q].pc \in Working
           \/ req[q].pc = "publish" /\ req[q].obj # None,
           \/ pc \in MovingPhase => req[q].pc \in MovingPhase
           \/ req[q].pc = "publish" /\ req[q].obj # None
    PROVE  RequestsOK'
<1> DEFINE x == [req[q] EXCEPT !.pc = pc]
<1>1. req[q] \in Request /\ Loaded(req[q], Existing)
  BY DEF TypeInv, TypeOK, AllLoaded
<1>2. x \in Request
  BY <1>1 DEF Request
<1>3. Loaded(x, Existing')
  BY <1>1 DEF Loaded, Request
<1>4. req' = [req EXCEPT ![q] = x]
  BY DEF Goto
<1> HIDE DEF x
<1> QED  BY <1>2, <1>3, <1>4, RequestStep

\* A request that starts.
LEMMA StartStep ==
    ASSUME TypeInv, NEW q \in Requests, NEW pc \in Phase,
           NEW r \in Existing \cup {NoId},
           NEW ver \in Versions \cup {None}, NEW orig \in Versions \cup {None},
           Start(q, pc, r, ver, orig),
           Existing \subseteq Existing',
           pc \in Working => r # NoId,
           pc \notin MovingPhase \cup {"track"}, r # NoId => pc # "publish",
           pc = "construct" => ver \in Versions
    PROVE  RequestsOK'
<1> DEFINE x == [pc |-> pc, rec |-> r, obj |-> IF r = NoId THEN None ELSE records[r],
                 ver |-> ver, orig |-> orig, n |-> 0, held |-> NoRows]
<1>1. r # NoId => r \in RecordIds /\ records[r] \in Record
  BY DEF TypeInv, TypeOK, Existing, Exists
<1>2. NoRows \in [RowIds -> UpgradeStatus \cup {None}]
  BY DEF NoRows
<1>3. x \in Request
  BY <1>1, <1>2 DEF Request
<1>4. Loaded(x, Existing')
  BY <1>1 DEF Loaded, Working, MovingPhase
<1>5. req' = [req EXCEPT ![q] = x]
  BY DEF Start
<1> HIDE DEF x
<1> QED  BY <1>3, <1>4, <1>5, RequestStep

\* Opening a record keeps the types.
LEMMA CreateTypes ==
    ASSUME TypeInv, NEW q \in Requests, CreateRead(q) \/ CreateInsert(q)
    PROVE  TypeInv'
<1> USE DEF db, deployments, versions, history, failures
<1>1. CASE CreateRead(q)
  <2>1. RecordsOK' /\ Existing' = Existing
    BY <1>1, RecordsKept DEF CreateRead
  <2>2. RequestsOK'
    BY <1>1, <2>1, StartStep
    DEF CreateRead, TypeInv, TypeOK, Phase, Working, MovingPhase
  <2>3. WorldOK'
    BY TypeParts, <1>1 DEF CreateRead, WorldOK
  <2> QED  BY <2>1, <2>2, <2>3, TypeParts
<1>2. CASE CreateInsert(q)
  <2> DEFINE rec == [type |-> "upgrade", status |-> "NOT", version |-> None,
                     old |-> req[q].orig, snap |-> None, parent |-> NoId]
  <2>1. rec \in Record
    BY DEF TypeInv, TypeOK, Record, Request, UpgradeStatus
  <2>2. Save(NewId, rec) /\ NewId \in RecordIds /\ RoomForRecord
    BY <1>2, NewIdIsFree DEF CreateInsert, TypeInv
  <2> HIDE DEF rec
  <2>3. RecordsOK' /\ Existing \subseteq Existing'
    BY <2>1, <2>2, SaveNew
  <2>4. RequestsOK'
    BY <1>2, <2>3, ReturnStep DEF CreateInsert
  <2>5. WorldOK'
    BY TypeParts, <1>2 DEF CreateInsert, WorldOK
  <2> QED  BY <2>3, <2>4, <2>5, TypeParts
<1> QED  BY <1>1, <1>2

\* What a handler finds in its request.
LEMMA RequestFields ==
    ASSUME TypeInv, NEW q \in Requests
    PROVE  /\ req[q] \in Request
           /\ \/ req[q].pc \in Working
              \/ req[q].pc = "publish" /\ req[q].obj # None
              => /\ req[q].obj \in Record
                 /\ req[q].rec \in RecordIds /\ req[q].rec \in Existing
           /\ \/ req[q].pc \in MovingPhase
              \/ req[q].pc = "publish" /\ req[q].obj # None
              => req[q].ver \in Versions /\ req[q].orig \in Versions
           /\ req[q].pc = "construct" => req[q].ver \in Versions
           /\ req[q].pc = "track" => req[q].n \in 1 .. MaxBatches
<1>1. req[q] \in Request /\ Loaded(req[q], Existing)
  BY DEF TypeInv, TypeOK, AllLoaded
<1>2. req[q].pc = "track" => req[q].n \in 1 .. MaxBatches
  BY <1>1 DEF Loaded, Request
<1> QED  BY <1>1, <1>2 DEF Loaded, Existing

\* A record with a new status and snapshot is a record.
LEMMA UpdatedType ==
    ASSUME NEW q \in Requests, req[q] \in Request, req[q].obj \in Record,
           NEW status \in UpgradeStatus, NEW snap \in Versions \cup {None}
    PROVE  Updated(q, status, snap) \in Record
BY DEF Updated, Record, Request

\* A request that fails goes on with a copy that is a record.
LEMMA FailsStep ==
    ASSUME TypeInv, NEW q \in Requests, req[q].pc \in MovingPhase,
           NEW pc \in {"cancel", "fail", "cancelUndo"}, NEW obj \in Record,
           FailsWith(q, pc, obj), Existing \subseteq Existing'
    PROVE  RequestsOK' /\ faults' \in 0 .. MaxFaults
<1> DEFINE x == [req[q] EXCEPT !.pc = pc, !.obj = obj]
<1>1. /\ req[q] \in Request /\ Loaded(req[q], Existing)
      /\ req \in [Requests -> Request] /\ faults \in 0 .. MaxFaults
  BY DEF TypeInv, TypeOK, AllLoaded
<1>2. x \in Request
  BY <1>1 DEF Request, Phase
<1>3. Loaded(x, Existing')
  BY <1>1 DEF Loaded, Request, Working, MovingPhase, Phase
<1>4. req' = [req EXCEPT ![q] = x]
  BY <1>1 DEF FailsWith
<1>5. faults' \in 0 .. MaxFaults
  BY <1>1 DEF FailsWith, Fault
<1> HIDE DEF x
<1> QED  BY <1>2, <1>3, <1>4, <1>5, RequestStep

\* Reading the installed application keeps the types.
LEMMA ConstructTypes ==
    ASSUME TypeInv, NEW q \in Requests, Construct(q) \/ RestoreConstruct(q)
    PROVE  TypeInv'
<1> USE DEF db, deployments, versions, history, failures
<1>1. RecordsOK' /\ Existing' = Existing
  BY RecordsKept DEF Construct, RestoreConstruct
<1>2. /\ req[q] \in Request /\ req \in [Requests -> Request]
      /\ Loaded(req[q], Existing) /\ console \in Versions
  BY DEF TypeInv, TypeOK, AllLoaded
<1>3. CASE Construct(q)
  <2> DEFINE x == [req[q] EXCEPT !.pc = "publish", !.orig = console]
  <2>1. x \in Request /\ Loaded(x, Existing')
    BY <1>1, <1>2, <1>3 DEF Construct, Loaded, Request, Working, MovingPhase, Phase
  <2>2. req' = [req EXCEPT ![q] = x]
    BY <1>2, <1>3 DEF Construct
  <2> HIDE DEF x
  <2>3. RequestsOK'
    BY <1>1, <2>1, <2>2, RequestStep
  <2>4. WorldOK'
    BY <1>3, TypeParts DEF Construct, WorldOK
  <2> QED  BY <1>1, <2>3, <2>4, TypeParts
<1>4. CASE RestoreConstruct(q)
  <2> DEFINE x == [req[q] EXCEPT !.pc = "restoreCancel", !.ver = req[q].obj.snap,
                                 !.orig = console]
  <2>1. WorldOK'
    BY <1>4, TypeParts DEF RestoreConstruct, WorldOK
  <2>2. CASE req[q].obj.snap = None
    <3>1. RequestsOK'
      BY <1>1, <1>4, <2>2, ReturnStep DEF RestoreConstruct
    <3> QED  BY <1>1, <2>1, <3>1, TypeParts
  <2>3. CASE req[q].obj.snap # None
    <3>1. req[q].obj \in Record /\ req[q].obj.snap \in Versions
      BY <1>2, <1>4, <2>3 DEF RestoreConstruct, Loaded, Working, Phase, Record
    <3>2. x \in Request /\ Loaded(x, Existing')
      BY <1>1, <1>2, <1>4, <3>1
      DEF RestoreConstruct, Loaded, Request, Working, MovingPhase, Phase
    <3>3. req' = [req EXCEPT ![q] = x]
      BY <1>2, <1>4, <2>3 DEF RestoreConstruct
    <3> HIDE DEF x
    <3>4. RequestsOK'
      BY <1>1, <3>2, <3>3, RequestStep
    <3> QED  BY <1>1, <2>1, <3>4, TypeParts
  <2> QED  BY <2>2, <2>3
<1> QED  BY <1>3, <1>4

\* An upgrade that loads its record keeps the types.
LEMMA UpgradeLoadTypes ==
    ASSUME TypeInv, NEW q \in Requests,
           \/ \E r \in RecordIds, v \in Targets : UpgradeLoad(q, r, v)
           \/ UpgradeComponentLoad(q)
    PROVE  TypeInv'
<1> USE DEF db, deployments, versions, history, failures
<1>1. ASSUME NEW r \in RecordIds, NEW v \in Targets, UpgradeLoad(q, r, v)
      PROVE  TypeInv'
  <2>1. RecordsOK' /\ Existing' = Existing
    BY <1>1, RecordsKept DEF UpgradeLoad
  <2>2. RequestsOK'
    <3>1. r \in Existing /\ r # NoId /\ v \in Versions
      BY <1>1 DEF UpgradeLoad, Existing, RecordIds
    <3> QED  BY <1>1, <2>1, <3>1, StartStep DEF UpgradeLoad, Phase, MovingPhase
  <2>3. WorldOK'
    BY TypeParts, <1>1 DEF UpgradeLoad, WorldOK
  <2> QED  BY <2>1, <2>2, <2>3, TypeParts
<1>2. CASE UpgradeComponentLoad(q)
  <2>1. RecordsOK' /\ Existing' = Existing
    BY <1>2, RecordsKept DEF UpgradeComponentLoad
  <2>2. RequestsOK'
    BY <1>2, <2>1, StartStep DEF UpgradeComponentLoad, Phase, Working, MovingPhase
  <2>3. WorldOK'
    BY TypeParts, <1>2 DEF UpgradeComponentLoad, WorldOK
  <2> QED  BY <2>1, <2>2, <2>3, TypeParts
<1> QED  BY <1>1, <1>2

\* Publishing the copy of the record keeps the types.
LEMMA PublishTypes ==
    ASSUME TypeInv, NEW q \in Requests,
           Publish(q) \/ PublishUnconfirmed(q) \/ PublishRefused(q)
    PROVE  TypeInv'
<1> USE DEF db, deployments, versions, history, failures
<1>1. CASE Publish(q) \/ PublishUnconfirmed(q)
  <2> DEFINE r == req[q].rec
             rec == [records[r] EXCEPT !.status = "UPGRADING", !.version = req[q].ver]
  <2>0. Published(q)
    BY <1>1 DEF Publish, PublishUnconfirmed
  <2>1. r \in RecordIds /\ r \in Existing /\ req[q].ver \in Versions
    BY <2>0, RequestFields DEF Published
  <2>2. records[r] \in Record
    BY <2>1 DEF TypeInv, TypeOK, Existing, Exists
  <2>3. rec \in Record /\ rec # None
    BY <2>1, <2>2, ZenonT(60) DEF Record, UpgradeStatus
  <2>4. records' = [records EXCEPT ![r] = rec]
    BY <2>0, <2>1 DEF Published, TypeInv, TypeOK
  <2> HIDE DEF rec
  <2>5. RecordsOK' /\ Existing' = Existing
    BY <2>0, <2>1, <2>3, <2>4
    DEF Published, RecordsOK, TypeInv, TypeOK, Existing, Exists, NoGap
  <2>6. RequestsOK'
    <3>1. CASE Publish(q)
      BY <2>5, <3>1, GotoStep DEF Publish, Published, Phase, Working, MovingPhase
    <3>2. CASE PublishUnconfirmed(q)
      BY <2>5, <3>2, ReturnStep DEF PublishUnconfirmed
    <3> QED  BY <1>1, <3>1, <3>2
  <2>7. WorldOK'
    BY TypeParts, <1>1, <2>0, FenceStep
    DEF Publish, PublishUnconfirmed, Published, WorldOK, Fault
  <2> QED  BY <2>5, <2>6, <2>7, TypeParts
<1>2. CASE PublishRefused(q)
  <2>1. RecordsOK' /\ Existing' = Existing
    BY <1>2, RecordsKept DEF PublishRefused
  <2>2. RequestsOK'
    BY <1>2, <2>1, ReturnStep DEF PublishRefused
  <2>3. WorldOK'
    BY TypeParts, <1>2 DEF PublishRefused, WorldOK, Fault
  <2> QED  BY <2>1, <2>2, <2>3, TypeParts
<1> QED  BY <1>1, <1>2

\* Sending the new application to the region keeps the types.
LEMMA SyncNewAppTypes ==
    ASSUME TypeInv, NEW q \in Requests, SyncNewApp(q) \/ SyncNewAppFails(q)
    PROVE  TypeInv'
<1> USE DEF db, deployments, versions, history, failures
<1>1. CASE SyncNewApp(q)
  <2>1. RecordsOK' /\ Existing' = Existing
    BY <1>1, RecordsKept DEF SyncNewApp
  <2>2. RequestsOK'
    BY <1>1, <2>1, GotoStep DEF SyncNewApp, Phase, MovingPhase, Working
  <2>3. WorldOK'
    BY TypeParts, <1>1, RequestFields
    DEF SyncNewApp, WorldOK, Phase, MovingPhase
  <2> QED  BY <2>1, <2>2, <2>3, TypeParts
<1>2. CASE SyncNewAppFails(q)
  <2>1. /\ req[q].ver \in Versions /\ req[q].pc \in MovingPhase
        /\ Updated(q, "UPGRADE_FAILED", None) \in Record
    BY <1>2, RequestFields, UpdatedType
    DEF SyncNewAppFails, Phase, MovingPhase, Working, UpgradeStatus
  <2>2. RecordsOK' /\ Existing' = Existing
    BY <1>2, RecordsKept DEF SyncNewAppFails
  <2>3. RequestsOK' /\ faults' \in 0 .. MaxFaults
    BY <1>2, <2>1, <2>2, FailsStep DEF SyncNewAppFails
  <2>4. WorldOK'
    BY TypeParts, <1>2, <2>1, <2>3 DEF SyncNewAppFails, WorldOK, Partings
  <2> QED  BY <2>2, <2>3, <2>4, TypeParts
<1> QED  BY <1>1, <1>2

\* Saving the new application keeps the types.
LEMMA SaveAppTypes ==
    ASSUME TypeInv, NEW q \in Requests,
           SaveApp(q) \/ SaveAppFails(q) \/ DiskPluginFails(q)
    PROVE  TypeInv'
<1> USE DEF db, deployments, versions, history, failures
<1>1. /\ req[q] \in Request /\ req[q].obj \in Record
      /\ req[q].rec \in RecordIds /\ req[q].rec \in Existing
      /\ req[q].ver \in Versions /\ req[q].orig \in Versions
  BY RequestFields
  DEF SaveApp, SaveAppFails, DiskPluginFails, Phase, MovingPhase, Working
<1>2. CASE SaveApp(q)
  <2> DEFINE rec == Updated(q, "UPGRADING", req[q].orig)
             x == [req[q] EXCEPT !.pc = "deploy", !.obj = rec]
  <2>1. rec \in Record
    BY <1>1, UpdatedType DEF UpgradeStatus
  <2>2. RecordsOK' /\ Existing' = Existing
    BY <1>1, <1>2, <2>1, SaveKept DEF SaveApp
  <2>3. x \in Request /\ Loaded(x, Existing')
    <3> HIDE DEF rec
    <3> QED  BY <1>1, <2>1, <2>2 DEF Request, Phase, Loaded
  <2>4. req' = [req EXCEPT ![q] = x]
    BY <1>2 DEF SaveApp, TypeInv, TypeOK
  <2>5. RequestsOK'
    <3> HIDE DEF x
    <3> QED  BY <2>2, <2>3, <2>4, RequestStep
  <2>6. WorldOK'
    BY TypeParts, <1>1, <1>2 DEF SaveApp, WorldOK
  <2> QED  BY <2>2, <2>5, <2>6, TypeParts
<1>3. CASE SaveAppFails(q) \/ DiskPluginFails(q)
  <2>1. Updated(q, "UPGRADE_FAILED", None) \in Record /\ req[q].pc \in MovingPhase
    BY <1>1, <1>3, UpdatedType DEF UpgradeStatus, SaveAppFails, DiskPluginFails, MovingPhase
  <2>2. RecordsOK' /\ Existing' = Existing
    BY <1>3, RecordsKept DEF SaveAppFails, DiskPluginFails
  <2>3. RequestsOK' /\ faults' \in 0 .. MaxFaults
    BY <1>3, <2>1, <2>2, FailsStep DEF SaveAppFails, DiskPluginFails
  <2>4. WorldOK'
    BY TypeParts, <1>3, <2>3 DEF SaveAppFails, DiskPluginFails, WorldOK, Partings
  <2> QED  BY <2>2, <2>3, <2>4, TypeParts
<1> QED  BY <1>2, <1>3

\* What a failed request does on its way out keeps the types.
LEMMA FailingTypes ==
    ASSUME TypeInv, NEW q \in Requests, Failing(q)
    PROVE  TypeInv'
<1> USE DEF db, deployments, versions, history, failures
<1>1. CASE Cancel(q)
  <2>1. RecordsOK' /\ Existing' = Existing
    BY <1>1, RecordsKept DEF Cancel
  <2>2. RequestsOK'
    <3>1. CASE req[q].pc = "cancel"
      BY <1>1, <2>1, <3>1, GotoStep DEF Cancel, Phase, Working, MovingPhase
    <3>2. CASE req[q].pc = "cancelUndo"
      BY <1>1, <2>1, <3>2, GotoStep DEF Cancel, Phase, Working, MovingPhase
    <3> QED  BY <1>1, <3>1, <3>2 DEF Cancel
  <2>3. WorldOK'
    BY <1>1, TypeParts, FenceStep DEF Cancel, WorldOK
  <2> QED  BY <2>1, <2>2, <2>3, TypeParts
<1>2. CASE RecordFailure(q)
  <2>1. /\ req[q].obj \in Record
        /\ req[q].rec \in RecordIds /\ req[q].rec \in Existing
    BY <1>2, RequestFields DEF RecordFailure, Working, Phase
  <2>2. RecordsOK' /\ Existing' = Existing
    BY <1>2, <2>1, SaveKept DEF RecordFailure
  <2>3. RequestsOK'
    <3>1. CASE req[q].pc = "fail"
      BY <1>2, <2>2, <3>1, ReturnStep DEF RecordFailure
    <3>2. CASE req[q].pc = "failUndo"
      BY <1>2, <2>2, <3>2, GotoStep DEF RecordFailure, Phase, Working, MovingPhase
    <3> QED  BY <1>2, <3>1, <3>2 DEF RecordFailure
  <2>4. WorldOK'
    BY <1>2, TypeParts DEF RecordFailure, WorldOK
  <2> QED  BY <2>2, <2>3, <2>4, TypeParts
<1>3. CASE RecordFailureFails(q)
  <2>1. RecordsOK' /\ Existing' = Existing
    BY <1>3, RecordsKept DEF RecordFailureFails
  <2>2. RequestsOK'
    BY <1>3, <2>1, ReturnStep DEF RecordFailureFails
  <2>3. WorldOK'
    BY <1>3, TypeParts DEF RecordFailureFails, WorldOK, Partings
  <2> QED  BY <2>1, <2>2, <2>3, TypeParts
<1> QED  BY <1>1, <1>2, <1>3 DEF Failing

\* Taking the new application back keeps the types.
LEMMA UndoTypes ==
    ASSUME TypeInv, NEW q \in Requests, Undo(q) \/ UndoFails(q)
    PROVE  TypeInv'
<1> USE DEF db, deployments, versions, history, failures
<1>1. RecordsOK' /\ Existing' = Existing
  BY RecordsKept DEF Undo, UndoFails
<1>2. RequestsOK'
  BY <1>1, ReturnStep DEF Undo, UndoFails
<1>3. WorldOK'
  BY TypeParts, RequestFields
  DEF Undo, UndoFails, WorldOK, Partings, Phase, MovingPhase
<1> QED  BY <1>1, <1>2, <1>3, TypeParts

\* A rollback up to the region keeps the types.
LEMMA RestoreSyncTypes ==
    ASSUME TypeInv, NEW q \in Requests,
           \/ \E r \in RecordIds : RestoreLoad(q, r)
           \/ RestoreCancel(q) \/ RestoreSync(q) \/ RestoreSyncFails(q)
    PROVE  TypeInv'
<1> USE DEF db, deployments, versions, history, failures
<1>1. ASSUME NEW r \in RecordIds, RestoreLoad(q, r)
      PROVE  TypeInv'
  <2>1. RecordsOK' /\ Existing' = Existing
    BY <1>1, RecordsKept DEF RestoreLoad
  <2>2. r \in Existing
    BY <1>1 DEF RestoreLoad, Existing
  <2>3. RequestsOK'
    BY <1>1, <2>1, <2>2, StartStep DEF RestoreLoad, Phase, MovingPhase, RecordIds
  <2>4. WorldOK'
    BY <1>1, TypeParts DEF RestoreLoad, WorldOK
  <2> QED  BY <2>1, <2>3, <2>4, TypeParts
<1>4. CASE RestoreCancel(q)
  <2>1. RecordsOK' /\ Existing' = Existing
    BY <1>4, RecordsKept DEF RestoreCancel
  <2>2. RequestsOK'
    <3>1. CASE Return(q)
      BY <2>1, <3>1, ReturnStep
    <3>2. CASE Goto(q, "restoreSync")
      BY <1>4, <2>1, <3>2, GotoStep DEF RestoreCancel, Phase, MovingPhase, Working
    <3> QED  BY <1>4, <3>1, <3>2 DEF RestoreCancel
  <2>3. WorldOK'
    BY <1>4, TypeParts, FenceStep DEF RestoreCancel, WorldOK, Fault
  <2> QED  BY <2>1, <2>2, <2>3, TypeParts
<1>2. CASE RestoreSync(q)
  <2>1. RecordsOK' /\ Existing' = Existing
    BY <1>2, RecordsKept DEF RestoreSync
  <2>2. RequestsOK'
    BY <1>2, <2>1, GotoStep DEF RestoreSync, Phase, MovingPhase, Working
  <2>3. WorldOK'
    BY <1>2, TypeParts, RequestFields
    DEF RestoreSync, WorldOK, Phase, MovingPhase
  <2> QED  BY <2>1, <2>2, <2>3, TypeParts
<1>3. CASE RestoreSyncFails(q)
  <2>1. RecordsOK' /\ Existing' = Existing
    BY <1>3, RecordsKept DEF RestoreSyncFails
  <2>2. RequestsOK'
    BY <1>3, <2>1, ReturnStep DEF RestoreSyncFails
  <2>3. WorldOK'
    BY <1>3, TypeParts, RequestFields
    DEF RestoreSyncFails, WorldOK, MovingPhase, Fault, Partings
  <2> QED  BY <2>1, <2>2, <2>3, TypeParts
<1> QED  BY <1>1, <1>2, <1>3, <1>4

\* Saving the application of a rollback keeps the types.
LEMMA RestoreSaveTypes ==
    ASSUME TypeInv, NEW q \in Requests, RestoreSave(q) \/ RestoreSaveFails(q)
    PROVE  TypeInv'
<1> USE DEF db, deployments, versions, history, failures
<1>1. RecordsOK' /\ Existing' = Existing
  BY RecordsKept DEF RestoreSave, RestoreSaveFails
<1>2. RequestsOK'
  BY <1>1, GotoStep DEF RestoreSave, RestoreSaveFails, Phase, MovingPhase, Working
<1>3. WorldOK'
  BY TypeParts, RequestFields
  DEF RestoreSave, RestoreSaveFails, WorldOK, MovingPhase, Fault
<1> QED  BY <1>1, <1>2, <1>3, TypeParts

\* Inserting the rollback's own record keeps the types.
LEMMA RestoreRecordTypes ==
    ASSUME TypeInv, NEW q \in Requests, RestoreRecord(q) \/ RestoreRecordFails(q)
    PROVE  TypeInv'
<1> USE DEF db, deployments, versions, history, failures
<1>1. CASE RestoreRecord(q)
  <2> DEFINE rollback == [type    |-> "rollback",
                          status  |-> "ROLLING",
                          version |-> req[q].obj.old,
                          old     |-> req[q].obj.version,
                          snap    |-> req[q].obj.snap,
                          parent  |-> req[q].rec]
             x == [req[q] EXCEPT !.pc = "deploy", !.rec = NewId, !.obj = rollback]
  <2>1. /\ req[q] \in Request /\ req[q].obj \in Record /\ req[q].rec \in RecordIds
        /\ req[q].ver \in Versions /\ req[q].orig \in Versions
    BY <1>1, RequestFields DEF RestoreRecord, Working, Phase, MovingPhase
  <2>2. rollback \in Record
    BY <2>1 DEF Record, UpgradeStatus
  <2>3. Save(NewId, rollback) /\ RoomForRecord /\ NewId \in RecordIds
    BY <1>1, NewIdIsFree DEF RestoreRecord, TypeInv
  <2>4. req' = [req EXCEPT ![q] = x]
    BY <1>1, TypeParts DEF RestoreRecord, RequestsOK
  <2> HIDE DEF rollback
  <2>5. RecordsOK' /\ Existing' = Existing \cup {NewId}
    BY <2>2, <2>3, SaveNew
  <2>6. x \in Request /\ Loaded(x, Existing')
    BY <2>1, <2>2, <2>3, <2>5 DEF Request, Phase, Loaded
  <2>7. WorldOK'
    BY <1>1, TypeParts DEF RestoreRecord, WorldOK
  <2> HIDE DEF x
  <2>8. RequestsOK'
    BY <2>4, <2>5, <2>6, RequestStep
  <2> QED  BY <2>5, <2>7, <2>8, TypeParts
<1>2. CASE RestoreRecordFails(q)
  <2>1. RecordsOK' /\ Existing' = Existing
    BY <1>2, RecordsKept DEF RestoreRecordFails
  <2>2. RequestsOK'
    BY <1>2, <2>1, GotoStep DEF RestoreRecordFails, Phase, MovingPhase, Working
  <2>3. WorldOK'
    BY <1>2, TypeParts DEF RestoreRecordFails, WorldOK, Fault, Partings
  <2> QED  BY <2>1, <2>2, <2>3, TypeParts
<1> QED  BY <1>1, <1>2

\* Deploying the components of a record keeps the types.
LEMMA DeployTypes ==
    ASSUME TypeInv, NEW q \in Requests, Deploy(q)
    PROVE  TypeInv'
<1> USE DEF db, deployments, versions, history, failures
<1> DEFINE r == req[q].rec
           n == batches[r] + 1
           x == [req[q] EXCEPT !.pc = "track", !.n = n]
<1>1. /\ req[q] \in Request /\ r \in RecordIds /\ r \in Existing
      /\ req[q].obj \in Record /\ Loaded(req[q], Existing)
  BY RequestFields, TypeParts
  DEF Deploy, Working, Phase, RequestsOK, AllLoaded
<1>2. n \in 1 .. MaxBatches /\ batches \in [RecordIds -> 0 .. MaxBatches]
  BY <1>1, TypeParts DEF Deploy, RoomForBatch, WorldOK
<1>3. RecordsOK' /\ Existing' = Existing
  BY RecordsKept DEF Deploy
<1>4. PICK fate \in [Components -> {"running", "needless", "none"}] :
        /\ event' = [k \in RowIds |->
                       IF k[1] = r /\ k[2] = n THEN fate[k[3]] ELSE event[k]]
        /\ batches' = [batches EXCEPT ![r] = n]
        /\ req' = [req EXCEPT ![q].pc = "track", ![q].n = n]
  BY DEF Deploy
<1>6. batches' \in [RecordIds -> 0 .. MaxBatches]
  <2>1. n \in 0 .. MaxBatches
    BY <1>2
  <2> HIDE DEF n
  <2> QED  BY <1>1, <1>2, <1>4, <2>1
<1>7. event' \in [RowIds -> {"none", "needless", "running",
                             "success", "failure", "timeout"}]
  BY <1>4, TypeParts DEF WorldOK, RowIds
<1>8. WorldOK'
  BY <1>6, <1>7, TypeParts DEF WorldOK, Deploy
<1>9. x \in Request /\ Loaded(x, Existing')
  <2>1. n \in 0 .. MaxBatches
    BY <1>2
  <2> HIDE DEF n
  <2>2. x \in Request
    BY <1>1, <2>1 DEF Request, Phase
  <2>3. n # 0
    BY <1>2
  <2> QED  BY <1>1, <1>3, <2>2, <2>3 DEF Loaded, Request, Working, MovingPhase
<1>10. req' = [req EXCEPT ![q] = x]
  BY <1>4, TypeParts DEF RequestsOK
<1>11. RequestsOK'
  <2> HIDE DEF x
  <2> QED  BY <1>3, <1>9, <1>10, RequestStep
<1> QED  BY <1>3, <1>8, <1>11, TypeParts

\* Handing the events to the snapshot row keeps the types.
LEMMA TrackTypes ==
    ASSUME TypeInv, NEW q \in Requests, Track(q)
    PROVE  TypeInv'
<1> USE DEF db, deployments, versions, history, failures
<1> DEFINE k(c) == <<req[q].rec, req[q].n, c>>
           events == [c \in Components |->
                        IF event[k(c)] \in {"none", "needless"} THEN None ELSE k(c)]
<1>1. RecordsOK' /\ Existing' = Existing
  BY RecordsKept DEF Track
<1>2. RequestsOK'
  BY <1>1, GotoStep DEF Track, Phase, Working, MovingPhase
<1>3. \A c \in Components : k(c) \in RowIds
  <2>1. req[q].rec \in RecordIds /\ req[q].n \in 1 .. MaxBatches
    BY RequestFields DEF Track, Working, Phase
  <2> QED  BY <2>1 DEF RowIds
<1>4. events \in Fence!EventMap
  BY <1>3 DEF Fence!EventMap
<1>5. Fence!Track(events, TRUE) \/ UNCHANGED fence
  BY DEF Track
<1>6. fence' \in Fence!Row
  <2> HIDE DEF events
  <2> QED  BY <1>4, <1>5, FenceStep, TypeParts DEF WorldOK
<1> HIDE DEF events, k
<1>7. /\ UNCHANGED <<rows, batches, event, console, region, made, dropped, parted, crashes>>
      /\ UNCHANGED faults \/ Fault
  BY DEF Track
<1>8. WorldOK'
  <2>1. faults' \in 0 .. MaxFaults
    BY <1>7, TypeParts DEF WorldOK, Fault
  <2> QED  BY <1>6, <1>7, <2>1, TypeParts DEF WorldOK
<1> QED  BY <1>1, <1>2, <1>8, TypeParts

\* A deployment that fails keeps the types.
LEMMA DeployFailsTypes ==
    ASSUME TypeInv, NEW q \in Requests, DeployFails(q)
    PROVE  TypeInv'
<1> USE DEF db, deployments, versions, history, failures
<1>1. /\ req[q] \in Request /\ req[q].rec \in RecordIds
      /\ req[q].obj \in Record /\ req[q].pc \in MovingPhase
  BY RequestFields DEF DeployFails, Working, Phase, MovingPhase
<1>2. RecordsOK' /\ Existing' = Existing
  BY RecordsKept DEF DeployFails
<1>3. RequestsOK' /\ faults' \in 0 .. MaxFaults
  <2>1. Updated(q, "DEPLOY_FAILED", None) \in Record
    BY <1>1, UpdatedType DEF UpgradeStatus
  <2>2. [req[q].obj EXCEPT !.status = "DEPLOY_FAILED"] \in Record
    BY <1>1 DEF Record, UpgradeStatus
  <2> QED  BY <1>1, <1>2, <2>1, <2>2, FailsStep DEF DeployFails
<1>4. event' \in [RowIds -> {"none", "needless", "running",
                             "success", "failure", "timeout"}]
  BY TypeParts DEF DeployFails, WorldOK
<1>5. batches' \in [RecordIds -> 0 .. MaxBatches]
  BY <1>1, TypeParts DEF DeployFails, WorldOK, RoomForBatch
<1>6. UNCHANGED <<rows, console, region, fence, made, dropped, parted, crashes>>
  BY DEF DeployFails
<1>7. WorldOK'
  <2>1. WorldOK
    BY TypeParts
  <2>2. faults' \in 0 .. MaxFaults
    BY <1>3
  <2> QED  BY <1>4, <1>5, <1>6, <2>1, <2>2 DEF WorldOK
<1> QED  BY <1>2, <1>3, <1>7, TypeParts

\* Inserting the component records keeps the types.
LEMMA CreateRowsTypes ==
    ASSUME TypeInv, NEW q \in Requests, CreateRows(q)
    PROVE  TypeInv'
<1> USE DEF db, deployments, versions, history, failures
<1>1. RecordsOK' /\ Existing' = Existing
  BY RecordsKept DEF CreateRows
<1>2. RequestsOK'
  BY <1>1, ReturnStep DEF CreateRows
<1>3. rows' \in [RowIds -> UpgradeStatus \cup {None}]
  BY TypeParts DEF CreateRows, WorldOK, Succeeded, InProgress, UpgradeStatus
<1>4. made' \subseteq RowIds
  BY TypeParts DEF CreateRows, WorldOK, Deployment
<1>5. WorldOK'
  <2>1. WorldOK
    BY TypeParts
  <2> QED  BY <1>3, <1>4, <2>1 DEF CreateRows, WorldOK
<1> QED  BY <1>1, <1>2, <1>5, TypeParts

\* The verdict is a status.
LEMMA VerdictType ==
    ASSUME NEW rec \in Record, NEW rs
    PROVE  Verdict(rec, rs) \in UpgradeStatus
BY DEF Verdict, Record, UpgradeStatus, AllFailed, Succeeded, Partial

\* What the event of a component makes of its status is a status.
LEMMA RefreshedType ==
    ASSUME NEW status \in UpgradeStatus \cup {None}, NEW outcome
    PROVE  Refreshed(status, outcome) \in UpgradeStatus \cup {None}
BY DEF Refreshed, StatusTable, UpgradeStatus

\* A poll up to the component records it fetched keeps the types.
LEMMA PollTypes ==
    ASSUME TypeInv, NEW q \in Requests,
           \/ \E r \in RecordIds : Poll(q, r)
           \/ FetchRows(q) \/ FetchEventsFails(q)
    PROVE  TypeInv'
<1> USE DEF db, deployments, versions, history, failures
<1>1. ASSUME NEW r \in RecordIds, Poll(q, r)
      PROVE  TypeInv'
  <2>1. RecordsOK' /\ Existing' = Existing
    BY <1>1, RecordsKept DEF Poll
  <2>2. r \in Existing /\ Start(q, "fetchRows", r, None, None)
    BY <1>1 DEF Poll, Existing
  <2>3. RequestsOK'
    BY <2>1, <2>2, StartStep DEF Phase, MovingPhase, RecordIds
  <2>4. WorldOK'
    BY <1>1, TypeParts DEF Poll, WorldOK
  <2> QED  BY <2>1, <2>3, <2>4, TypeParts
<1>2. CASE FetchRows(q)
  <2> DEFINE x == [req[q] EXCEPT !.pc = "fetchEvents", !.held = RowsOf(req[q].rec)]
  <2>1. RecordsOK' /\ Existing' = Existing
    BY <1>2, RecordsKept DEF FetchRows
  <2>2. RowsOf(req[q].rec) \in [RowIds -> UpgradeStatus \cup {None}]
    BY TypeParts DEF RowsOf, WorldOK
  <2>3. req[q] \in Request /\ Loaded(req[q], Existing) /\ req[q].pc = "fetchRows"
    BY <1>2, TypeParts DEF RequestsOK, AllLoaded, FetchRows
  <2>4. x \in Request /\ Loaded(x, Existing')
    BY <2>1, <2>2, <2>3 DEF Request, Loaded, Phase, Working, MovingPhase
  <2>5. req' = [req EXCEPT ![q] = x]
    BY <1>2, TypeParts DEF FetchRows, RequestsOK
  <2>6. WorldOK'
    BY <1>2, TypeParts DEF FetchRows, WorldOK
  <2> HIDE DEF x
  <2> QED  BY <2>1, <2>4, <2>5, <2>6, RequestStep, TypeParts
<1>3. CASE FetchEventsFails(q)
  <2>1. RecordsOK' /\ Existing' = Existing
    BY <1>3, RecordsKept DEF FetchEventsFails
  <2>2. RequestsOK'
    BY <1>3, <2>1, ReturnStep DEF FetchEventsFails
  <2>3. WorldOK'
    BY <1>3, TypeParts DEF FetchEventsFails, WorldOK, Fault
  <2> QED  BY <2>1, <2>2, <2>3, TypeParts
<1> QED  BY <1>1, <1>2, <1>3

\* What the events make of the copies a poll holds.
LEMMA FetchEventsRequest ==
    ASSUME TypeInv, NEW q \in Requests, FetchEvents(q)
    PROVE  LET held == [k \in RowIds |-> Refreshed(req[q].held[k], event[k])]
               obj == [req[q].obj EXCEPT !.status = Verdict(req[q].obj, held)]
           IN  req' = [req EXCEPT ![q] =
                   [req[q] EXCEPT !.pc = "saveRecord", !.held = held, !.obj = obj]]
BY TypeParts, ZenonT(60) DEF FetchEvents, RequestsOK

\* Reading the events keeps the types.
LEMMA FetchEventsTypes ==
    ASSUME TypeInv, NEW q \in Requests, FetchEvents(q)
    PROVE  TypeInv'
<1> USE DEF db, deployments, versions, history, failures
<1> DEFINE held == [k \in RowIds |-> Refreshed(req[q].held[k], event[k])]
           obj == [req[q].obj EXCEPT !.status = Verdict(req[q].obj, held)]
           x == [req[q] EXCEPT !.pc = "saveRecord", !.held = held, !.obj = obj]
<1>1. RecordsOK' /\ Existing' = Existing
  BY RecordsKept DEF FetchEvents
<1>2. /\ req[q] \in Request /\ Loaded(req[q], Existing) /\ req[q].pc = "fetchEvents"
      /\ req[q].obj \in Record
  BY TypeParts DEF RequestsOK, AllLoaded, FetchEvents, Loaded, Working, Phase
<1>3. held \in [RowIds -> UpgradeStatus \cup {None}]
  BY <1>2, RefreshedType DEF Request
<1>4. req' = [req EXCEPT ![q] = x]
  BY FetchEventsRequest
<1> HIDE DEF held
<1>5. obj \in Record
  BY <1>2, VerdictType DEF Record
<1> HIDE DEF obj
<1>6. x \in Request
  BY <1>2, <1>3, <1>5 DEF Request, Phase
<1>7. Loaded(x, Existing')
  BY <1>1, <1>2, <1>5 DEF Request, Loaded, Working, Phase, MovingPhase
<1> HIDE DEF x
<1>8. RequestsOK'
  BY <1>1, <1>4, <1>6, <1>7, RequestStep
<1>9. WorldOK'
  BY TypeParts DEF FetchEvents, WorldOK
<1> QED  BY <1>1, <1>8, <1>9, TypeParts

\* Writing the copies of a poll back keeps the types.
LEMMA SaveRecordTypes ==
    ASSUME TypeInv, NEW q \in Requests,
           SaveRecord(q) \/ DeleteRows(q) \/ InsertRows(q)
    PROVE  TypeInv'
<1> USE DEF db, deployments, versions, history, failures
<1>1. /\ req[q] \in Request /\ req[q].obj \in Record
      /\ req[q].rec \in RecordIds /\ req[q].rec \in Existing
  BY RequestFields DEF SaveRecord, DeleteRows, InsertRows, Working, Phase
<1>2. CASE SaveRecord(q)
  <2>1. RecordsOK' /\ Existing' = Existing
    BY <1>1, <1>2, SaveKept DEF SaveRecord
  <2>2. RequestsOK'
    BY <1>2, <2>1, ReturnStep, GotoStep DEF SaveRecord, Working, Phase, MovingPhase
  <2>3. WorldOK'
    BY <1>2, TypeParts DEF SaveRecord, WorldOK
  <2> QED  BY <2>1, <2>2, <2>3, TypeParts
<1>3. CASE DeleteRows(q)
  <2>1. RecordsOK' /\ Existing' = Existing
    BY <1>3, RecordsKept DEF DeleteRows
  <2>2. RequestsOK'
    BY <1>3, <2>1, GotoStep DEF DeleteRows, Working, Phase, MovingPhase
  <2>3. WorldOK'
    BY <1>3, TypeParts DEF DeleteRows, WorldOK
  <2> QED  BY <2>1, <2>2, <2>3, TypeParts
<1>4. CASE InsertRows(q)
  <2>1. RecordsOK' /\ Existing' = Existing
    BY <1>4, RecordsKept DEF InsertRows
  <2>2. RequestsOK'
    BY <1>4, <2>1, ReturnStep DEF InsertRows
  <2>3. rows' \in [RowIds -> UpgradeStatus \cup {None}]
    BY <1>1, <1>4, TypeParts DEF InsertRows, WorldOK, Request
  <2>4. WorldOK'
    BY <1>4, <2>3, TypeParts DEF InsertRows, WorldOK
  <2> QED  BY <2>1, <2>2, <2>4, TypeParts
<1> QED  BY <1>2, <1>3, <1>4

\* Retrying a deployment keeps the types.
LEMMA RetryTypes ==
    ASSUME TypeInv, NEW q \in Requests,
           \/ \E r \in RecordIds : RetryLoad(q, r)
           \/ Retry(q) \/ RetryFails(q)
    PROVE  TypeInv'
<1> USE DEF db, deployments, versions, history, failures
<1>1. ASSUME NEW r \in RecordIds, RetryLoad(q, r)
      PROVE  TypeInv'
  <2>1. RecordsOK' /\ Existing' = Existing
    BY <1>1, RecordsKept DEF RetryLoad
  <2>2. r \in Existing /\ Start(q, "retry", r, None, None)
    BY <1>1 DEF RetryLoad, Existing
  <2>3. RequestsOK'
    BY <2>1, <2>2, StartStep DEF Phase, MovingPhase, RecordIds
  <2>4. WorldOK'
    BY <1>1, TypeParts DEF RetryLoad, WorldOK
  <2> QED  BY <2>1, <2>3, <2>4, TypeParts
<1>2. CASE Retry(q) \/ RetryFails(q)
  <2>1. /\ req[q].obj \in Record /\ req[q].rec \in RecordIds
        /\ req[q].rec \in Existing
    BY <1>2, RequestFields DEF Retry, RetryFails, Working, Phase
  <2>2. \A status \in UpgradeStatus : [req[q].obj EXCEPT !.status = status] \in Record
    BY <2>1 DEF Record
  <2>3. InProgress(req[q].obj.type) \in UpgradeStatus /\ "DEPLOY_FAILED" \in UpgradeStatus
    BY DEF InProgress, UpgradeStatus
  <2>4. RecordsOK' /\ Existing' = Existing
    BY <1>2, <2>1, <2>2, <2>3, SaveKept DEF Retry, RetryFails
  <2>5. RequestsOK'
    BY <1>2, <2>4, ReturnStep DEF Retry, RetryFails
  <2>6. WorldOK'
    BY <1>2, <2>3, TypeParts DEF Retry, RetryFails, WorldOK, Fault
  <2> QED  BY <2>4, <2>5, <2>6, TypeParts
<1> QED  BY <1>1, <1>2

\* Listing the records keeps the types.
LEMMA ListTypes ==
    ASSUME TypeInv, NEW q \in Requests, List(q) \/ ListReturn(q)
    PROVE  TypeInv'
<1> USE DEF db, deployments, versions, history, failures
<1>1. RecordsOK' /\ Existing' = Existing
  BY RecordsKept DEF List, ListReturn
<1>2. CASE List(q)
  <2>1. Start(q, "listed", NoId, None, None)
    BY <1>2 DEF List, Unsynced, IsFinishedAttribute
  <2>2. RequestsOK'
    BY <1>1, <2>1, StartStep DEF Phase, MovingPhase, Working
  <2>3. WorldOK'
    BY <1>2, TypeParts DEF List, WorldOK
  <2> QED  BY <1>1, <2>2, <2>3, TypeParts
<1>3. CASE ListReturn(q)
  <2>1. RequestsOK'
    BY <1>1, <1>3, ReturnStep DEF ListReturn
  <2>2. WorldOK'
    BY <1>3, TypeParts DEF ListReturn, WorldOK
  <2> QED  BY <1>1, <2>1, <2>2, TypeParts
<1> QED  BY <1>2, <1>3

\* A request that dies keeps the types.
LEMMA CrashTypes ==
    ASSUME TypeInv, NEW q \in Requests, Crash(q)
    PROVE  TypeInv'
<1> USE DEF db, deployments, versions, history, failures
<1>1. RecordsOK' /\ Existing' = Existing
  BY RecordsKept DEF Crash
<1>2. RequestsOK'
  BY <1>1, ReturnStep DEF Crash
<1>3. WorldOK'
  BY TypeParts DEF Crash, WorldOK, Present, Partings
<1> QED  BY <1>1, <1>2, <1>3, TypeParts

\* What happens outside the requests keeps the types.
LEMMA EnvironmentTypes ==
    ASSUME TypeInv,
           (\E k \in RowIds : EventEnds(k)) \/ SnapshotWorker \/ FenceExpires
    PROVE  TypeInv'
<1> USE DEF db, deployments, versions, history, failures
<1>1. RecordsOK' /\ Existing' = Existing
  BY RecordsKept DEF EventEnds, SnapshotWorker, FenceExpires
<1>2. RequestsOK'
  BY <1>1, TypeParts
  DEF EventEnds, SnapshotWorker, FenceExpires, RequestsOK, AllLoaded, Loaded
<1>3. WorldOK'
  BY TypeParts, FenceStep
  DEF EventEnds, SnapshotWorker, FenceExpires, WorldOK, Fault, Partings
<1> QED  BY <1>1, <1>2, <1>3, TypeParts

\* The initial state is well-formed.
LEMMA InitTypes == Init => TypeInv
<1> SUFFICES ASSUME Init PROVE TypeInv
  OBVIOUS
<1>1. Existing = {} /\ NoGap
  BY DEF Init, Existing, Exists, NoGap
<1>2. NoRows \in [RowIds -> UpgradeStatus \cup {None}] /\ Idle \in Request
  BY IdleLoaded DEF NoRows
<1>3. AllLoaded
  BY DEF Init, AllLoaded, Loaded, Idle, Working, MovingPhase
<1>4. fence \in Fence!Row
  BY DEF Init, Fence!NoRow, Fence!Row, Fence!SnapshotStatus, Fence!NoEvents,
         Fence!EventMap
<1> QED  BY <1>1, <1>2, <1>3, <1>4 DEF Init, TypeInv, TypeOK

\* Every step keeps the types.
LEMMA NextTypes == TypeInv /\ [Next]_vars => TypeInv'
<1> SUFFICES ASSUME TypeInv, [Next]_vars PROVE TypeInv'
  OBVIOUS
<1>1. ASSUME NEW q \in Requests, Starting(q) PROVE TypeInv'
  BY <1>1, CreateTypes, UpgradeLoadTypes, RestoreSyncTypes, RetryTypes, PollTypes,
     ListTypes
  DEF Starting
<1>2. ASSUME NEW q \in Requests, Continuing(q) PROVE TypeInv'
  <2>1. CASE CreateInsert(q) \/ Upgrading(q)
    BY <2>1, CreateTypes, ConstructTypes, PublishTypes, SyncNewAppTypes, SaveAppTypes,
       UndoTypes
    DEF Upgrading
  <2>2. CASE Restoring(q)
    BY <2>2, ConstructTypes, RestoreSyncTypes, RestoreSaveTypes, RestoreRecordTypes
    DEF Restoring
  <2>3. CASE Deploying(q)
    BY <2>3, DeployTypes, DeployFailsTypes, TrackTypes, CreateRowsTypes, RetryTypes
    DEF Deploying
  <2>4. CASE Syncing(q)
    BY <2>4, PollTypes, FetchEventsTypes, SaveRecordTypes, ListTypes DEF Syncing
  <2> QED  BY <1>2, <2>1, <2>2, <2>3, <2>4, FailingTypes DEF Continuing
<1>3. CASE UNCHANGED vars
  <2> USE DEF vars, db, deployments, versions, history, failures
  <2>1. RecordsOK' /\ Existing' = Existing
    BY <1>3, RecordsKept
  <2>2. RequestsOK' /\ WorldOK'
    BY <1>3, <2>1, TypeParts DEF RequestsOK, AllLoaded, Loaded, WorldOK
  <2> QED  BY <2>1, <2>2, TypeParts
<1> QED
  BY <1>1, <1>2, <1>3, CrashTypes, EnvironmentTypes DEF Next

\* Every variable keeps the shape the tables and the handlers give it, and a
\* handler finds in its copy of the record every field it uses.
THEOREM TypeCorrect == Spec => []TypeOK
<1>1. TypeInv => TypeOK
  BY DEF TypeInv
<1> QED  BY <1>1, InitTypes, NextTypes, PTL DEF Spec

-----------------------------------------------------------------------------
(* Statuses                                                                *)

\* The copy of the record has the type of the record and a status of its kind;
\* the phases that write an upgrade's status work on an upgrade record.
CopyOK(x, recs) ==
    /\ \/ x.pc \in Working
       \/ x.pc = "publish" /\ x.obj # None
       => /\ x.obj.type = recs[x.rec].type
          /\ x.obj.status \in FamilyOf(x.obj.type)
    /\ \/ x.pc \in {"construct", "sync", "save"}
       \/ x.pc = "publish" /\ x.obj # None
       => x.obj.type = "upgrade"

FamilyInv == StatusFamily /\ \A q \in Requests : CopyOK(req[q], records)

\* A step of one request keeps the family of statuses when the other
\* requests' copies fit the records it leaves.
LEMMA FamilyCopies ==
    ASSUME FamilyInv, NEW q \in Requests, NEW x,
           req \in [Requests -> Request],
           req' = [req EXCEPT ![q] = x],
           StatusFamily',
           \A p \in Requests : CopyOK(req[p], records'),
           CopyOK(x, records')
    PROVE  FamilyInv'
<1>1. ASSUME NEW p \in Requests PROVE CopyOK(req'[p], records')
  <2>1. CASE p = q
    BY <2>1
  <2>2. CASE p # q
    BY <2>2
  <2> QED  BY <2>1, <2>2
<1> QED  BY <1>1 DEF FamilyInv

\* Writing a record in place, with its type and a status of that type.
LEMMA FamilyWrite ==
    ASSUME TypeInv, FamilyInv, NEW r \in RecordIds, NEW rec \in Record,
           records' = [records EXCEPT ![r] = rec],
           r \in Existing => rec.type = records[r].type,
           rec.status \in FamilyOf(rec.type)
    PROVE  /\ StatusFamily'
           /\ \A p \in Requests : CopyOK(req[p], records')
<1>1. records \in [RecordIds -> Record \cup {None}] /\ rec # None
  BY TypeParts DEF RecordsOK
<1>2. StatusFamily'
  BY <1>1 DEF StatusFamily, FamilyInv, Existing, Exists
<1>3. ASSUME NEW p \in Requests PROVE CopyOK(req[p], records')
  <2>1. CopyOK(req[p], records) /\ Loaded(req[p], Existing)
    BY TypeParts DEF FamilyInv, RequestsOK, AllLoaded
  <2>2. CASE req[p].rec = r
    BY <1>1, <2>1, <2>2 DEF CopyOK, Loaded
  <2>3. CASE req[p].rec # r
    BY <1>1, <2>1, <2>3 DEF CopyOK, Loaded
  <2> QED  BY <2>2, <2>3
<1> QED  BY <1>2, <1>3

\* The records stay as they are.
LEMMA FamilyKept ==
    ASSUME FamilyInv, UNCHANGED records
    PROVE  /\ StatusFamily'
           /\ \A p \in Requests : CopyOK(req[p], records')
BY DEF FamilyInv, StatusFamily, Existing, Exists

\* A request that returns holds no copy.
LEMMA FamilyReturn ==
    ASSUME TypeInv, FamilyInv, NEW q \in Requests, Return(q),
           StatusFamily', \A p \in Requests : CopyOK(req[p], records')
    PROVE  FamilyInv'
<1>1. CopyOK(Idle, records')
  BY DEF CopyOK, Idle, Working
<1> QED  BY <1>1, FamilyCopies, TypeParts DEF Return, RequestsOK

\* A request that goes on keeps the copy it has.
LEMMA FamilyGoto ==
    ASSUME TypeInv, FamilyInv, NEW q \in Requests,
           NEW pc \in Phase \ {"construct", "publish"},
           Goto(q, pc),
           \/ pc \in Working => req[q].pc \in Working
           \/ req[q].pc = "publish" /\ req[q].obj # None,
           pc \in {"sync", "save"} =>
              \/ req[q].pc \in {"sync", "save"}
              \/ req[q].pc = "publish" /\ req[q].obj # None,
           StatusFamily', \A p \in Requests : CopyOK(req[p], records')
    PROVE  FamilyInv'
<1> DEFINE x == [req[q] EXCEPT !.pc = pc]
<1>1. req[q] \in Request /\ CopyOK(req[q], records')
  BY TypeParts DEF RequestsOK
<1>2. CopyOK(x, records')
  BY <1>1 DEF CopyOK, Request
<1>3. req' = [req EXCEPT ![q] = x]
  BY DEF Goto
<1> HIDE DEF x
<1> QED  BY <1>2, <1>3, FamilyCopies, TypeParts DEF RequestsOK

\* A request that starts copies a record that is well-formed.
LEMMA FamilyStart ==
    ASSUME TypeInv, FamilyInv, NEW q \in Requests, NEW pc \in Phase,
           NEW r \in Existing \cup {NoId}, NEW ver, NEW orig,
           Start(q, pc, r, ver, orig),
           UNCHANGED records,
           pc \in Working => r # NoId,
           pc \in {"construct", "publish", "sync", "save"} /\ r # NoId
               => records[r].type = "upgrade"
    PROVE  FamilyInv'
<1> DEFINE x == [pc |-> pc, rec |-> r, obj |-> IF r = NoId THEN None ELSE records[r],
                 ver |-> ver, orig |-> orig, n |-> 0, held |-> NoRows]
<1>1. r # NoId => records[r].status \in FamilyOf(records[r].type)
  BY DEF FamilyInv, StatusFamily
<1>2. CopyOK(x, records')
  BY <1>1 DEF CopyOK, Working
<1>3. req' = [req EXCEPT ![q] = x]
  BY DEF Start
<1> HIDE DEF x
<1> QED  BY <1>2, <1>3, FamilyCopies, FamilyKept, TypeParts DEF RequestsOK

\* A request that fails has a status of its kind in its copy.
LEMMA FamilyFails ==
    ASSUME TypeInv, FamilyInv, NEW q \in Requests, req[q].pc \in Working,
           NEW pc \in {"cancel", "fail", "cancelUndo"}, NEW obj,
           FailsWith(q, pc, obj), UNCHANGED records,
           obj.type = req[q].obj.type, obj.status \in FamilyOf(obj.type)
    PROVE  FamilyInv'
<1> DEFINE x == [req[q] EXCEPT !.pc = pc, !.obj = obj]
<1>1. req[q] \in Request /\ CopyOK(req[q], records)
  BY TypeParts DEF RequestsOK, FamilyInv
<1>2. CopyOK(x, records')
  BY <1>1 DEF CopyOK, Request
<1>3. req' = [req EXCEPT ![q] = x]
  BY TypeParts DEF FailsWith, RequestsOK
<1> HIDE DEF x
<1> QED  BY <1>2, <1>3, FamilyCopies, FamilyKept, TypeParts DEF RequestsOK

\* A failed upgrade is on its way out with a status of an upgrade.
LEMMA FamilyUpgradeFails ==
    ASSUME TypeInv, FamilyInv, NEW q \in Requests, req[q].pc \in MovingPhase,
           NEW pc \in {"cancel", "cancelUndo"},
           NEW status \in {"UPGRADE_FAILED", "DEPLOY_FAILED"},
           FailsWith(q, pc, Updated(q, status, None)), UNCHANGED records,
           req[q].obj.type = "upgrade"
    PROVE  FamilyInv'
<1>1. req[q] \in Request /\ req[q].obj \in Record /\ req[q].pc \in Working
  BY RequestFields DEF MovingPhase, Working, Phase
<1>2. /\ Updated(q, status, None).type = "upgrade"
      /\ Updated(q, status, None).status = status
  BY <1>1 DEF Updated, Record
<1> DEFINE obj == Updated(q, status, None)
<1>3. obj.type = req[q].obj.type /\ obj.status \in FamilyOf(obj.type)
  BY <1>2 DEF FamilyOf
<1>4. FailsWith(q, pc, obj)
  OBVIOUS
<1> HIDE DEF obj
<1> QED  BY <1>1, <1>3, <1>4, FamilyFails

\* First steps of requests keep the family of statuses.
LEMMA FamilyStarts ==
    ASSUME TypeInv, FamilyInv, NEW q \in Requests, Starting(q)
    PROVE  FamilyInv'
<1> USE DEF db
<1>1. CASE CreateRead(q)
  BY <1>1, FamilyStart DEF CreateRead, Phase, Working
<1>2. ASSUME NEW r \in RecordIds, NEW v \in Targets, UpgradeLoad(q, r, v)
      PROVE  FamilyInv'
  <2>1. r \in Existing /\ r # NoId
    BY <1>2 DEF UpgradeLoad, Existing, RecordIds
  <2>2. records[r].type = "upgrade"
    \* Only an upgrade record is ever NOT.
    BY <1>2, <2>1, TypeParts
    DEF UpgradeLoad, CanUpgrade, FamilyInv, StatusFamily, FamilyOf, RecordsOK,
        Record, Exists
  <2> QED  BY <1>2, <2>1, <2>2, FamilyStart DEF UpgradeLoad, Phase
<1>3. CASE UpgradeComponentLoad(q)
  BY <1>3, FamilyStart DEF UpgradeComponentLoad, Phase, Working
<1>4. ASSUME NEW r \in RecordIds, RestoreLoad(q, r) PROVE FamilyInv'
  <2>1. r \in Existing /\ r # NoId
    BY <1>4 DEF RestoreLoad, Existing, RecordIds
  <2>2. Start(q, "restoreConstruct", r, None, None) /\ UNCHANGED records
    BY <1>4 DEF RestoreLoad
  <2> QED  BY <2>1, <2>2, FamilyStart DEF Phase
<1>5. ASSUME NEW r \in RecordIds, RetryLoad(q, r) PROVE FamilyInv'
  BY <1>5, FamilyStart DEF RetryLoad, Existing, RecordIds, Phase
<1>6. ASSUME NEW r \in RecordIds, Poll(q, r) PROVE FamilyInv'
  BY <1>6, FamilyStart DEF Poll, Existing, RecordIds, Phase
<1>7. CASE List(q)
  BY <1>7, FamilyStart DEF List, Unsynced, IsFinishedAttribute, Phase, Working
<1> QED
  BY <1>1, <1>2, <1>3, <1>4, <1>5, <1>6, <1>7 DEF Starting

\* Saving the request's own copy with another status of its kind.
LEMMA FamilySaveCopy ==
    ASSUME TypeInv, FamilyInv, NEW q \in Requests, req[q].pc \in Working,
           NEW rec \in Record, rec.type = req[q].obj.type,
           rec.status \in FamilyOf(rec.type),
           Save(req[q].rec, rec)
    PROVE  /\ StatusFamily'
           /\ \A p \in Requests : CopyOK(req[p], records')
<1>1. req[q].rec \in RecordIds /\ rec.type = records[req[q].rec].type
  BY RequestFields DEF FamilyInv, CopyOK
<1>2. records' = [records EXCEPT ![req[q].rec] = rec]
  BY DEF Save
<1> QED  BY <1>1, <1>2, FamilyWrite

\* Steps of upgrades keep the family of statuses.
LEMMA FamilyUpgrades ==
    ASSUME TypeInv, FamilyInv, NEW q \in Requests,
           CreateInsert(q) \/ Upgrading(q)
    PROVE  FamilyInv'
<1> USE DEF db
<1> DEFINE r == req[q].rec
<1>1. ASSUME \/ req[q].pc \in {"construct", "sync", "save"}
             \/ req[q].pc = "publish" /\ req[q].obj # None
      PROVE  /\ req[q] \in Request /\ r \in RecordIds /\ r \in Existing
             /\ req[q].obj \in Record
             /\ req[q].obj.type = "upgrade" /\ records[r].type = "upgrade"
  BY <1>1, RequestFields DEF FamilyInv, CopyOK, Working, Phase
<1>3. CASE CreateInsert(q)
  <2> DEFINE rec == [type |-> "upgrade", status |-> "NOT", version |-> None,
                     old |-> req[q].orig, snap |-> None, parent |-> NoId]
  <2>1. rec \in Record
    BY TypeParts DEF RequestsOK, Record, Request, UpgradeStatus
  <2>2. NewId \in RecordIds /\ NewId \notin Existing
    BY <1>3, NewIdIsFree DEF CreateInsert, TypeInv, Existing
  <2>3. records' = [records EXCEPT ![NewId] = rec]
    BY <1>3 DEF CreateInsert, Save
  <2>4. rec.status \in FamilyOf(rec.type)
    BY DEF FamilyOf
  <2> HIDE DEF rec
  <2> QED  BY <1>3, <2>1, <2>2, <2>3, <2>4, FamilyWrite, FamilyReturn DEF CreateInsert
<1>2. CASE Construct(q)
  <2> DEFINE x == [req[q] EXCEPT !.pc = "publish", !.orig = console]
  <2>1. req[q] \in Request /\ CopyOK(req[q], records)
    BY TypeParts DEF RequestsOK, FamilyInv
  <2>2. req' = [req EXCEPT ![q] = x] /\ UNCHANGED records
    BY <1>2, TypeParts DEF Construct, RequestsOK
  <2>3. CopyOK(x, records')
    BY <1>2, <2>1, <2>2 DEF Construct, CopyOK, Request, Working, Phase
  <2> HIDE DEF x
  <2> QED  BY <2>2, <2>3, FamilyCopies, FamilyKept, TypeParts DEF RequestsOK
<1>4. CASE Publish(q) \/ PublishUnconfirmed(q)
  <2> DEFINE rec == [records[r] EXCEPT !.status = "UPGRADING", !.version = req[q].ver]
  <2>0. Published(q)
    BY <1>4 DEF Publish, PublishUnconfirmed
  <2>1. /\ r \in RecordIds /\ r \in Existing /\ records[r] \in Record
        /\ records[r].type = "upgrade" /\ req[q].ver \in Versions
    BY <1>1, <2>0, RequestFields, TypeParts DEF Published, RecordsOK, Existing, Exists
  <2>2. rec \in Record /\ rec.type = "upgrade" /\ rec.status = "UPGRADING"
    BY <2>1 DEF Record, UpgradeStatus
  <2>3. records' = [records EXCEPT ![r] = rec]
    BY <2>0, <2>1, TypeParts DEF Published, RecordsOK
  <2> HIDE DEF rec
  <2>4. StatusFamily' /\ \A p \in Requests : CopyOK(req[p], records')
    BY <2>1, <2>2, <2>3, FamilyWrite DEF FamilyOf
  <2>5. CASE Publish(q)
    BY <2>0, <2>4, <2>5, FamilyGoto DEF Publish, Published, Phase
  <2>6. CASE PublishUnconfirmed(q)
    BY <2>4, <2>6, FamilyReturn DEF PublishUnconfirmed
  <2> QED  BY <1>4, <2>5, <2>6
<1>5. CASE PublishRefused(q)
  BY <1>5, FamilyKept, FamilyReturn DEF PublishRefused
<1>6. CASE SyncNewApp(q)
  BY <1>6, FamilyKept, FamilyGoto DEF SyncNewApp, Phase, Working
<1>7. CASE SyncNewAppFails(q)
  BY <1>1, <1>7, FamilyUpgradeFails DEF SyncNewAppFails, MovingPhase
<1>8. CASE SaveApp(q)
  <2> DEFINE rec == Updated(q, "UPGRADING", req[q].orig)
             x == [req[q] EXCEPT !.pc = "deploy", !.obj = rec]
  <2>1. req[q] \in Request /\ req[q].orig \in Versions
    BY <1>8, RequestFields DEF SaveApp, MovingPhase
  <2>3. /\ rec \in Record /\ rec.status = "UPGRADING" /\ rec.type = "upgrade"
        /\ r \in RecordIds /\ req[q].pc \in Working
    <3>1. rec \in Record
      BY <1>1, <1>8, <2>1, UpdatedType DEF SaveApp, UpgradeStatus
    <3> QED  BY <1>1, <1>8, <3>1 DEF SaveApp, Updated, Record, Working, Phase
  <2>2. /\ StatusFamily'
        /\ \A p \in Requests : CopyOK(req[p], records')
        /\ rec.type = records'[r].type
    <3>1. Save(r, rec) /\ rec.type = req[q].obj.type
      BY <1>1, <1>8, <2>3 DEF SaveApp
    <3> HIDE DEF rec
    <3>2. records'[r] = rec
      BY <2>3, <3>1, TypeParts DEF Save, RecordsOK
    <3> QED  BY <2>3, <3>1, <3>2, FamilySaveCopy DEF FamilyOf
  <2>4. req' = [req EXCEPT ![q] = x]
    BY <1>8, TypeParts DEF SaveApp, RequestsOK
  <2>5. CopyOK(x, records')
    <3> HIDE DEF rec
    <3> QED  BY <2>1, <2>2, <2>3 DEF CopyOK, Request, FamilyOf
  <2> HIDE DEF x
  <2> QED  BY <2>2, <2>4, <2>5, FamilyCopies, TypeParts DEF RequestsOK
<1>9. CASE SaveAppFails(q) \/ DiskPluginFails(q)
  BY <1>1, <1>9, FamilyUpgradeFails DEF SaveAppFails, DiskPluginFails, MovingPhase
<1>10. CASE Undo(q) \/ UndoFails(q)
  BY <1>10, FamilyKept, FamilyReturn DEF Undo, UndoFails
<1> QED
  BY <1>2, <1>3, <1>4, <1>5, <1>6, <1>7, <1>8, <1>9, <1>10 DEF Upgrading

\* Steps of rollbacks keep the family of statuses.
LEMMA FamilyRestores ==
    ASSUME TypeInv, FamilyInv, NEW q \in Requests, Restoring(q)
    PROVE  FamilyInv'
<1> USE DEF db
<1>6. CASE RestoreConstruct(q)
  <2> DEFINE x == [req[q] EXCEPT !.pc = "restoreCancel", !.ver = req[q].obj.snap,
                                 !.orig = console]
  <2>1. req[q] \in Request /\ CopyOK(req[q], records) /\ UNCHANGED records
    BY <1>6, TypeParts DEF RequestsOK, FamilyInv, RestoreConstruct
  <2>2. Return(q) \/ req' = [req EXCEPT ![q] = x]
    BY <1>6, TypeParts DEF RestoreConstruct, RequestsOK
  <2>3. CopyOK(x, records')
    BY <1>6, <2>1 DEF RestoreConstruct, CopyOK, Request, Working, Phase
  <2> HIDE DEF x
  <2> QED  BY <2>1, <2>2, <2>3, FamilyCopies, FamilyKept, FamilyReturn, TypeParts DEF RequestsOK
<1>7. CASE RestoreCancel(q)
  BY <1>7, FamilyKept, FamilyGoto, FamilyReturn DEF RestoreCancel, Phase, Working
<1>1. CASE RestoreSync(q)
  BY <1>1, FamilyKept, FamilyGoto DEF RestoreSync, Phase, Working
<1>2. CASE RestoreSyncFails(q)
  BY <1>2, FamilyKept, FamilyReturn DEF RestoreSyncFails
<1>3. CASE RestoreSave(q) \/ RestoreSaveFails(q)
  BY <1>3, FamilyKept, FamilyGoto DEF RestoreSave, RestoreSaveFails, Phase, Working
<1>4. CASE RestoreRecord(q)
  <2> DEFINE rollback == [type    |-> "rollback",
                          status  |-> "ROLLING",
                          version |-> req[q].obj.old,
                          old     |-> req[q].obj.version,
                          snap    |-> req[q].obj.snap,
                          parent  |-> req[q].rec]
             x == [req[q] EXCEPT !.pc = "deploy", !.rec = NewId, !.obj = rollback]
  <2>1. req[q] \in Request /\ req[q].obj \in Record /\ req[q].rec \in RecordIds
    BY <1>4, RequestFields DEF RestoreRecord, Working, Phase
  <2>2. rollback \in Record /\ rollback.status \in FamilyOf(rollback.type)
    BY <2>1 DEF Record, UpgradeStatus, FamilyOf
  <2>3. NewId \in RecordIds /\ NewId \notin Existing
    BY <1>4, NewIdIsFree DEF RestoreRecord, TypeInv, Existing
  <2>4. /\ records' = [records EXCEPT ![NewId] = rollback]
        /\ req' = [req EXCEPT ![q] = x]
    BY <1>4, TypeParts DEF RestoreRecord, Save, RequestsOK
  <2> HIDE DEF rollback
  <2>5. StatusFamily' /\ \A p \in Requests : CopyOK(req[p], records')
    BY <2>2, <2>3, <2>4, FamilyWrite
  <2>6. records'[NewId] = rollback
    BY <2>3, <2>4, TypeParts DEF RecordsOK
  <2>7. CopyOK(x, records')
    BY <2>1, <2>2, <2>6 DEF CopyOK, Request
  <2> HIDE DEF x
  <2> QED  BY <2>4, <2>5, <2>7, FamilyCopies, TypeParts DEF RequestsOK
<1>5. CASE RestoreRecordFails(q)
  BY <1>5, FamilyKept, FamilyGoto DEF RestoreRecordFails, Phase, Working
<1> QED  BY <1>1, <1>2, <1>3, <1>4, <1>5, <1>6, <1>7 DEF Restoring

\* What a failed request does on its way out keeps the family of statuses.
LEMMA FamilyFailing ==
    ASSUME TypeInv, FamilyInv, NEW q \in Requests, Failing(q)
    PROVE  FamilyInv'
<1> USE DEF db
<1>1. CASE Cancel(q)
  BY <1>1, FamilyKept, FamilyGoto DEF Cancel, Phase, Working
<1>2. CASE RecordFailure(q)
  <2>1. req[q].obj \in Record /\ req[q].pc \in Working
    BY <1>2, RequestFields DEF RecordFailure, Working, Phase
  <2>2. req[q].obj.status \in FamilyOf(req[q].obj.type)
    BY <2>1 DEF FamilyInv, CopyOK
  <2>3. StatusFamily' /\ \A p \in Requests : CopyOK(req[p], records')
    BY <1>2, <2>1, <2>2, FamilySaveCopy DEF RecordFailure
  <2> QED  BY <1>2, <2>1, <2>3, FamilyReturn, FamilyGoto DEF RecordFailure, Phase
<1>3. CASE RecordFailureFails(q)
  BY <1>3, FamilyKept, FamilyReturn DEF RecordFailureFails
<1> QED  BY <1>1, <1>2, <1>3 DEF Failing

\* Steps of deployments and retries keep the family of statuses.
LEMMA FamilyDeploys ==
    ASSUME TypeInv, FamilyInv, NEW q \in Requests, Deploying(q)
    PROVE  FamilyInv'
<1> USE DEF db
<1>1. CASE Deploy(q)
  <2> DEFINE x(n) == [req[q] EXCEPT !.pc = "track", !.n = n]
  <2>1. req[q] \in Request /\ CopyOK(req[q], records)
    BY TypeParts DEF RequestsOK, FamilyInv
  <2>2. PICK n : req' = [req EXCEPT ![q] = x(n)]
    BY <1>1, TypeParts, ZenonT(60) DEF Deploy, RequestsOK
  <2>3. CopyOK(x(n), records') /\ UNCHANGED records
    BY <1>1, <2>1 DEF Deploy, CopyOK, Request, Working, Phase
  <2> HIDE DEF x
  <2> QED  BY <2>2, <2>3, FamilyCopies, FamilyKept, TypeParts DEF RequestsOK
<1>2. CASE DeployFails(q)
  <2> DEFINE restored == [req[q].obj EXCEPT !.status = "DEPLOY_FAILED"]
  <2>1. /\ req[q].obj \in Record /\ req[q].pc \in Working /\ req[q].pc \in MovingPhase
        /\ UNCHANGED records
    BY <1>2, RequestFields DEF DeployFails, Working, MovingPhase, Phase
  <2>2. CASE req[q].obj.type = "upgrade"
    BY <1>2, <2>1, <2>2, FamilyUpgradeFails DEF DeployFails
  <2>3. CASE req[q].obj.type # "upgrade"
    <3>1. restored.type = req[q].obj.type /\ restored.status = "DEPLOY_FAILED"
      BY <2>1 DEF Record
    <3>2. FailsWith(q, "fail", restored)
      BY <1>2, <2>3 DEF DeployFails
    <3>3. restored.status \in FamilyOf(restored.type)
      BY <3>1 DEF FamilyOf
    <3> HIDE DEF restored
    <3> QED  BY <2>1, <3>1, <3>2, <3>3, FamilyFails
  <2> QED  BY <2>2, <2>3
<1>5. CASE Track(q)
  BY <1>5, FamilyKept, FamilyGoto DEF Track, Phase, Working
<1>3. CASE CreateRows(q)
  BY <1>3, FamilyKept, FamilyReturn DEF CreateRows
<1>4. CASE Retry(q) \/ RetryFails(q)
  <2> DEFINE rec(status) == [req[q].obj EXCEPT !.status = status]
  <2>1. req[q].obj \in Record /\ req[q].pc \in Working
    BY <1>4, RequestFields DEF Retry, RetryFails, Working, Phase
  <2>2. PICK status \in {InProgress(req[q].obj.type), "DEPLOY_FAILED"} :
          Save(req[q].rec, rec(status))
    BY <1>4 DEF Retry, RetryFails
  <2>3. status \in UpgradeStatus /\ status \in FamilyOf(req[q].obj.type)
    BY <2>1, <2>2 DEF InProgress, FamilyOf, UpgradeStatus, Record
  <2>4. /\ rec(status) \in Record /\ rec(status).type = req[q].obj.type
        /\ rec(status).status = status
    BY <2>1, <2>3 DEF Record
  <2> HIDE DEF rec
  <2> QED
    BY <1>4, <2>1, <2>2, <2>3, <2>4, FamilySaveCopy, FamilyReturn DEF Retry, RetryFails
<1> QED
  BY <1>1, <1>2, <1>3, <1>4, <1>5 DEF Deploying

\* Polls that write back what they saw keep the family of statuses.
LEMMA FamilySyncs ==
    ASSUME TypeInv, FamilyInv, NEW q \in Requests, Syncing(q)
    PROVE  FamilyInv'
<1> USE DEF db
<1>1. CASE FetchRows(q)
  <2> DEFINE x == [req[q] EXCEPT !.pc = "fetchEvents", !.held = RowsOf(req[q].rec)]
  <2>1. req[q] \in Request /\ CopyOK(req[q], records)
    BY TypeParts DEF RequestsOK, FamilyInv
  <2>2. req' = [req EXCEPT ![q] = x]
    BY <1>1, TypeParts DEF FetchRows, RequestsOK
  <2>3. CopyOK(x, records') /\ UNCHANGED records
    BY <1>1, <2>1 DEF FetchRows, CopyOK, Request, Working, Phase
  <2> HIDE DEF x
  <2> QED  BY <2>2, <2>3, FamilyCopies, FamilyKept, TypeParts DEF RequestsOK
<1>2. CASE FetchEvents(q)
  <2> DEFINE held == [k \in RowIds |-> Refreshed(req[q].held[k], event[k])]
             verdict == Verdict(req[q].obj, held)
             obj == [req[q].obj EXCEPT !.status = verdict]
             x == [req[q] EXCEPT !.pc = "saveRecord", !.held = held, !.obj = obj]
  <2>1. /\ req[q] \in Request /\ CopyOK(req[q], records) /\ req[q].pc \in Working
        /\ req[q].obj \in Record
    BY <1>2, TypeParts, RequestFields
    DEF RequestsOK, FamilyInv, FetchEvents, Working, Phase
  <2>2. req' = [req EXCEPT ![q] = x]
    BY <1>2, FetchEventsRequest
  <2>3. verdict \in FamilyOf(req[q].obj.type)
    BY <2>1 DEF CopyOK, Verdict, AllFailed, Succeeded, Partial, FamilyOf, Record
  <2> HIDE DEF verdict, held
  <2>4. obj.type = req[q].obj.type /\ obj.status = verdict
    BY <2>1 DEF Record
  <2> HIDE DEF obj
  <2>5. CopyOK(x, records')
    BY <1>2, <2>1, <2>3, <2>4 DEF FetchEvents, CopyOK, Request
  <2> HIDE DEF x
  <2> QED
    BY <1>2, <2>2, <2>5, FamilyCopies, FamilyKept, TypeParts DEF FetchEvents, RequestsOK
<1>3. CASE FetchEventsFails(q)
  BY <1>3, FamilyKept, FamilyReturn DEF FetchEventsFails
<1>4. CASE SaveRecord(q)
  <2>1. req[q].obj \in Record /\ req[q].pc \in Working
    BY <1>4, RequestFields DEF SaveRecord, Working, Phase
  <2>2. req[q].obj.status \in FamilyOf(req[q].obj.type)
    BY <2>1 DEF FamilyInv, CopyOK
  <2>3. StatusFamily' /\ \A p \in Requests : CopyOK(req[p], records')
    BY <1>4, <2>1, <2>2, FamilySaveCopy DEF SaveRecord
  <2> QED  BY <1>4, <2>1, <2>3, FamilyReturn, FamilyGoto DEF SaveRecord, Phase
<1>5. CASE DeleteRows(q)
  BY <1>5, FamilyKept, FamilyGoto DEF DeleteRows, Phase, Working
<1>6. CASE InsertRows(q) \/ ListReturn(q)
  BY <1>6, FamilyKept, FamilyReturn DEF InsertRows, ListReturn
<1> QED
  BY <1>1, <1>2, <1>3, <1>4, <1>5, <1>6 DEF Syncing

\* There are no records at first.
LEMMA FamilyInit == Init => FamilyInv
BY DEF Init, FamilyInv, StatusFamily, Existing, Exists, CopyOK, Idle, Working

\* Every step keeps the family of statuses.
LEMMA FamilyNext == TypeInv /\ FamilyInv /\ [Next]_vars => FamilyInv'
<1> SUFFICES ASSUME TypeInv, FamilyInv, [Next]_vars PROVE FamilyInv'
  OBVIOUS
<1>1. ASSUME NEW q \in Requests, Continuing(q) PROVE FamilyInv'
  BY <1>1, FamilyUpgrades, FamilyFailing, FamilyRestores, FamilyDeploys, FamilySyncs
  DEF Continuing
<1>2. ASSUME NEW q \in Requests, Crash(q) PROVE FamilyInv'
  BY <1>2, FamilyKept, FamilyReturn DEF Crash, db
<1>3. ASSUME UNCHANGED <<records, req>> PROVE FamilyInv'
  BY <1>3, FamilyKept DEF FamilyInv
<1> QED
  BY <1>1, <1>2, <1>3, FamilyStarts
  DEF Next, EventEnds, SnapshotWorker, FenceExpires, vars, db

\* However the requests overlap, and although every save writes a whole record
\* read earlier, an upgrade record never shows a status of a rollback nor the
\* other way round.
THEOREM StatusFamilyCorrect == Spec => []StatusFamily
<1>1. FamilyInv => StatusFamily
  BY DEF FamilyInv
<1> QED
  BY <1>1, InitTypes, NextTypes, FamilyInit, FamilyNext, PTL DEF Spec

-----------------------------------------------------------------------------
(* Component records                                                       *)

RowStatus == {"UPGRADING", "UPGRADED", "UPGRADE_FAILED",
              "ROLLING", "ROLLBACK", "ROLLBACK_FAILED"}

Truthful(status, outcome) ==
    /\ status \in RowStatus \cup {None}
    /\ status \in {"UPGRADED", "ROLLBACK"}
          => outcome \in {"success", "timeout", "needless"}
    /\ status \in {"UPGRADE_FAILED", "ROLLBACK_FAILED"} => outcome = "failure"

\* The rows in the table and the copies the polls hold are true, and nobody has
\* a row of a deployment that has not been made.
RowInv ==
    /\ \A k \in RowIds : Truthful(rows[k], event[k])
    /\ \A q \in Requests, k \in RowIds : Truthful(req[q].held[k], event[k])
    /\ \A k \in RowIds : k[2] > batches[k[1]] =>
          rows[k] = None /\ \A q \in Requests : req[q].held[k] = None
    /\ \A q \in Requests :
          req[q].pc \in {"track", "createRows"} => req[q].n <= batches[req[q].rec]

\* What a step does to a request other than deploying and reading rows: it goes
\* on with the rows it holds, or starts or ends without any.
HoldsOn(q) ==
    /\ \A p \in Requests \ {q} : req'[p] = req[p]
    /\ req'[q].held \in {req[q].held, NoRows}
    /\ req'[q].pc \in {"track", "createRows"} =>
          req[q].pc = "track" /\ req'[q].n = req[q].n /\ req'[q].rec = req[q].rec

\* A component record that does not exist claims nothing.
LEMMA NoneTruthful == \A outcome : Truthful(None, outcome)
BY DEF Truthful, RowStatus, UpgradeStatus

\* A step that touches no component record, event or batch.
LEMMA RowQuiet ==
    ASSUME RowInv, NEW q \in Requests, HoldsOn(q), UNCHANGED <<rows, event, batches>>
    PROVE  RowInv'
<1>1. \A k \in RowIds : NoRows[k] = None /\ Truthful(None, event[k])
  BY NoneTruthful DEF NoRows
<1>2. ASSUME NEW p \in Requests, NEW k \in RowIds
      PROVE  req'[p].held[k] \in {req[p].held[k], None}
  BY <1>1 DEF HoldsOn
<1>3. ASSUME NEW p \in Requests, NEW k \in RowIds
      PROVE  Truthful(req'[p].held[k], event[k])
  BY <1>1, <1>2 DEF RowInv
<1> QED  BY <1>2, <1>3 DEF RowInv, HoldsOn

\* A request that returns holds no component records.
LEMMA HoldReturn ==
    ASSUME TypeInv, NEW q \in Requests, Return(q)
    PROVE  HoldsOn(q)
BY TypeParts DEF Return, HoldsOn, RequestsOK, Idle

\* A request that goes on holds the component records it held.
LEMMA HoldGoto ==
    ASSUME TypeInv, NEW q \in Requests, NEW pc, Goto(q, pc),
           pc \in {"track", "createRows"} => req[q].pc = "track"
    PROVE  HoldsOn(q)
BY TypeParts DEF Goto, HoldsOn, RequestsOK, Request

\* A request that starts holds no component records.
LEMMA HoldStart ==
    ASSUME TypeInv, NEW q \in Requests, NEW pc, NEW r, NEW ver, NEW orig,
           Start(q, pc, r, ver, orig), pc \notin {"track", "createRows"}
    PROVE  HoldsOn(q)
BY TypeParts DEF Start, HoldsOn, RequestsOK

\* First steps of requests keep the component records truthful.
LEMMA RowStarts ==
    ASSUME TypeInv, RowInv, NEW q \in Requests, Starting(q)
    PROVE  RowInv'
<1>1. UNCHANGED <<rows, event, batches>>
  BY DEF Starting, CreateRead, UpgradeLoad, UpgradeComponentLoad, RestoreLoad,
         RetryLoad, Poll, List, db, deployments
<1>2. \E pc \in Phase \ {"track", "createRows"} :
        \E r, ver, orig : Start(q, pc, r, ver, orig)
  BY DEF Starting, CreateRead, UpgradeLoad, UpgradeComponentLoad, RestoreLoad,
         RetryLoad, Poll, List, Phase
<1> QED  BY <1>1, <1>2, HoldStart, RowQuiet

\* Upgrades and rollbacks touch no component record.
LEMMA RowUpgrades ==
    ASSUME TypeInv, RowInv, NEW q \in Requests,
           CreateInsert(q) \/ Upgrading(q) \/ Failing(q) \/ Restoring(q) \/ Track(q)
    PROVE  RowInv'
<1>1. UNCHANGED <<rows, event, batches>>
  BY DEF CreateInsert, Upgrading, Construct, Published, Publish, PublishUnconfirmed,
         PublishRefused, SyncNewApp, SyncNewAppFails,
         SaveApp, SaveAppFails, DiskPluginFails, Undo, UndoFails,
         Failing, Cancel, RecordFailure, RecordFailureFails, Restoring,
         RestoreConstruct, RestoreCancel,
         RestoreSync, RestoreSyncFails, RestoreSave, RestoreSaveFails, RestoreRecord,
         RestoreRecordFails, Track, db, deployments
<1>2. CASE SaveApp(q) \/ RestoreRecord(q) \/ SyncNewAppFails(q) \/ SaveAppFails(q)
           \/ DiskPluginFails(q) \/ Construct(q)
  <2>1. HoldsOn(q)
    BY <1>2, TypeParts
    DEF SaveApp, RestoreRecord, SyncNewAppFails, SaveAppFails, DiskPluginFails, Construct,
        FailsWith, HoldsOn, RequestsOK, Request
  <2> QED  BY <1>1, <2>1, RowQuiet
<1>3. CASE RestoreConstruct(q)
  <2>1. CASE Return(q)
    BY <1>1, <2>1, HoldReturn, RowQuiet
  <2>2. CASE ~Return(q)
    <3>1. HoldsOn(q)
      BY <1>3, <2>2, TypeParts DEF RestoreConstruct, HoldsOn, RequestsOK, Request
    <3> QED  BY <1>1, <3>1, RowQuiet
  <2> QED  BY <2>1, <2>2
<1>4. CASE Track(q)
  BY <1>1, <1>4, HoldGoto, RowQuiet DEF Track
<1>5. CASE \/ CreateInsert(q) \/ Publish(q) \/ PublishUnconfirmed(q)
           \/ PublishRefused(q) \/ SyncNewApp(q) \/ Undo(q) \/ UndoFails(q)
           \/ Failing(q) \/ RestoreCancel(q) \/ RestoreSync(q)
           \/ RestoreSyncFails(q) \/ RestoreSave(q) \/ RestoreSaveFails(q)
           \/ RestoreRecordFails(q)
  <2>1. Return(q) \/ \E pc \in Phase \ {"track", "createRows"} : Goto(q, pc)
    BY <1>5
    DEF CreateInsert, Publish, PublishUnconfirmed, PublishRefused, SyncNewApp,
        Undo, UndoFails, Failing, Cancel, RecordFailure, RecordFailureFails,
        RestoreCancel, RestoreSync, RestoreSyncFails, RestoreSave, RestoreSaveFails,
        RestoreRecordFails, Phase
  <2> QED  BY <1>1, <2>1, HoldReturn, HoldGoto, RowQuiet
<1> QED  BY <1>2, <1>3, <1>4, <1>5 DEF Upgrading, Restoring

\* A deployment starts a batch of events no component record speaks of.
LEMMA RowDeploys ==
    ASSUME TypeInv, RowInv, NEW q \in Requests, Deploy(q) \/ DeployFails(q)
    PROVE  RowInv'
<1> DEFINE r == req[q].rec
           n == batches[r] + 1
<1>1. /\ r \in RecordIds /\ batches \in [RecordIds -> Nat]
      /\ \A k \in RowIds : k[1] \in RecordIds /\ k[2] \in Nat
  <2>1. r \in RecordIds
    BY RequestFields DEF Deploy, DeployFails, Working, Phase
  <2>2. batches \in [RecordIds -> 0 .. MaxBatches]
    BY TypeParts DEF WorldOK
  <2>3. batches \in [RecordIds -> Nat]
    BY <2>2
  <2>4. \A k \in RowIds : k[1] \in RecordIds /\ k[2] \in Nat
    BY DEF RowIds
  <2> QED  BY <2>1, <2>3, <2>4
<1>2. batches' = [batches EXCEPT ![r] = n] /\ UNCHANGED rows
  BY DEF Deploy, DeployFails, db
<1>3. ASSUME NEW k \in RowIds, ~ (k[1] = r /\ k[2] = n)
      PROVE  event'[k] = event[k]
  BY <1>3 DEF Deploy, DeployFails
<1>4. /\ \A p \in Requests \ {q} : req'[p] = req[p]
      /\ req'[q].held \in {req[q].held, NoRows}
      /\ req'[q].pc \in {"track", "createRows"} => req'[q].n = n /\ req'[q].rec = r
  <2>1. req \in [Requests -> Request]
    BY TypeParts DEF RequestsOK
  <2>2. CASE Deploy(q)
    <3>1. req' = [req EXCEPT ![q].pc = "track", ![q].n = n]
      BY <2>2 DEF Deploy
    <3>2. req'[q] = [req[q] EXCEPT !.pc = "track", !.n = n]
      BY <2>1, <3>1
    <3> HIDE DEF n
    <3> QED  BY <2>1, <3>1, <3>2 DEF Request
  <2>3. CASE DeployFails(q)
    BY <2>1, <2>3 DEF DeployFails, FailsWith, Request
  <2> QED  BY <2>2, <2>3
<1>5. ASSUME NEW p \in Requests, NEW k \in RowIds
      PROVE  req'[p].held[k] \in {req[p].held[k], None}
  BY <1>4 DEF NoRows
<1>6. ASSUME NEW k \in RowIds, k[1] = r, k[2] = n
      PROVE  rows[k] = None /\ \A p \in Requests : req[p].held[k] = None
  <2>1. k[2] > batches[k[1]]
    BY <1>1, <1>6
  <2> QED  BY <2>1 DEF RowInv
<1>7. \A k \in RowIds : Truthful(rows'[k], event'[k])
  BY <1>2, <1>3, <1>6, NoneTruthful DEF RowInv
<1>8. \A p \in Requests, k \in RowIds : Truthful(req'[p].held[k], event'[k])
  BY <1>3, <1>5, <1>6, NoneTruthful DEF RowInv
<1>9. ASSUME NEW s \in RecordIds PROVE batches'[s] >= batches[s]
  <2>1. batches'[s] \in {batches[s], batches[r] + 1} /\ (s # r => batches'[s] = batches[s])
    BY <1>1, <1>2
  <2>2. batches[s] \in Nat
    BY <1>1
  <2> QED  BY <2>1, <2>2
<1>10. ASSUME NEW k \in RowIds, k[2] > batches'[k[1]]
       PROVE  rows'[k] = None /\ \A p \in Requests : req'[p].held[k] = None
  <2>1. k[2] > batches[k[1]]
    BY <1>1, <1>2, <1>9, <1>10
  <2> QED  BY <1>2, <1>5, <2>1 DEF RowInv
<1>11. ASSUME NEW p \in Requests, req'[p].pc \in {"track", "createRows"}
       PROVE  req'[p].n <= batches'[req'[p].rec]
  <2>1. CASE p = q
    BY <1>1, <1>2, <1>4, <1>11, <2>1
  <2>2. CASE p # q
    <3>1. req'[p] = req[p] /\ req[p].n <= batches[req[p].rec]
      BY <1>4, <1>11, <2>2 DEF RowInv
    <3>2. req[p].rec \in RecordIds /\ req[p].n \in Nat
      BY <1>11, <3>1, TypeParts, RequestFields DEF Working, Phase, Request
    <3> QED  BY <1>1, <1>2, <1>9, <3>1, <3>2
  <2> QED  BY <2>1, <2>2
<1> QED  BY <1>7, <1>8, <1>10, <1>11 DEF RowInv

\* A step that changes rows, all of them truthfully and none of a deployment
\* that has not been made.
LEMMA RowWrite ==
    ASSUME RowInv, NEW q \in Requests, HoldsOn(q), UNCHANGED <<event, batches>>,
           \A k \in RowIds : Truthful(rows'[k], event[k]),
           \A k \in RowIds : k[2] > batches[k[1]] => rows'[k] = None
    PROVE  RowInv'
<1>1. \A k \in RowIds : NoRows[k] = None /\ Truthful(None, event[k])
  BY NoneTruthful DEF NoRows
<1>2. ASSUME NEW p \in Requests, NEW k \in RowIds
      PROVE  req'[p].held[k] \in {req[p].held[k], None}
  BY <1>1 DEF HoldsOn
<1>3. ASSUME NEW p \in Requests, NEW k \in RowIds
      PROVE  Truthful(req'[p].held[k], event[k])
  BY <1>1, <1>2 DEF RowInv
<1> QED  BY <1>2, <1>3 DEF RowInv, HoldsOn

\* The component records of a new batch are truthful.
LEMMA RowCreates ==
    ASSUME TypeInv, RowInv, NEW q \in Requests, CreateRows(q)
    PROVE  RowInv'
<1> USE DEF deployments
<1> DEFINE r == req[q].rec
           n == req[q].n
           mine == {k \in Deployment(q) : event[k] # "none"}
<1>1. /\ HoldsOn(q) /\ UNCHANGED <<event, batches>>
      /\ req[q].pc = "createRows"
  BY HoldReturn DEF CreateRows
<1>2. n <= batches[r] /\ n \in Nat /\ batches[r] \in Nat /\ r \in RecordIds
  <2>1. r \in RecordIds /\ n \in 0 .. MaxBatches
    BY <1>1, RequestFields DEF Working, Phase, Request
  <2>2. batches[r] \in 0 .. MaxBatches
    BY <2>1, TypeParts DEF WorldOK
  <2> QED  BY <1>1, <2>1, <2>2 DEF RowInv
<1>3. ASSUME NEW k \in RowIds PROVE Truthful(rows'[k], event[k])
  <2>1. rows'[k] = IF k \notin mine THEN rows[k]
                   ELSE IF event[k] = "needless" THEN Succeeded(req[q].obj.type)
                   ELSE InProgress(req[q].obj.type)
    BY DEF CreateRows
  <2> QED
    BY <2>1 DEF RowInv, Truthful, RowStatus, Succeeded, InProgress
<1>4. ASSUME NEW k \in RowIds, k[2] > batches[k[1]] PROVE rows'[k] = None
  <2>1. k \notin mine
    BY <1>2, <1>4 DEF Deployment
  <2>2. rows'[k] = rows[k]
    BY <2>1 DEF CreateRows
  <2> QED  BY <1>4, <2>2 DEF RowInv
<1> QED  BY <1>1, <1>3, <1>4, RowWrite

\* A component record never has a status that a retry looks for.
LEMMA NothingToRetry ==
    ASSUME RowInv, NEW r
    PROVE  RetryTargets(r) = {}
BY DEF RowInv, RetryTargets, Truthful, RowStatus, UpgradeStatus

\* A retry finds nothing to retry.
LEMMA RowRetries ==
    ASSUME TypeInv, RowInv, NEW q \in Requests, Retry(q) \/ RetryFails(q)
    PROVE  RowInv'
<1>1. HoldsOn(q)
  BY HoldReturn DEF Retry, RetryFails
<1>2. UNCHANGED <<rows, event, batches>>
  <2>1. CASE Retry(q)
    <3>1. /\ rows' = [k \in RowIds |-> rows[k]]
          /\ event' = [k \in RowIds |-> event[k]]
      BY <2>1, NothingToRetry DEF Retry
    <3> QED  BY <2>1, <3>1, TypeParts DEF Retry, WorldOK
  <2>2. CASE RetryFails(q)
    BY <2>2 DEF RetryFails, deployments
  <2> QED  BY <2>1, <2>2
<1> QED  BY <1>1, <1>2, RowQuiet

\* A step that fills the copies a request holds, truthfully.
LEMMA RowRead ==
    ASSUME TypeInv, RowInv, NEW q \in Requests, NEW x, x.pc \notin {"track", "createRows"},
           req' = [req EXCEPT ![q] = x],
           UNCHANGED <<rows, event, batches>>,
           \A k \in RowIds : Truthful(x.held[k], event[k]),
           \A k \in RowIds : k[2] > batches[k[1]] => x.held[k] = None
    PROVE  RowInv'
<1>1. req \in [Requests -> Request]
  BY TypeParts DEF RequestsOK
<1>2. req'[q] = x /\ \A p \in Requests \ {q} : req'[p] = req[p]
  BY <1>1
<1>3. ASSUME NEW p \in Requests, NEW k \in RowIds
      PROVE  /\ Truthful(req'[p].held[k], event[k])
             /\ k[2] > batches[k[1]] => req'[p].held[k] = None
  <2>1. CASE p = q
    BY <1>2, <2>1
  <2>2. CASE p # q
    BY <1>2, <2>2 DEF RowInv
  <2> QED  BY <2>1, <2>2
<1> QED  BY <1>2, <1>3 DEF RowInv

\* What a poll reads of component records and events is truthful.
LEMMA RowReads ==
    ASSUME TypeInv, RowInv, NEW q \in Requests, FetchRows(q) \/ FetchEvents(q)
    PROVE  RowInv'
<1>1. req \in [Requests -> Request] /\ UNCHANGED <<rows, event, batches>>
  BY TypeParts DEF RequestsOK, FetchRows, FetchEvents, db, deployments
<1>2. CASE FetchRows(q)
  <2> DEFINE x == [req[q] EXCEPT !.pc = "fetchEvents", !.held = RowsOf(req[q].rec)]
  <2>1. req' = [req EXCEPT ![q] = x]
    BY <1>1, <1>2 DEF FetchRows
  <2>2. x.pc \notin {"track", "createRows"} /\ x.held = RowsOf(req[q].rec)
    BY <1>1 DEF Request
  <2> HIDE DEF x
  <2>3. \A k \in RowIds : Truthful(x.held[k], event[k])
    BY <2>2, NoneTruthful DEF RowsOf, RowInv
  <2>4. \A k \in RowIds : k[2] > batches[k[1]] => x.held[k] = None
    BY <2>2 DEF RowsOf, RowInv
  <2> QED  BY <1>1, <2>1, <2>2, <2>3, <2>4, RowRead
<1>3. CASE FetchEvents(q)
  <2> DEFINE held == [k \in RowIds |-> Refreshed(req[q].held[k], event[k])]
             obj == [req[q].obj EXCEPT !.status = Verdict(req[q].obj, held)]
             x == [req[q] EXCEPT !.pc = "saveRecord", !.held = held, !.obj = obj]
  <2>1. req' = [req EXCEPT ![q] = x]
    BY <1>3, FetchEventsRequest
  <2> HIDE DEF obj
  <2>2. x.pc \notin {"track", "createRows"} /\ x.held = held
    <3> HIDE DEF held
    <3> QED  BY <1>1 DEF Request
  <2> HIDE DEF x
  <2>3. ASSUME NEW k \in RowIds PROVE Truthful(x.held[k], event[k])
    BY <2>2 DEF RowInv, Truthful, RowStatus, Refreshed, StatusTable
  <2>4. ASSUME NEW k \in RowIds, k[2] > batches[k[1]] PROVE x.held[k] = None
    <3>1. req[q].held[k] = None
      BY <2>4 DEF RowInv
    <3> QED
      BY <2>2, <3>1 DEF Refreshed, StatusTable, UpgradeStatus
  <2> QED  BY <1>1, <2>1, <2>2, <2>3, <2>4, RowRead
<1> QED  BY <1>2, <1>3

\* What a poll writes back is still truthful.
LEMMA RowSyncs ==
    ASSUME TypeInv, RowInv, NEW q \in Requests,
           \/ FetchEventsFails(q) \/ SaveRecord(q) \/ ListReturn(q)
           \/ DeleteRows(q) \/ InsertRows(q)
    PROVE  RowInv'
<1>1. HoldsOn(q) /\ UNCHANGED <<event, batches>>
  BY HoldReturn, HoldGoto
  DEF FetchEventsFails, SaveRecord, ListReturn, DeleteRows, InsertRows, deployments
<1>2. CASE FetchEventsFails(q) \/ SaveRecord(q) \/ ListReturn(q)
  BY <1>1, <1>2, RowQuiet DEF FetchEventsFails, SaveRecord, ListReturn, db
<1>3. CASE DeleteRows(q)
  <2>1. \A k \in RowIds : rows'[k] \in {rows[k], None}
    BY <1>3 DEF DeleteRows
  <2>2. \A k \in RowIds : Truthful(rows'[k], event[k])
    BY <2>1, NoneTruthful DEF RowInv
  <2> QED  BY <1>1, <2>1, <2>2, RowWrite DEF RowInv
<1>4. CASE InsertRows(q)
  <2>1. \A k \in RowIds : rows'[k] \in {rows[k], req[q].held[k]}
    BY <1>4, TypeParts DEF InsertRows, WorldOK
  <2>2. \A k \in RowIds : Truthful(rows'[k], event[k])
    BY <2>1 DEF RowInv
  <2>3. \A k \in RowIds : k[2] > batches[k[1]] => rows'[k] = None
    BY <2>1 DEF RowInv
  <2> QED  BY <1>1, <2>2, <2>3, RowWrite
<1> QED  BY <1>2, <1>3, <1>4

\* An event that ends was running, and nobody has reported it yet.
LEMMA RowEvent ==
    ASSUME TypeInv, RowInv, NEW k \in RowIds, EventEnds(k)
    PROVE  RowInv'
<1>1. /\ UNCHANGED <<rows, req, batches>>
      /\ event[k] = "running"
      /\ \A j \in RowIds \ {k} : event'[j] = event[j]
  BY TypeParts DEF EventEnds, db, WorldOK
<1>2. \A status : Truthful(status, "running") => \A o : Truthful(status, o)
  BY DEF Truthful
<1>3. \A j \in RowIds : \A status : Truthful(status, event[j]) => Truthful(status, event'[j])
  BY <1>1, <1>2
<1> QED  BY <1>1, <1>3 DEF RowInv

\* There are no component records at first.
LEMMA RowInit == Init => RowInv
<1> SUFFICES ASSUME Init PROVE RowInv
  OBVIOUS
<1>1. \A k \in RowIds : rows[k] = None /\ \A q \in Requests : req[q].held[k] = None
  BY DEF Init, NoRows, Idle
<1>2. \A q \in Requests : req[q].pc \notin {"track", "createRows"}
  BY DEF Init, Idle
<1> QED  BY <1>1, <1>2, NoneTruthful DEF RowInv

\* Every step keeps the component records truthful.
LEMMA RowNext == TypeInv /\ RowInv /\ [Next]_vars => RowInv'
<1> SUFFICES ASSUME TypeInv, RowInv, [Next]_vars PROVE RowInv'
  OBVIOUS
<1>1. ASSUME NEW q \in Requests, Continuing(q) PROVE RowInv'
  BY <1>1, RowUpgrades, RowDeploys, RowCreates, RowRetries, RowReads, RowSyncs
  DEF Continuing, Deploying, Syncing
<1>2. ASSUME NEW q \in Requests, Crash(q) PROVE RowInv'
  BY <1>2, HoldReturn, RowQuiet DEF Crash, db, deployments
<1>3. ASSUME UNCHANGED <<rows, event, batches, req>> PROVE RowInv'
  BY <1>3 DEF RowInv
<1> QED
  BY <1>1, <1>2, <1>3, RowStarts, RowEvent
  DEF Next, SnapshotWorker, FenceExpires, vars, db, deployments

\* However the polls of a record overlap, a component is reported upgraded or
\* rolled back only when its deployment ended well, and failed only when it
\* failed.
THEOREM RowTruthCorrect == Spec => []RowTruth
<1>1. RowInv => RowTruth
  BY DEF RowInv, RowTruth, Truthful
<1> QED
  BY <1>1, InitTypes, NextTypes, RowInit, RowNext, PTL DEF Spec
=============================================================================
