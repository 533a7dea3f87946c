------------------------ MODULE ComponentRecordProofs ------------------------
(***************************************************************************)
(* Theorems about the component records of AppUpgrade: polls that delete   *)
(* and insert copies of them, and the verdicts computed from the copies.   *)
(* The types and the truth of single rows are those of AppUpgradeProofs.   *)
(* At the end, what holds when requests come one at a time, and what the   *)
(* claim of before_upgrade gives to upgrades that overlap.                 *)
(***************************************************************************)
EXTENDS AppUpgradeProofs

USE ConstantsAssumption, NoneAssumption DEF NoId

-----------------------------------------------------------------------------
(* Batches                                                                 *)

\* Phases in which a poll holds copies of component records.
Holding == {"fetchEvents", "saveRecord", "deleteRows", "insertRows"}

SameBatch(j, k) == j[1] = k[1] /\ j[2] = k[2]

\* Of every batch among the rows m, rs has all or none.
Whole(rs, m) == \A j, k \in m : SameBatch(j, k) => (rs[j] = None <=> rs[k] = None)

\* A request holds whole batches of its own record.
HeldOK(x, m) ==
    /\ Present(x.held) \subseteq m
    /\ \A k \in Present(x.held) : k[1] = x.rec
    /\ x.pc \notin Holding => Present(x.held) = {}
    /\ Whole(x.held, m)

\* Phases of a request that has deployed a batch and made no rows of it.
Numbered == {"track", "createRows"}

\* Nobody else makes the batch that a request is about to make.
OwnBatch(q) ==
    req[q].pc \in Numbered =>
        /\ \A k \in made : k[1] = req[q].rec => k[2] # req[q].n
        /\ \A p \in Requests \ {q} :
              req[p].pc \in Numbered /\ req[p].rec = req[q].rec => req[p].n # req[q].n

\* The request does not come by a batch in this step.
NoNewBatch(q) ==
    req'[q].pc \in Numbered =>
        req[q].pc \in Numbered /\ req'[q].n = req[q].n /\ req'[q].rec = req[q].rec

TableOK == Present(rows) \subseteq made /\ Whole(rows, made)

BatchInv ==
    /\ TableOK
    /\ \A q \in Requests : HeldOK(req[q], made)
    /\ \A k \in made : k[2] <= batches[k[1]]
    /\ \A q \in Requests : OwnBatch(q)

\* Whoever holds nothing holds whole batches.
LEMMA EmptyHeld ==
    ASSUME NEW x, x.held = NoRows, NEW m \in SUBSET RowIds
    PROVE  HeldOK(x, m)
<1>1. \A k \in RowIds : x.held[k] = None
  BY DEF NoRows
<1> QED  BY <1>1 DEF HeldOK, Present, Whole

\* A request is well-formed after a step that leaves its record and its rows
\* alone and does not lead a holder astray.
LEMMA HeldKept ==
    ASSUME NEW x, NEW y, NEW m, HeldOK(x, m), y.held = x.held, y.rec = x.rec,
           x.pc \in Holding => y.pc \in Holding
    PROVE  HeldOK(y, m)
BY DEF HeldOK

\* A step of one request that makes no new rows.
LEMMA BatchStep ==
    ASSUME BatchInv, NEW q \in Requests,
           UNCHANGED <<batches, made>>, TableOK',
           \A p \in Requests \ {q} : req'[p] = req[p],
           HeldOK(req'[q], made), NoNewBatch(q)
    PROVE  BatchInv'
<1>1. \A p \in Requests : HeldOK(req'[p], made')
  BY DEF BatchInv
<1>2. \A p \in Requests : OwnBatch(p)'
  BY DEF BatchInv, OwnBatch, NoNewBatch
<1> QED  BY <1>1, <1>2 DEF BatchInv

\* The table is in order as long as nothing is written to it.
LEMMA TableKept ==
    ASSUME BatchInv, UNCHANGED <<rows, made>>
    PROVE  TableOK'
BY DEF BatchInv, TableOK, Whole, Present

\* A request that returns, or starts, holds nothing.
LEMMA HeldReturn ==
    ASSUME TypeInv, NEW q \in Requests, Return(q)
    PROVE  /\ \A p \in Requests \ {q} : req'[p] = req[p]
           /\ HeldOK(req'[q], made) /\ NoNewBatch(q)
<1>1. made \in SUBSET RowIds /\ req \in [Requests -> Request]
  BY TypeParts DEF WorldOK, RequestsOK
<1>2. req'[q] = Idle /\ \A p \in Requests \ {q} : req'[p] = req[p]
  BY <1>1 DEF Return
<1>3. Idle.held = NoRows /\ Idle.pc = "idle"
  BY DEF Idle
<1> QED  BY <1>1, <1>2, <1>3, EmptyHeld DEF NoNewBatch, Numbered

LEMMA HeldStart ==
    ASSUME TypeInv, NEW q \in Requests, NEW pc, NEW r, NEW ver, NEW orig,
           Start(q, pc, r, ver, orig), pc \notin Numbered
    PROVE  /\ \A p \in Requests \ {q} : req'[p] = req[p]
           /\ HeldOK(req'[q], made) /\ NoNewBatch(q)
<1>1. made \in SUBSET RowIds /\ req \in [Requests -> Request]
  BY TypeParts DEF WorldOK, RequestsOK
<1>2. /\ req'[q].held = NoRows /\ req'[q].pc = pc
      /\ \A p \in Requests \ {q} : req'[p] = req[p]
  BY <1>1 DEF Start
<1> QED  BY <1>1, <1>2, EmptyHeld DEF NoNewBatch

\* A request that goes on keeps what it holds.
LEMMA HeldGoto ==
    ASSUME TypeInv, BatchInv, NEW q \in Requests, NEW pc, Goto(q, pc),
           pc \in Numbered => req[q].pc \in Numbered,
           req[q].pc \in Holding => pc \in Holding
    PROVE  /\ \A p \in Requests \ {q} : req'[p] = req[p]
           /\ HeldOK(req'[q], made) /\ NoNewBatch(q)
<1>1. req \in [Requests -> Request]
  BY TypeParts DEF RequestsOK
<1>2. /\ req'[q].held = req[q].held /\ req'[q].rec = req[q].rec
      /\ req'[q].n = req[q].n /\ req'[q].pc = pc
      /\ \A p \in Requests \ {q} : req'[p] = req[p]
  BY <1>1 DEF Goto, Request
<1> QED  BY <1>2, HeldKept DEF BatchInv, NoNewBatch

\* First steps of requests leave every batch whole.
LEMMA BatchStarts ==
    ASSUME TypeInv, BatchInv, NEW q \in Requests, Starting(q)
    PROVE  BatchInv'
<1>1. UNCHANGED <<rows, batches, made>>
  BY DEF Starting, CreateRead, UpgradeLoad, UpgradeComponentLoad, RestoreLoad,
         RetryLoad, Poll, List, db, deployments, history
<1>2. \E pc \in Phase \ Numbered : \E r, ver, orig : Start(q, pc, r, ver, orig)
  BY DEF Starting, CreateRead, UpgradeLoad, UpgradeComponentLoad, RestoreLoad,
         RetryLoad, Poll, List, Phase, Numbered
<1> QED  BY <1>1, <1>2, HeldStart, TableKept, BatchStep

\* Upgrades and rollbacks, but for their deployment, leave every batch whole.
LEMMA BatchUpgrades ==
    ASSUME TypeInv, BatchInv, NEW q \in Requests,
           CreateInsert(q) \/ Upgrading(q) \/ Failing(q) \/ Restoring(q) \/ Track(q)
    PROVE  BatchInv'
<1>1. UNCHANGED <<rows, batches, made>>
  BY DEF CreateInsert, Upgrading, Construct, Published, Publish, PublishUnconfirmed,
         PublishRefused, SyncNewApp, SyncNewAppFails,
         SaveApp, SaveAppFails, DiskPluginFails, Undo, UndoFails,
         Failing, Cancel, RecordFailure, RecordFailureFails, Restoring,
         RestoreConstruct, RestoreCancel,
         RestoreSync, RestoreSyncFails, RestoreSave, RestoreSaveFails, RestoreRecord,
         RestoreRecordFails, Track, db, deployments, history
<1>2. req \in [Requests -> Request] /\ HeldOK(req[q], made)
  BY TypeParts DEF RequestsOK, BatchInv
<1>3. CASE SaveApp(q) \/ SyncNewAppFails(q) \/ SaveAppFails(q) \/ DiskPluginFails(q)
           \/ Construct(q) \/ (RestoreConstruct(q) /\ ~Return(q))
  <2>1. /\ req'[q].held = req[q].held /\ req'[q].rec = req[q].rec
        /\ req'[q].pc \in {"publish", "deploy", "cancel", "cancelUndo", "restoreCancel"}
        /\ req[q].pc \notin Holding
        /\ \A p \in Requests \ {q} : req'[p] = req[p]
    BY <1>2, <1>3
    DEF SaveApp, SyncNewAppFails, SaveAppFails, DiskPluginFails, Construct,
        RestoreConstruct, FailsWith, Request, Holding
  <2> QED
    BY <1>1, <1>2, <2>1, HeldKept, TableKept, BatchStep DEF NoNewBatch, Numbered
<1>4. CASE RestoreRecord(q)
  <2>1. /\ req'[q].held = req[q].held
        /\ req'[q].pc = "deploy" /\ req[q].pc = "restoreRecord"
        /\ \A p \in Requests \ {q} : req'[p] = req[p]
    BY <1>2, <1>4 DEF RestoreRecord, Request
  <2>2. HeldOK(req'[q], made)
    BY <1>2, <2>1 DEF HeldOK, Holding
  <2> QED  BY <1>1, <2>1, <2>2, TableKept, BatchStep DEF NoNewBatch, Numbered
<1>5. CASE Track(q)
  <2>1. Goto(q, "createRows") /\ req[q].pc = "track"
    BY <1>5 DEF Track
  <2> QED  BY <1>1, <2>1, HeldGoto, TableKept, BatchStep DEF Numbered, Holding
<1>6. CASE Return(q)
  BY <1>1, <1>6, HeldReturn, TableKept, BatchStep
<1>7. ASSUME NEW pc \in Phase \ Numbered, Goto(q, pc), req[q].pc \notin Holding
      PROVE  BatchInv'
  BY <1>1, <1>7, HeldGoto, TableKept, BatchStep
<1>8. CASE \/ CreateInsert(q) \/ PublishUnconfirmed(q) \/ PublishRefused(q)
           \/ Undo(q) \/ UndoFails(q)
  BY <1>6, <1>8 DEF CreateInsert, PublishUnconfirmed, PublishRefused, Undo, UndoFails
<1>11. CASE Publish(q) \/ SyncNewApp(q)
  <2>1. \/ req[q].pc = "publish" /\ Goto(q, "sync")
        \/ req[q].pc = "sync" /\ Goto(q, "save")
    BY <1>11 DEF Publish, Published, SyncNewApp
  <2> QED  BY <1>7, <2>1 DEF Phase, Numbered, Holding
<1>9. CASE Failing(q)
  BY <1>6, <1>7, <1>9
  DEF Failing, Cancel, RecordFailure, RecordFailureFails, Phase, Numbered, Holding
<1>10. CASE \/ RestoreCancel(q) \/ RestoreSync(q) \/ RestoreSyncFails(q)
            \/ RestoreSave(q) \/ RestoreSaveFails(q) \/ RestoreRecordFails(q)
  BY <1>6, <1>7, <1>10
  DEF RestoreCancel, RestoreSync, RestoreSyncFails, RestoreSave, RestoreSaveFails,
      RestoreRecordFails, Phase, Numbered, Holding
<1> QED  BY <1>3, <1>4, <1>5, <1>6, <1>8, <1>9, <1>10, <1>11 DEF Upgrading, Restoring

\* A deployment takes a batch number that nobody has.
LEMMA BatchDeploys ==
    ASSUME TypeInv, RowInv, BatchInv, NEW q \in Requests, Deploy(q) \/ DeployFails(q)
    PROVE  BatchInv'
<1> DEFINE r == req[q].rec
           n == batches[r] + 1
<1>1. /\ r \in RecordIds /\ batches \in [RecordIds -> Nat]
      /\ \A k \in made : k[1] \in RecordIds /\ k[2] \in Nat
  <2>1. r \in RecordIds
    BY RequestFields DEF Deploy, DeployFails, Working, Phase
  <2>2. batches \in [RecordIds -> 0 .. MaxBatches] /\ made \subseteq RowIds
    BY TypeParts DEF WorldOK
  <2>3. batches \in [RecordIds -> Nat]
    BY <2>2
  <2>4. \A k \in RowIds : k[1] \in RecordIds /\ k[2] \in Nat
    BY DEF RowIds
  <2> QED  BY <2>1, <2>2, <2>3, <2>4
<1>2. batches' = [batches EXCEPT ![r] = n] /\ UNCHANGED <<rows, made>>
  BY DEF Deploy, DeployFails, db, history
<1>3. ASSUME NEW s \in RecordIds PROVE batches'[s] >= batches[s]
  <2>1. batches'[s] \in {batches[s], batches[r] + 1} /\ (s # r => batches'[s] = batches[s])
    BY <1>1, <1>2
  <2>2. batches[s] \in Nat
    BY <1>1
  <2> QED  BY <2>1, <2>2
<1>4. \A p \in Requests \ {q} : req'[p] = req[p]
  BY TypeParts DEF RequestsOK, Deploy, DeployFails, FailsWith
<1>5. /\ HeldOK(req'[q], made)
      /\ req'[q].pc \in Numbered => req'[q].n = n /\ req'[q].rec = r
  <2>1. req \in [Requests -> Request] /\ HeldOK(req[q], made)
    BY TypeParts DEF RequestsOK, BatchInv
  <2>2. CASE Deploy(q)
    <3>1. req' = [req EXCEPT ![q].pc = "track", ![q].n = n]
      BY <2>2 DEF Deploy
    <3>2. req'[q] = [req[q] EXCEPT !.pc = "track", !.n = n]
      BY <2>1, <3>1
    <3> HIDE DEF n
    <3>3. req'[q].held = req[q].held /\ req'[q].rec = r /\ req'[q].n = n
      BY <2>1, <3>2 DEF Request
    <3>4. req[q].pc = "deploy"
      BY <2>2 DEF Deploy
    <3> QED  BY <2>1, <3>3, <3>4, HeldKept DEF Holding
  <2>3. CASE DeployFails(q)
    <3>1. /\ req'[q].held = req[q].held /\ req'[q].rec = req[q].rec
          /\ req[q].pc = "deploy" /\ req'[q].pc \in {"cancel", "fail"}
      BY <2>1, <2>3 DEF DeployFails, FailsWith, Request
    <3> QED  BY <2>1, <3>1, HeldKept DEF Holding, Numbered
  <2> QED  BY <2>2, <2>3
<1>6. ASSUME NEW k \in made PROVE k[2] <= batches'[k[1]]
  <2>1. k[2] <= batches[k[1]]
    BY DEF BatchInv
  <2>2. /\ k[1] \in RecordIds /\ k[2] \in Nat
        /\ batches[k[1]] \in Nat /\ batches'[k[1]] \in Nat
    BY <1>1, <1>2
  <2> QED  BY <1>3, <2>1, <2>2
<1>7. ASSUME NEW p \in Requests \ {q}, req[p].pc \in Numbered, req[p].rec = r
      PROVE  req[p].n # n
  <2>1. req[p].n <= batches[r] /\ req[p].n \in Nat
    BY <1>7, TypeParts DEF RowInv, RequestsOK, Request, Numbered
  <2>2. batches[r] \in Nat
    BY <1>1
  <2> QED  BY <2>1, <2>2
<1>8. ASSUME NEW k \in made, k[1] = r PROVE k[2] # n
  <2>1. k[2] <= batches[r] /\ k[2] \in Nat /\ batches[r] \in Nat
    BY <1>1, <1>8 DEF BatchInv
  <2> QED  BY <2>1
<1> HIDE DEF n, r
<1>9. \A p \in Requests : HeldOK(req'[p], made')
  BY <1>2, <1>4, <1>5 DEF BatchInv
<1>10. ASSUME NEW p \in Requests PROVE OwnBatch(p)'
  <2>1. CASE p = q
    BY <1>2, <1>4, <1>5, <1>7, <1>8, <2>1 DEF OwnBatch
  <2>2. CASE p # q
    BY <1>2, <1>4, <1>5, <1>7, <2>2 DEF OwnBatch, BatchInv
  <2> QED  BY <2>1, <2>2
<1> QED  BY <1>2, <1>6, <1>9, <1>10, TableKept DEF BatchInv

\* The rows of a new batch appear together.
LEMMA BatchCreates ==
    ASSUME TypeInv, RowInv, BatchInv, NEW q \in Requests, CreateRows(q)
    PROVE  BatchInv'
<1> USE DEF deployments
<1> DEFINE r == req[q].rec
           n == req[q].n
           mine == {k \in Deployment(q) : event[k] # "none"}
<1>1. /\ made' = made \cup mine /\ UNCHANGED batches
      /\ req[q].pc = "createRows" /\ Return(q)
  BY DEF CreateRows
<1> USE DEF Deployment
<1>2. /\ made \subseteq RowIds
      /\ \A j \in made, k \in mine : ~SameBatch(j, k)
  BY <1>1, TypeParts DEF BatchInv, OwnBatch, SameBatch, WorldOK, Numbered
<1>3. /\ \A k \in mine : rows'[k] # None
      /\ \A k \in RowIds \ mine : rows'[k] = rows[k]
  <2>1. \A type : Succeeded(type) # None /\ InProgress(type) # None
    BY DEF Succeeded, InProgress, UpgradeStatus
  <2> HIDE DEF mine
  <2>2. \A k \in RowIds :
          rows'[k] = IF k \notin mine THEN rows[k]
                     ELSE IF event[k] = "needless" THEN Succeeded(req[q].obj.type)
                     ELSE InProgress(req[q].obj.type)
    BY DEF CreateRows, mine
  <2> QED  BY <2>1, <2>2 DEF mine
<1>4. TableOK'
  <2>1. Present(rows') \subseteq made'
    BY <1>1, <1>3 DEF BatchInv, TableOK, Present
  <2>2. \A k \in made : rows'[k] = rows[k]
    BY <1>2, <1>3 DEF SameBatch
  <2>3. Whole(rows, made)
    BY DEF BatchInv, TableOK
  <2> HIDE DEF mine
  <2>4. ASSUME NEW j \in made \cup mine, NEW k \in made \cup mine, SameBatch(j, k)
        PROVE  rows'[j] = None <=> rows'[k] = None
    <3>1. CASE j \in mine \/ k \in mine
      <4>1. j \in mine /\ k \in mine
        BY <1>2, <2>4, <3>1 DEF SameBatch
      <4> QED  BY <1>3, <4>1
    <3>2. CASE j \in made /\ k \in made
      BY <2>2, <2>3, <2>4, <3>2 DEF Whole
    <3> QED  BY <3>1, <3>2
  <2> QED  BY <1>1, <2>1, <2>4 DEF TableOK, Whole
<1>5. /\ \A p \in Requests \ {q} : req'[p] = req[p]
      /\ req'[q].held = NoRows /\ req'[q].pc \notin Numbered
  BY <1>1, TypeParts DEF Return, RequestsOK, Idle, Numbered
<1>6. ASSUME NEW p \in Requests PROVE HeldOK(req'[p], made')
  <2>1. CASE p = q
    <3>1. made' \in SUBSET RowIds
      BY <1>1, <1>2
    <3> QED  BY <1>5, <2>1, <3>1, EmptyHeld
  <2>2. CASE p # q
    <3>1. HeldOK(req[p], made) /\ req'[p] = req[p]
      BY <1>5, <2>2 DEF BatchInv
    <3>2. mine \subseteq RowIds
      OBVIOUS
    <3> HIDE DEF mine
    <3>3. \A k \in mine : req[p].held[k] = None
      BY <1>2, <3>1, <3>2 DEF HeldOK, Present, SameBatch
    <3>4. Whole(req[p].held, made \cup mine)
      BY <1>2, <3>1, <3>3 DEF HeldOK, Whole, SameBatch
    <3> QED  BY <1>1, <3>1, <3>4 DEF HeldOK
  <2> QED  BY <2>1, <2>2
<1>7. \A k \in made' : k[2] <= batches'[k[1]]
  <2>1. n <= batches[r]
    BY <1>1 DEF RowInv
  <2> QED  BY <1>1, <2>1 DEF BatchInv
<1>8. ASSUME NEW p \in Requests, req'[p].pc \in Numbered PROVE OwnBatch(p)'
  <2>1. p # q /\ req'[p] = req[p] /\ req[p].pc \in Numbered
    BY <1>5, <1>8
  <2>2. \A k \in mine : k[1] = req[p].rec => k[2] # req[p].n
    BY <1>1, <2>1 DEF BatchInv, OwnBatch, Numbered
  <2>3. \A k \in made : k[1] = req[p].rec => k[2] # req[p].n
    BY <2>1 DEF BatchInv, OwnBatch
  <2>4. \A s \in Requests \ {p} :
          req'[s].pc \in Numbered => s # q /\ req'[s] = req[s]
    BY <1>5
  <2> HIDE DEF mine
  <2> QED  BY <1>1, <2>1, <2>2, <2>3, <2>4 DEF BatchInv, OwnBatch
<1> QED  BY <1>4, <1>6, <1>7, <1>8 DEF BatchInv, OwnBatch

\* A retry finds nothing to retry.
LEMMA BatchRetries ==
    ASSUME TypeInv, RowInv, BatchInv, NEW q \in Requests, Retry(q) \/ RetryFails(q)
    PROVE  BatchInv'
<1>1. UNCHANGED <<rows, batches, made>>
  <2>1. CASE Retry(q)
    <3>1. rows' = [k \in RowIds |-> rows[k]]
      BY <2>1, NothingToRetry DEF Retry
    <3> QED  BY <2>1, <3>1, TypeParts DEF Retry, WorldOK, history
  <2>2. CASE RetryFails(q)
    BY <2>2 DEF RetryFails, deployments, history
  <2> QED  BY <2>1, <2>2
<1> QED  BY <1>1, HeldReturn, TableKept, BatchStep DEF Retry, RetryFails

\* A status is refreshed to a status.
LEMMA RefreshedExists ==
    ASSUME NEW status \in UpgradeStatus \cup {None}, NEW outcome
    PROVE  Refreshed(status, outcome) = None <=> status = None
BY DEF Refreshed, StatusTable, UpgradeStatus

\* A poll reads whole batches, and its refreshed copies are whole.
LEMMA BatchReads ==
    ASSUME TypeInv, BatchInv, NEW q \in Requests, FetchRows(q) \/ FetchEvents(q)
    PROVE  BatchInv'
<1>1. /\ req[q] \in Request /\ req \in [Requests -> Request]
      /\ UNCHANGED <<rows, batches, made>>
      /\ HeldOK(req[q], made) /\ made \subseteq RowIds
  BY TypeParts
  DEF RequestsOK, WorldOK, BatchInv, FetchRows, FetchEvents, db, deployments, history
<1>2. CASE FetchRows(q)
  <2>1. /\ req'[q].held = RowsOf(req[q].rec) /\ req'[q].rec = req[q].rec
        /\ req'[q].pc = "fetchEvents"
        /\ \A p \in Requests \ {q} : req'[p] = req[p]
    BY <1>1, <1>2 DEF FetchRows, Request
  <2>2. \A k \in RowIds :
          RowsOf(req[q].rec)[k] = IF k[1] = req[q].rec THEN rows[k] ELSE None
    BY DEF RowsOf
  <2>3. Present(rows) \subseteq made /\ Whole(rows, made)
    BY DEF BatchInv, TableOK
  <2>4. HeldOK(req'[q], made)
    BY <1>1, <2>1, <2>2, <2>3 DEF HeldOK, Present, Whole, SameBatch, Holding
  <2> QED  BY <1>1, <2>1, <2>4, TableKept, BatchStep DEF NoNewBatch, Numbered
<1>3. CASE FetchEvents(q)
  <2> DEFINE held == [k \in RowIds |-> Refreshed(req[q].held[k], event[k])]
             obj == [req[q].obj EXCEPT !.status = Verdict(req[q].obj, held)]
             x == [req[q] EXCEPT !.pc = "saveRecord", !.held = held, !.obj = obj]
  <2>1. req' = [req EXCEPT ![q] = x]
    BY <1>3, FetchEventsRequest
  <2> HIDE DEF obj
  <2>2. x.held = held /\ x.rec = req[q].rec /\ x.pc = "saveRecord"
    <3> HIDE DEF held
    <3> QED  BY <1>1 DEF Request
  <2>3. \A k \in RowIds : held[k] = None <=> req[q].held[k] = None
    BY <1>1, RefreshedExists DEF Request
  <2>4. req'[q] = x /\ \A p \in Requests \ {q} : req'[p] = req[p]
    BY <1>1, <2>1
  <2> HIDE DEF x, held
  <2>5. HeldOK(x, made)
    BY <1>1, <2>2, <2>3 DEF HeldOK, Present, Whole, Holding
  <2> QED  BY <1>1, <2>2, <2>4, <2>5, TableKept, BatchStep DEF NoNewBatch, Numbered
<1> QED  BY <1>2, <1>3

\* Deleting whole batches, or inserting them, leaves whole batches.
LEMMA BatchSyncs ==
    ASSUME TypeInv, BatchInv, NEW q \in Requests,
           \/ FetchEventsFails(q) \/ SaveRecord(q) \/ ListReturn(q)
           \/ DeleteRows(q) \/ InsertRows(q)
    PROVE  BatchInv'
<1>1. UNCHANGED <<batches, made>>
  BY DEF FetchEventsFails, SaveRecord, ListReturn, DeleteRows, InsertRows, deployments,
         history
<1>2. /\ \A p \in Requests \ {q} : req'[p] = req[p]
      /\ HeldOK(req'[q], made) /\ NoNewBatch(q)
  <2>1. \/ Return(q)
        \/ req[q].pc \in Holding /\ \E pc \in Holding : Goto(q, pc)
    BY DEF FetchEventsFails, SaveRecord, ListReturn, DeleteRows, InsertRows, Holding
  <2> QED  BY <2>1, HeldReturn, HeldGoto DEF Holding, Numbered
<1>3. /\ HeldOK(req[q], made) /\ TableOK /\ made \subseteq RowIds
      /\ rows \in [RowIds -> UpgradeStatus \cup {None}]
  BY TypeParts DEF BatchInv, WorldOK
<1>4. CASE FetchEventsFails(q) \/ SaveRecord(q) \/ ListReturn(q)
  <2>1. UNCHANGED rows
    BY <1>4 DEF FetchEventsFails, SaveRecord, ListReturn, db
  <2> QED  BY <1>1, <1>2, <2>1, TableKept, BatchStep
<1>5. CASE DeleteRows(q)
  <2>1. \A k \in RowIds : rows'[k] = IF req[q].held[k] # None THEN None ELSE rows[k]
    BY <1>5 DEF DeleteRows, Present
  <2>2. TableOK'
    BY <1>1, <1>3, <2>1 DEF TableOK, HeldOK, Whole, Present
  <2> QED  BY <1>1, <1>2, <2>2, BatchStep
<1>6. CASE InsertRows(q)
  <2>1. \/ UNCHANGED rows
        \/ \A k \in RowIds :
              rows'[k] = IF req[q].held[k] # None THEN req[q].held[k] ELSE rows[k]
    BY <1>6 DEF InsertRows, Present
  <2>2. TableOK'
    BY <1>1, <1>3, <2>1, TableKept DEF TableOK, HeldOK, Whole, Present
  <2> QED  BY <1>1, <1>2, <2>2, BatchStep
<1> QED  BY <1>4, <1>5, <1>6

\* Nothing is made at first.
LEMMA BatchInit == Init => BatchInv
<1> SUFFICES ASSUME Init PROVE BatchInv
  OBVIOUS
<1>1. made = {} /\ \A k \in RowIds : rows[k] = None
  BY DEF Init, NoRows
<1>2. \A q \in Requests : req[q].held = NoRows /\ req[q].pc = "idle"
  BY DEF Init, Idle
<1>3. \A q \in Requests : HeldOK(req[q], made)
  BY <1>1, <1>2, EmptyHeld
<1> QED  BY <1>1, <1>2, <1>3 DEF BatchInv, TableOK, Present, Whole, OwnBatch, Numbered

\* Every step leaves every batch whole.
LEMMA BatchNext == TypeInv /\ RowInv /\ BatchInv /\ [Next]_vars => BatchInv'
<1> SUFFICES ASSUME TypeInv, RowInv, BatchInv, [Next]_vars PROVE BatchInv'
  OBVIOUS
<1>1. ASSUME NEW q \in Requests, Continuing(q) PROVE BatchInv'
  BY <1>1, BatchUpgrades, BatchDeploys, BatchCreates, BatchRetries, BatchReads,
     BatchSyncs
  DEF Continuing, Deploying, Syncing
<1>2. ASSUME NEW q \in Requests, Crash(q) PROVE BatchInv'
  BY <1>2, HeldReturn, TableKept, BatchStep DEF Crash, db, deployments
<1>3. ASSUME UNCHANGED <<rows, batches, made, req>> PROVE BatchInv'
  BY <1>3, TableKept DEF BatchInv, OwnBatch
<1> QED
  BY <1>1, <1>2, <1>3, BatchStarts
  DEF Next, EventEnds, SnapshotWorker, FenceExpires, vars, db, deployments, history

\* Polls that overlap, on however many components and deployments, never leave a
\* part of a deployment's component records in the table.
THEOREM BatchesWholeCorrect == Spec => []BatchesWhole
<1>1. BatchInv => BatchesWhole
  BY DEF BatchInv, TableOK, Whole, SameBatch, BatchesWhole
<1> QED
  BY <1>1, InitTypes, NextTypes, RowInit, RowNext, BatchInit, BatchNext, PTL DEF Spec

-----------------------------------------------------------------------------
(* Lost rows                                                               *)

\* A poll that is about to insert rows it has deleted.
Carries(q, k) == req[q].pc = "insertRows" /\ req[q].held[k] # None

\* Rows stay accounted for while no row disappears and nobody who carries rows
\* moves.
LEMMA LostQuiet ==
    ASSUME RowsNotLost, made \subseteq made', dropped \subseteq dropped',
           \A k \in made : rows'[k] = None => rows[k] = None,
           \A k \in made' \ made : rows'[k] # None,
           \A q \in Requests : req[q].pc = "insertRows" => req'[q] = req[q]
    PROVE  RowsNotLost'
<1>1. ASSUME NEW k \in made', rows'[k] = None
      PROVE  \/ k \in dropped'
             \/ \E q \in Requests : req'[q].pc = "insertRows" /\ req'[q].held[k] # None
             \/ \E j \in made' : j[1] = k[1] /\ j[2] # k[2]
  <2>1. k \in made /\ rows[k] = None
    BY <1>1
  <2>2. CASE \E q \in Requests : Carries(q, k)
    BY <2>2 DEF Carries
  <2>3. CASE ~ \E q \in Requests : Carries(q, k)
    BY <2>1, <2>3 DEF RowsNotLost, Carries
  <2> QED  BY <2>2, <2>3
<1> QED  BY <1>1 DEF RowsNotLost

\* Steps of a request that carries no rows: it touches the rows of no batch that
\* was made, unless it deletes them.
LEMMA LostElsewhere ==
    ASSUME TypeInv, RowInv, BatchInv, RowsNotLost, NEW q \in Requests,
           Starting(q) \/ Continuing(q), ~DeleteRows(q), ~InsertRows(q)
    PROVE  RowsNotLost'
<1>1. req \in [Requests -> Request]
      /\ rows \in [RowIds -> UpgradeStatus \cup {None}]
  BY TypeParts DEF RequestsOK, WorldOK
<1>2. req[q].pc # "insertRows" /\ \A p \in Requests \ {q} : req'[p] = req[p]
  BY <1>1
  DEF Starting, CreateRead, UpgradeLoad, UpgradeComponentLoad, RestoreLoad, RetryLoad,
      Poll, List, Continuing, CreateInsert, Upgrading, Construct, Published, Publish,
      PublishUnconfirmed, PublishRefused, SyncNewApp, SyncNewAppFails, FailsWith,
      SaveApp, SaveAppFails, DiskPluginFails, Undo, UndoFails, Failing, Cancel,
      RecordFailure, RecordFailureFails, Restoring, RestoreConstruct, RestoreCancel,
      RestoreSync, RestoreSyncFails, RestoreSave,
      RestoreSaveFails, RestoreRecord, RestoreRecordFails, Deploying, Deploy,
      DeployFails, Track, CreateRows, Retry, RetryFails, Syncing, FetchRows, FetchEvents,
      FetchEventsFails, SaveRecord, ListReturn, Start, Goto, Return
<1>3. CASE CreateRows(q)
  <2> DEFINE mine == {k \in Deployment(q) : event[k] # "none"}
  <2>1. made' = made \cup mine /\ UNCHANGED dropped
    BY <1>3 DEF CreateRows
  <2>2. \A type : Succeeded(type) # None /\ InProgress(type) # None
    BY DEF Succeeded, InProgress, UpgradeStatus
  <2> HIDE DEF mine
  <2>3. \A k \in RowIds :
          rows'[k] = IF k \notin mine THEN rows[k]
                     ELSE IF event[k] = "needless" THEN Succeeded(req[q].obj.type)
                     ELSE InProgress(req[q].obj.type)
    BY <1>3 DEF CreateRows, mine
  <2>4. made \subseteq RowIds /\ mine \subseteq RowIds
    BY TypeParts DEF WorldOK, mine, Deployment
  <2> QED  BY <1>2, <2>1, <2>2, <2>3, <2>4, LostQuiet
<1>4. CASE Retry(q)
  <2>1. rows' = [k \in RowIds |-> rows[k]] /\ UNCHANGED history
    BY <1>4, NothingToRetry DEF Retry
  <2>2. UNCHANGED rows
    BY <1>1, <2>1
  <2> QED  BY <1>2, <2>1, <2>2, LostQuiet DEF history
<1>5. CASE ~CreateRows(q) /\ ~Retry(q)
  <2>1. UNCHANGED <<rows, made, dropped>>
    BY <1>5
    DEF Starting, CreateRead, UpgradeLoad, UpgradeComponentLoad, RestoreLoad, RetryLoad,
        Poll, List, Continuing, CreateInsert, Upgrading, Construct, Published, Publish,
        PublishUnconfirmed, PublishRefused, SyncNewApp, SyncNewAppFails,
        SaveApp, SaveAppFails, DiskPluginFails, Undo, UndoFails, Failing, Cancel,
        RecordFailure, RecordFailureFails, Restoring, RestoreConstruct, RestoreCancel,
        RestoreSync, RestoreSyncFails, RestoreSave,
        RestoreSaveFails, RestoreRecord, RestoreRecordFails, Deploying, Deploy,
        DeployFails, Track, RetryFails, Syncing, FetchRows, FetchEvents,
        FetchEventsFails, SaveRecord, ListReturn, db, history
  <2> QED  BY <1>2, <2>1, LostQuiet
<1> QED  BY <1>3, <1>4, <1>5

\* What a poll deletes it carries.
LEMMA LostDelete ==
    ASSUME TypeInv, BatchInv, RowsNotLost, NEW q \in Requests, DeleteRows(q)
    PROVE  RowsNotLost'
<1>1. /\ req \in [Requests -> Request] /\ made \subseteq RowIds
      /\ UNCHANGED <<made, dropped>> /\ req[q].pc = "deleteRows"
  BY TypeParts DEF RequestsOK, WorldOK, DeleteRows, history
<1>2. \A k \in RowIds : rows'[k] = IF req[q].held[k] # None THEN None ELSE rows[k]
  BY DEF DeleteRows, Present
<1>3. /\ req'[q].pc = "insertRows" /\ req'[q].held = req[q].held
      /\ \A p \in Requests \ {q} : req'[p] = req[p]
  BY <1>1 DEF DeleteRows, Goto, Request
<1>4. ASSUME NEW k \in made, rows'[k] = None
      PROVE  \/ k \in dropped
             \/ \E p \in Requests : req'[p].pc = "insertRows" /\ req'[p].held[k] # None
             \/ \E j \in made : j[1] = k[1] /\ j[2] # k[2]
  <2>1. CASE req[q].held[k] # None
    BY <1>3, <2>1
  <2>2. CASE req[q].held[k] = None
    <3>1. rows[k] = None
      BY <1>1, <1>2, <1>4, <2>2
    <3>2. \A p \in Requests : Carries(p, k) => p # q
      BY <1>1 DEF Carries
    <3> QED  BY <1>3, <3>1, <3>2 DEF RowsNotLost, Carries
  <2> QED  BY <2>1, <2>2
<1> QED  BY <1>1, <1>4 DEF RowsNotLost

\* What a poll carries comes back, or collides with another batch of its record.
LEMMA LostInsert ==
    ASSUME TypeInv, BatchInv, RowsNotLost, NEW q \in Requests, InsertRows(q)
    PROVE  RowsNotLost'
<1>1. /\ req \in [Requests -> Request] /\ made \subseteq RowIds
      /\ rows \in [RowIds -> UpgradeStatus \cup {None}]
      /\ UNCHANGED <<made, dropped>>
  BY TypeParts DEF RequestsOK, WorldOK, InsertRows, history
<1>2. \A p \in Requests \ {q} : req'[p] = req[p]
  BY <1>1 DEF InsertRows, Return
<1>3. ASSUME NEW k \in made, rows'[k] = None
      PROVE  \/ k \in dropped
             \/ \E p \in Requests : req'[p].pc = "insertRows" /\ req'[p].held[k] # None
             \/ \E j \in made : j[1] = k[1] /\ j[2] # k[2]
  <2>1. rows[k] = None
    BY <1>1, <1>3 DEF InsertRows, Present
  <2>2. CASE ~Carries(q, k)
    BY <1>2, <2>1, <2>2 DEF RowsNotLost, Carries
  <2>3. CASE Carries(q, k)
    <3>1. PICK j \in RowIds : req[q].held[j] # None /\ rows[j] # None
      BY <1>1, <1>3, <2>3 DEF InsertRows, Present, Carries
    <3>2. j \in made /\ j[1] = k[1]
      BY <1>1, <2>3, <3>1 DEF BatchInv, HeldOK, Present, Carries
    <3>3. ~SameBatch(j, k)
      BY <2>1, <3>1, <3>2 DEF BatchInv, TableOK, Whole
    <3> QED  BY <3>2, <3>3 DEF SameBatch
  <2> QED  BY <2>2, <2>3
<1> QED  BY <1>1, <1>3 DEF RowsNotLost

\* What a worker carries when it dies is counted as dropped.
LEMMA LostCrash ==
    ASSUME TypeInv, RowsNotLost, NEW q \in Requests, Crash(q)
    PROVE  RowsNotLost'
<1>1. /\ made \subseteq RowIds /\ UNCHANGED <<rows, made>>
      /\ req[q].pc = "insertRows" => dropped' = dropped \cup Present(req[q].held)
      /\ dropped \subseteq dropped'
  BY TypeParts DEF WorldOK, Crash, db
<1>2. \A p \in Requests \ {q} : req'[p] = req[p]
  BY TypeParts DEF RequestsOK, Crash, Return
<1>3. ASSUME NEW k \in made, rows[k] = None
      PROVE  \/ k \in dropped'
             \/ \E p \in Requests : req'[p].pc = "insertRows" /\ req'[p].held[k] # None
             \/ \E j \in made : j[1] = k[1] /\ j[2] # k[2]
  <2>1. CASE Carries(q, k)
    BY <1>1, <2>1 DEF Carries, Present
  <2>2. CASE ~Carries(q, k)
    BY <1>1, <1>2, <1>3, <2>2 DEF RowsNotLost, Carries
  <2> QED  BY <2>1, <2>2
<1> QED  BY <1>1, <1>3 DEF RowsNotLost

\* Every step keeps the rows accounted for.
LEMMA LostNext ==
    TypeInv /\ RowInv /\ BatchInv /\ RowsNotLost /\ [Next]_vars => RowsNotLost'
<1> SUFFICES ASSUME TypeInv, RowInv, BatchInv, RowsNotLost, [Next]_vars
             PROVE  RowsNotLost'
  OBVIOUS
<1>1. ASSUME UNCHANGED <<rows, made, dropped, req>> PROVE RowsNotLost'
  BY <1>1, LostQuiet
<1> QED
  BY <1>1, LostElsewhere, LostDelete, LostInsert, LostCrash
  DEF Next, EventEnds, SnapshotWorker, FenceExpires, vars, db, history

\* A poll that deletes component records puts them back, whatever other polls,
\* upgrades and rollbacks do meanwhile: records are lost only with a worker that
\* dies between the two, or from a record that was deployed twice.
THEOREM RowsNotLostCorrect == Spec => []RowsNotLost
<1>1. Init => RowsNotLost
  BY DEF Init, RowsNotLost
<1> QED
  BY <1>1, InitTypes, NextTypes, RowInit, RowNext, BatchInit, BatchNext, LostNext,
     PTL DEF Spec

-----------------------------------------------------------------------------
(* Verdicts                                                                *)

Done == {"UPGRADED", "ROLLBACK"}
EndedWell == {"success", "timeout", "needless"}

\* With the rows m and the outcomes e, some complete deployment of r succeeded.
Earned(r, m, e) ==
    \E n \in 1 .. MaxBatches :
        LET batch == {k \in m : k[1] = r /\ k[2] = n}
        IN  batch # {} /\ \A k \in batch : e[k] \in EndedWell

\* A copy of a record may go back to the database at any time.
CopyEarned(x, m, e) ==
    x.obj # None /\ x.obj.status \in Done => Earned(x.rec, m, e)

EarnedInv ==
    /\ VerdictEarned
    /\ \A q \in Requests : CopyEarned(req[q], made, event)

\* How a step of q may change records: it leaves them, saves a status that is no
\* success, or saves the copy it holds.
RecordsFrom(q) ==
    \A r \in RecordIds :
        \/ records'[r] = records[r]
        \/ records'[r].status \notin Done
        \/ r = req[q].rec /\ records'[r] = req[q].obj /\ req[q].obj # None

\* How a step of q may change its copy.
CopyFrom(q) ==
    /\ \A p \in Requests \ {q} : req'[p] = req[p]
    /\ \/ req'[q].obj = None
       \/ req'[q].obj.status \notin Done
       \/ req'[q].obj = req[q].obj /\ req'[q].rec = req[q].rec
       \/ \E r \in Existing : req'[q].obj = records[r] /\ req'[q].rec = r
       \/ Earned(req'[q].rec, made', event')

\* What a deployment has earned stays.
LEMMA EarnedKept ==
    ASSUME NEW r, NEW m, NEW e, NEW mm, NEW ee, Earned(r, m, e),
           m \subseteq mm,
           \A k \in m : e[k] \in EndedWell => ee[k] \in EndedWell,
           \A j \in m, k \in mm \ m : ~SameBatch(j, k)
    PROVE  Earned(r, mm, ee)
<1>1. PICK n \in 1 .. MaxBatches :
        /\ \E k \in m : k[1] = r /\ k[2] = n
        /\ \A k \in m : k[1] = r /\ k[2] = n => e[k] \in EndedWell
  BY DEF Earned
<1>2. PICK j \in m : j[1] = r /\ j[2] = n
  BY <1>1
<1>3. \A k \in mm : k[1] = r /\ k[2] = n => k \in m
  BY <1>2 DEF SameBatch
<1>4. \A k \in mm : k[1] = r /\ k[2] = n => ee[k] \in EndedWell
  BY <1>1, <1>3
<1> QED  BY <1>2, <1>4 DEF Earned

\* Steps leave final outcomes alone and make rows of new batches only.
LEMMA EarnedNext ==
    ASSUME TypeInv, RowInv, BatchInv, [Next]_vars, NEW r, Earned(r, made, event)
    PROVE  Earned(r, made', event')
<1>1. made \subseteq RowIds /\ event \in [RowIds ->
           {"none", "needless", "running", "success", "failure", "timeout"}]
  BY TypeParts DEF WorldOK
<1>2. ASSUME NEW q \in Requests, CreateRows(q) PROVE Earned(r, made', event')
  <2> DEFINE mine == {k \in Deployment(q) : event[k] # "none"}
  <2>1. made' = made \cup mine /\ UNCHANGED event /\ req[q].pc = "createRows"
    BY <1>2 DEF CreateRows, deployments
  <2>2. \A j \in made, k \in mine : ~SameBatch(j, k)
    BY <2>1 DEF BatchInv, OwnBatch, SameBatch, Numbered, Deployment
  <2> HIDE DEF mine
  <2> QED  BY <2>1, <2>2, EarnedKept
<1>3. ASSUME NEW q \in Requests, Deploy(q) \/ DeployFails(q)
      PROVE  Earned(r, made', event')
  <2>1. UNCHANGED made
    BY <1>3 DEF Deploy, DeployFails, history
  <2>2. \A k \in RowIds : k[1] # req[q].rec \/ k[2] # batches[req[q].rec] + 1
                          => event'[k] = event[k]
    BY <1>3 DEF Deploy, DeployFails
  <2>3. ASSUME NEW k \in made, k[1] = req[q].rec, k[2] = batches[req[q].rec] + 1
        PROVE  FALSE
    <3>1. k[2] <= batches[k[1]] /\ k[1] \in RecordIds
      BY <1>1 DEF BatchInv, RowIds
    <3>2. batches[k[1]] \in 0 .. MaxBatches
      BY <3>1, TypeParts DEF WorldOK
    <3> QED  BY <2>3, <3>1, <3>2
  <2> QED  BY <1>1, <2>1, <2>2, <2>3, EarnedKept
<1>4. ASSUME NEW q \in Requests, Retry(q) PROVE Earned(r, made', event')
  <2>1. event' = [k \in RowIds |-> event[k]] /\ UNCHANGED made
    BY <1>4, NothingToRetry DEF Retry, history
  <2>2. UNCHANGED event
    BY <1>1, <2>1
  <2> QED  BY <2>1, <2>2
<1>5. ASSUME NEW k \in RowIds, EventEnds(k) PROVE Earned(r, made', event')
  <2>1. /\ UNCHANGED made /\ event[k] = "running"
        /\ \A j \in RowIds \ {k} : event'[j] = event[j]
    BY <1>1, <1>5 DEF EventEnds, history
  <2> QED  BY <1>1, <2>1, EarnedKept DEF EndedWell
<1>6. ASSUME UNCHANGED <<made, event>> PROVE Earned(r, made', event')
  BY <1>6
<1>7. ASSUME NEW q \in Requests, Starting(q) \/ Continuing(q) \/ Crash(q),
             ~CreateRows(q), ~Deploy(q), ~DeployFails(q), ~Retry(q)
      PROVE  UNCHANGED <<made, event>>
  BY <1>7
  DEF Starting, CreateRead, UpgradeLoad, UpgradeComponentLoad, RestoreLoad, RetryLoad,
      Poll, List, Continuing, CreateInsert, Upgrading, Construct, Published, Publish,
      PublishUnconfirmed, PublishRefused, SyncNewApp, SyncNewAppFails,
      SaveApp, SaveAppFails, DiskPluginFails, Undo, UndoFails, Failing, Cancel,
      RecordFailure, RecordFailureFails, Restoring, RestoreConstruct, RestoreCancel,
      RestoreSync, RestoreSyncFails, RestoreSave,
      RestoreSaveFails, RestoreRecord, RestoreRecordFails, Deploying, Track, RetryFails,
      Syncing, FetchRows, FetchEvents, FetchEventsFails, SaveRecord, DeleteRows,
      InsertRows, ListReturn, Crash, deployments, history
<1> QED
  BY <1>2, <1>3, <1>4, <1>5, <1>6, <1>7
  DEF Next, SnapshotWorker, FenceExpires, vars, deployments, history

\* Verdicts stay earned when records and copies come from where they may.
LEMMA EarnedStep ==
    ASSUME TypeInv, RowInv, BatchInv, EarnedInv, [Next]_vars, NEW q \in Requests,
           RecordsFrom(q), CopyFrom(q)
    PROVE  EarnedInv'
<1>1. \A r : Earned(r, made, event) => Earned(r, made', event')
  BY EarnedNext
<1>2. \A r \in Existing : records[r].status \in Done => Earned(r, made, event)
  BY DEF EarnedInv, VerdictEarned, Earned, Done, EndedWell
<1>3. CopyEarned(req[q], made, event)
  BY DEF EarnedInv
<1>4. ASSUME NEW r \in RecordIds, Exists(r)', records'[r].status \in Done
      PROVE  Earned(r, made', event')
  <2>1. CASE records'[r] = records[r]
    BY <1>1, <1>2, <1>4, <2>1 DEF Existing, Exists
  <2>2. CASE records'[r] # records[r]
    BY <1>1, <1>3, <1>4, <2>2 DEF RecordsFrom, CopyEarned
  <2> QED  BY <2>1, <2>2
<1>5. VerdictEarned'
  <2>1. \A r \in Existing' : r \in RecordIds /\ Exists(r)'
    BY DEF Existing
  <2> QED  BY <1>4, <2>1 DEF VerdictEarned, Earned, Done, EndedWell
<1>6. ASSUME NEW p \in Requests PROVE CopyEarned(req'[p], made', event')
  <2>1. CASE p = q
    BY <1>1, <1>2, <1>3, <2>1 DEF CopyFrom, CopyEarned
  <2>2. CASE p # q
    BY <1>1, <2>2 DEF CopyFrom, EarnedInv, CopyEarned
  <2> QED  BY <2>1, <2>2
<1> QED  BY <1>5, <1>6 DEF EarnedInv

\* A request that returns, goes on or starts.
LEMMA CopyReturn ==
    ASSUME TypeInv, NEW q \in Requests, Return(q)
    PROVE  CopyFrom(q)
BY TypeParts DEF RequestsOK, Return, Idle, CopyFrom

LEMMA CopyGoto ==
    ASSUME TypeInv, NEW q \in Requests, NEW pc, Goto(q, pc)
    PROVE  CopyFrom(q)
<1>1. req[q] \in Request /\ req \in [Requests -> Request]
  BY TypeParts DEF RequestsOK
<1>2. /\ req'[q].obj = req[q].obj /\ req'[q].rec = req[q].rec
      /\ \A p \in Requests \ {q} : req'[p] = req[p]
  BY <1>1 DEF Goto, Request
<1> QED  BY <1>2 DEF CopyFrom

\* A copy that is to say that the request failed.
LEMMA CopyFails ==
    ASSUME TypeInv, NEW q \in Requests, NEW pc, NEW obj, FailsWith(q, pc, obj),
           obj.status \notin Done
    PROVE  CopyFrom(q)
<1>1. req'[q].obj = obj /\ \A p \in Requests \ {q} : req'[p] = req[p]
  BY TypeParts DEF RequestsOK, FailsWith, Request
<1> QED  BY <1>1 DEF CopyFrom

\* A request reads the installed application.
LEMMA CopyConstruct ==
    ASSUME TypeInv, NEW q \in Requests, Construct(q) \/ RestoreConstruct(q)
    PROVE  CopyFrom(q)
<1>1. CASE Return(q)
  BY <1>1, CopyReturn
<1>2. CASE ~Return(q)
  <2>1. /\ req'[q].obj = req[q].obj /\ req'[q].rec = req[q].rec
        /\ \A p \in Requests \ {q} : req'[p] = req[p]
    BY <1>2, TypeParts DEF Construct, RestoreConstruct, RequestsOK, Request
  <2> QED  BY <2>1 DEF CopyFrom
<1> QED  BY <1>1, <1>2

LEMMA CopyStart ==
    ASSUME TypeInv, NEW q \in Requests, NEW pc, NEW r \in Existing \cup {NoId},
           NEW ver, NEW orig, Start(q, pc, r, ver, orig)
    PROVE  CopyFrom(q)
<1>1. /\ req'[q].obj = IF r = NoId THEN None ELSE records[r]
      /\ req'[q].rec = r
      /\ \A p \in Requests \ {q} : req'[p] = req[p]
  BY TypeParts DEF RequestsOK, Start
<1> QED  BY <1>1 DEF CopyFrom

\* Saving a status that is no success.
LEMMA RecordsSaved ==
    ASSUME TypeInv, NEW q \in Requests, NEW r \in RecordIds, NEW rec,
           Save(r, rec), rec.status \notin Done
    PROVE  RecordsFrom(q)
<1>1. \A s \in RecordIds : records'[s] = IF s = r THEN rec ELSE records[s]
  BY TypeParts DEF RecordsOK, Save
<1> QED  BY <1>1 DEF RecordsFrom

\* Saving the copy with a status that is no success.
LEMMA RecordsUpdated ==
    ASSUME TypeInv, NEW q \in Requests, req[q].pc \in Working,
           NEW status \in UpgradeStatus \ Done, NEW snap \in Versions \cup {None},
           \/ Save(req[q].rec, Updated(q, status, snap))
           \/ Save(req[q].rec, [req[q].obj EXCEPT !.status = status])
    PROVE  RecordsFrom(q)
<1>1. req[q].obj \in Record /\ req[q].rec \in RecordIds
  BY RequestFields
<1>2. /\ Updated(q, status, snap).status = status
      /\ [req[q].obj EXCEPT !.status = status].status = status
  BY <1>1 DEF Updated, Record
<1> QED  BY <1>1, <1>2, RecordsSaved

\* First steps of requests save nothing.
LEMMA EarnedStarts ==
    ASSUME TypeInv, NEW q \in Requests, Starting(q)
    PROVE  RecordsFrom(q) /\ CopyFrom(q)
<1>1. UNCHANGED records
  BY DEF Starting, CreateRead, UpgradeLoad, UpgradeComponentLoad, RestoreLoad,
         RetryLoad, Poll, List, db
<1>2. \E pc, ver, orig : \E r \in Existing \cup {NoId} : Start(q, pc, r, ver, orig)
  BY DEF Starting, CreateRead, UpgradeLoad, UpgradeComponentLoad, RestoreLoad,
         RetryLoad, Poll, List, Existing, Unsynced, IsFinishedAttribute
<1> QED  BY <1>1, <1>2, CopyStart DEF RecordsFrom

\* Upgrades save no success.
LEMMA EarnedUpgrades ==
    ASSUME TypeInv, NEW q \in Requests,
           CreateInsert(q) \/ Upgrading(q) \/ Failing(q)
    PROVE  RecordsFrom(q) /\ CopyFrom(q)
<1>1. CASE CreateInsert(q)
  <2>1. NewId \in RecordIds
    BY <1>1, NewIdIsFree DEF CreateInsert, TypeInv
  <2>2. RecordsFrom(q)
    BY <1>1, <2>1, RecordsSaved DEF CreateInsert, Done
  <2> QED  BY <1>1, <2>2, CopyReturn DEF CreateInsert
<1>2. CASE Publish(q) \/ PublishUnconfirmed(q)
  <2>1. /\ req[q].rec \in RecordIds
        /\ records[req[q].rec] \in Record
    BY <1>2, RequestFields, TypeParts
    DEF Publish, PublishUnconfirmed, Published, RecordsOK, Existing, Exists
  <2>2. records' = [records EXCEPT ![req[q].rec] =
            [records[req[q].rec] EXCEPT !.status = "UPGRADING", !.version = req[q].ver]]
    BY <1>2, <2>1, TypeParts DEF Publish, PublishUnconfirmed, Published, RecordsOK
  <2>3. [records[req[q].rec] EXCEPT !.status = "UPGRADING",
                                    !.version = req[q].ver].status \notin Done
    BY <2>1 DEF Record, Done
  <2>4. RecordsFrom(q)
    BY <2>1, <2>2, <2>3, TypeParts DEF RecordsFrom, RecordsOK
  <2> QED
    BY <1>2, <2>4, CopyGoto, CopyReturn DEF Publish, PublishUnconfirmed
<1>3. CASE SyncNewAppFails(q) \/ SaveAppFails(q) \/ DiskPluginFails(q)
  <2>1. UNCHANGED records
    BY <1>3 DEF SyncNewAppFails, SaveAppFails, DiskPluginFails, db
  <2>2. req[q].obj \in Record
    BY <1>3, RequestFields
    DEF SyncNewAppFails, SaveAppFails, DiskPluginFails, Working, Phase
  <2>3. Updated(q, "UPGRADE_FAILED", None).status \notin Done
    BY <2>2 DEF Updated, Record, Done
  <2>4. CopyFrom(q)
    BY <1>3, <2>3, CopyFails DEF SyncNewAppFails, SaveAppFails, DiskPluginFails
  <2> QED  BY <2>1, <2>4 DEF RecordsFrom
<1>4. CASE SaveApp(q)
  <2> DEFINE rec == Updated(q, "UPGRADING", req[q].orig)
  <2>1. /\ req[q] \in Request /\ req[q].obj \in Record /\ req[q].orig \in Versions
        /\ req[q].pc \in Working
    BY <1>4, RequestFields DEF SaveApp, MovingPhase, Working, Phase
  <2>2. rec.status = "UPGRADING"
    BY <2>1 DEF Updated, Record
  <2>3. RecordsFrom(q)
    BY <1>4, <2>1, RecordsUpdated DEF SaveApp, UpgradeStatus, Done
  <2> HIDE DEF rec
  <2>4. /\ req'[q].obj = rec
        /\ \A p \in Requests \ {q} : req'[p] = req[p]
    BY <1>4, TypeParts DEF SaveApp, RequestsOK, Request, rec
  <2> QED  BY <2>2, <2>3, <2>4 DEF CopyFrom, Done
<1>5. CASE \/ Construct(q) \/ PublishRefused(q) \/ SyncNewApp(q) \/ Undo(q)
           \/ UndoFails(q) \/ Cancel(q) \/ RecordFailureFails(q)
  <2>1. UNCHANGED records
    BY <1>5 DEF Construct, PublishRefused, SyncNewApp, Undo, UndoFails, Cancel,
                RecordFailureFails, db
  <2>2. CopyFrom(q)
    BY <1>5, CopyReturn, CopyGoto, CopyConstruct
    DEF PublishRefused, SyncNewApp, Undo, UndoFails, Cancel, RecordFailureFails
  <2> QED  BY <2>1, <2>2 DEF RecordsFrom
<1>6. CASE RecordFailure(q)
  <2>1. /\ req[q].obj \in Record /\ req[q].rec \in RecordIds
        /\ records' = [records EXCEPT ![req[q].rec] = req[q].obj]
    BY <1>6, RequestFields DEF RecordFailure, Save, Working, Phase
  <2>2. RecordsFrom(q)
    BY <2>1, TypeParts DEF RecordsFrom, RecordsOK
  <2> QED  BY <1>6, <2>2, CopyReturn, CopyGoto DEF RecordFailure
<1> QED  BY <1>1, <1>2, <1>3, <1>4, <1>5, <1>6 DEF Upgrading, Failing

\* A rollback record starts as no success.
LEMMA EarnedRestores ==
    ASSUME TypeInv, NEW q \in Requests, Restoring(q)
    PROVE  RecordsFrom(q) /\ CopyFrom(q)
<1>1. CASE RestoreRecord(q)
  <2> DEFINE rollback == [type    |-> "rollback",
                          status  |-> "ROLLING",
                          version |-> req[q].obj.old,
                          old     |-> req[q].obj.version,
                          snap    |-> req[q].obj.snap,
                          parent  |-> req[q].rec]
  <2>1. /\ Save(NewId, rollback) /\ NewId \in RecordIds
        /\ req' = [req EXCEPT ![q].pc = "deploy", ![q].rec = NewId, ![q].obj = rollback]
    BY <1>1, NewIdIsFree DEF RestoreRecord, TypeInv
  <2>2. rollback.status \notin Done
    BY DEF Done
  <2> HIDE DEF rollback
  <2>3. /\ req'[q].obj = rollback
        /\ \A p \in Requests \ {q} : req'[p] = req[p]
    BY <2>1, TypeParts DEF RequestsOK, Request
  <2> QED  BY <2>1, <2>2, <2>3, RecordsSaved DEF CopyFrom
<1>2. CASE ~RestoreRecord(q)
  <2>1. UNCHANGED records
    BY <1>2 DEF Restoring, RestoreConstruct, RestoreCancel, RestoreSync,
                RestoreSyncFails, RestoreSave, RestoreSaveFails, RestoreRecordFails, db
  <2>2. CopyFrom(q)
    BY <1>2, CopyReturn, CopyGoto, CopyConstruct
    DEF Restoring, RestoreCancel, RestoreSync, RestoreSyncFails, RestoreSave,
        RestoreSaveFails, RestoreRecordFails
  <2> QED  BY <2>1, <2>2 DEF RecordsFrom
<1> QED  BY <1>1, <1>2

\* Deployments and retries save no success.
LEMMA EarnedDeploys ==
    ASSUME TypeInv, NEW q \in Requests, Deploying(q)
    PROVE  RecordsFrom(q) /\ CopyFrom(q)
<1>1. CASE Deploy(q)
  <2>1. UNCHANGED records
    BY <1>1 DEF Deploy, db
  <2>2. \E n : req' = [req EXCEPT ![q].pc = "track", ![q].n = n]
    BY <1>1 DEF Deploy
  <2>3. /\ req'[q].obj = req[q].obj /\ req'[q].rec = req[q].rec
        /\ \A p \in Requests \ {q} : req'[p] = req[p]
    BY <2>2, TypeParts DEF RequestsOK, Request
  <2> QED  BY <2>1, <2>3 DEF RecordsFrom, CopyFrom
<1>2. CASE DeployFails(q) \/ Track(q)
  <2>1. UNCHANGED records
    BY <1>2 DEF DeployFails, Track, db
  <2>2. CASE DeployFails(q)
    <3>1. req[q].obj \in Record
      BY <2>2, RequestFields DEF DeployFails, Working, Phase
    <3>2. /\ Updated(q, "DEPLOY_FAILED", None).status \notin Done
          /\ [req[q].obj EXCEPT !.status = "DEPLOY_FAILED"].status \notin Done
      BY <3>1 DEF Updated, Record, Done
    <3>3. CopyFrom(q)
      BY <2>2, <3>2, CopyFails DEF DeployFails
    <3> QED  BY <2>1, <3>3 DEF RecordsFrom
  <2>3. CASE Track(q)
    BY <2>1, <2>3, CopyGoto DEF Track, RecordsFrom
  <2> QED  BY <1>2, <2>2, <2>3
<1>5. CASE RetryFails(q)
  <2>1. RecordsFrom(q)
    BY <1>5, RecordsUpdated DEF RetryFails, Working, Phase, UpgradeStatus, Done
  <2> QED  BY <1>5, <2>1, CopyReturn DEF RetryFails
<1>3. CASE Retry(q)
  <2>1. InProgress(req[q].obj.type) \in UpgradeStatus \ Done
    BY DEF InProgress, UpgradeStatus, Done
  <2>2. RecordsFrom(q)
    BY <1>3, <2>1, RecordsUpdated DEF Retry, Working, Phase
  <2> QED  BY <1>3, <2>2, CopyReturn DEF Retry
<1>4. CASE CreateRows(q)
  <2>1. UNCHANGED records
    BY <1>4 DEF CreateRows
  <2> QED  BY <1>4, <2>1, CopyReturn DEF CreateRows, RecordsFrom
<1> QED  BY <1>1, <1>2, <1>3, <1>4, <1>5 DEF Deploying

\* The verdict on whole batches of true rows is a success only when a batch
\* succeeded.
LEMMA VerdictOnWhole ==
    ASSUME NEW rec, NEW rs \in [RowIds -> UpgradeStatus \cup {None}], NEW r, NEW e,
           NEW m \in SUBSET RowIds,
           Present(rs) \subseteq m, Whole(rs, m),
           \A k \in Present(rs) : k[1] = r,
           \A k \in RowIds : Truthful(rs[k], e[k]),
           Verdict(rec, rs) \in Done, rec.status \notin Done
    PROVE  Earned(r, m, e)
<1> DEFINE statuses == {rs[k] : k \in Present(rs)}
<1>1. statuses # {} /\ statuses \subseteq Done
  BY DEF Verdict, AllFailed, Succeeded, Partial, Done
<1>2. PICK k \in Present(rs) : rs[k] # None
  BY <1>1 DEF Present
<1>3. k[1] = r /\ k \in m /\ k[2] \in 1 .. MaxBatches
  BY <1>2 DEF RowIds, Present
<1>4. ASSUME NEW j \in m, j[1] = r, j[2] = k[2]
      PROVE  e[j] \in EndedWell
  <2>1. j \in Present(rs)
    BY <1>2, <1>3, <1>4 DEF Whole, SameBatch, Present
  <2>2. rs[j] \in Done /\ Truthful(rs[j], e[j])
    BY <1>1, <2>1 DEF Present
  <2> QED  BY <2>2 DEF Truthful, Done, EndedWell
<1> QED  BY <1>3, <1>4 DEF Earned

\* A poll writes a success only when it is earned.
LEMMA EarnedSyncs ==
    ASSUME TypeInv, RowInv, BatchInv, RowInv', BatchInv', EarnedInv,
           NEW q \in Requests, Syncing(q)
    PROVE  RecordsFrom(q) /\ CopyFrom(q)
<1>1. req[q] \in Request /\ req \in [Requests -> Request]
  BY TypeParts DEF RequestsOK
<1>2. CASE FetchRows(q)
  <2>1. UNCHANGED records
    BY <1>2 DEF FetchRows, db
  <2>2. /\ req'[q].obj = req[q].obj /\ req'[q].rec = req[q].rec
        /\ \A p \in Requests \ {q} : req'[p] = req[p]
    BY <1>1, <1>2 DEF FetchRows, Request
  <2> QED  BY <2>1, <2>2 DEF RecordsFrom, CopyFrom
<1>3. CASE FetchEvents(q)
  <2> DEFINE held == [k \in RowIds |-> Refreshed(req[q].held[k], event[k])]
             verdict == Verdict(req[q].obj, held)
             obj == [req[q].obj EXCEPT !.status = verdict]
             x == [req[q] EXCEPT !.pc = "saveRecord", !.held = held, !.obj = obj]
  <2>1. UNCHANGED <<records, made, event>>
    BY <1>3 DEF FetchEvents, db, deployments, history
  <2>2. req' = [req EXCEPT ![q] = x]
    BY <1>3, FetchEventsRequest
  <2>3. req[q].obj \in Record
    BY <1>3, RequestFields DEF FetchEvents, Working, Phase
  <2>4. held \in [RowIds -> UpgradeStatus \cup {None}]
    BY <1>1 DEF Request, Refreshed, StatusTable, UpgradeStatus
  <2> HIDE DEF verdict, held
  <2>5. obj.status = verdict
    BY <2>3 DEF Record
  <2> HIDE DEF obj
  <2>6. /\ req'[q].held = held /\ req'[q].obj = obj /\ req'[q].rec = req[q].rec
        /\ \A p \in Requests \ {q} : req'[p] = req[p]
    BY <1>1, <2>2 DEF Request
  <2> HIDE DEF x
  <2>7. CASE verdict \notin Done
    BY <2>1, <2>5, <2>6, <2>7 DEF RecordsFrom, CopyFrom
  <2>8. CASE verdict \in Done
    <3>1. /\ Present(held) \subseteq made /\ Whole(held, made)
          /\ \A k \in Present(held) : k[1] = req[q].rec
      BY <2>1, <2>6 DEF BatchInv, HeldOK
    <3>2. \A k \in RowIds : Truthful(held[k], event[k])
      BY <2>1, <2>6 DEF RowInv
    <3>3. made \in SUBSET RowIds
      BY TypeParts DEF WorldOK
    <3>4. CASE req[q].obj.status \in Done
      <4>1. Earned(req[q].rec, made, event)
        BY <2>3, <3>4 DEF EarnedInv, CopyEarned
      <4> QED  BY <2>1, <2>6, <4>1 DEF RecordsFrom, CopyFrom
    <3>5. CASE req[q].obj.status \notin Done
      <4>1. Earned(req[q].rec, made, event)
        BY <2>4, <2>8, <3>1, <3>2, <3>3, <3>5, VerdictOnWhole DEF verdict
      <4> QED  BY <2>1, <2>6, <4>1 DEF RecordsFrom, CopyFrom
    <3> QED  BY <3>4, <3>5
  <2> QED  BY <2>7, <2>8
<1>4. CASE SaveRecord(q)
  <2>1. /\ req[q].obj \in Record /\ req[q].rec \in RecordIds
        /\ records' = [records EXCEPT ![req[q].rec] = req[q].obj]
    BY <1>4, RequestFields DEF SaveRecord, Save, Working, Phase
  <2>2. RecordsFrom(q)
    BY <2>1, TypeParts DEF RecordsFrom, RecordsOK
  <2> QED  BY <1>4, <2>2, CopyReturn, CopyGoto DEF SaveRecord
<1>5. CASE FetchEventsFails(q) \/ DeleteRows(q) \/ InsertRows(q) \/ ListReturn(q)
  <2>1. UNCHANGED records
    BY <1>5 DEF FetchEventsFails, DeleteRows, InsertRows, ListReturn, db
  <2> QED
    BY <1>5, <2>1, CopyReturn, CopyGoto
    DEF FetchEventsFails, DeleteRows, InsertRows, ListReturn, RecordsFrom
<1> QED  BY <1>2, <1>3, <1>4, <1>5 DEF Syncing

\* No record is a success at first.
LEMMA VerdictInit == Init => EarnedInv
BY DEF Init, EarnedInv, VerdictEarned, Existing, Exists, CopyEarned, Idle

\* Every step leaves only earned verdicts.
LEMMA VerdictNext ==
    /\ TypeInv /\ RowInv /\ BatchInv /\ EarnedInv /\ [Next]_vars
    /\ RowInv' /\ BatchInv'
    => EarnedInv'
<1> SUFFICES ASSUME TypeInv, RowInv, BatchInv, EarnedInv, [Next]_vars, RowInv', BatchInv'
             PROVE  EarnedInv'
  OBVIOUS
<1>1. ASSUME NEW q \in Requests, Starting(q) PROVE EarnedInv'
  BY <1>1, EarnedStarts, EarnedStep
<1>2. ASSUME NEW q \in Requests, Continuing(q) PROVE EarnedInv'
  <2>1. RecordsFrom(q) /\ CopyFrom(q)
    BY <1>2, EarnedUpgrades, EarnedRestores, EarnedDeploys, EarnedSyncs DEF Continuing
  <2> QED  BY <2>1, EarnedStep
<1>3. ASSUME NEW q \in Requests, Crash(q) PROVE EarnedInv'
  <2>1. RecordsFrom(q) /\ CopyFrom(q)
    BY <1>3, CopyReturn DEF Crash, db, RecordsFrom
  <2> QED  BY <2>1, EarnedStep
<1>4. ASSUME UNCHANGED <<records, req>> PROVE EarnedInv'
  <2>1. \A r : Earned(r, made, event) => Earned(r, made', event')
    BY EarnedNext
  <2>2. VerdictEarned'
    BY <1>4, <2>1
    DEF EarnedInv, VerdictEarned, Existing, Exists, Earned, EndedWell
  <2> QED  BY <1>4, <2>1, <2>2 DEF EarnedInv, CopyEarned
<1> QED
  BY <1>1, <1>2, <1>3, <1>4
  DEF Next, EventEnds, SnapshotWorker, FenceExpires, vars, db

\* However polls, upgrades, rollbacks and retries overlap, and however old the
\* copies they save, a record reports success only when some complete deployment
\* of it succeeded.
THEOREM VerdictEarnedCorrect == Spec => []VerdictEarned
<1>1. EarnedInv => VerdictEarned
  BY DEF EarnedInv
<1> QED
  BY <1>1, InitTypes, NextTypes, RowInit, RowNext, BatchInit, BatchNext,
     VerdictInit, VerdictNext, PTL DEF Spec

-----------------------------------------------------------------------------
(***************************************************************************)
(* What AppUpgrade promises when its requests come one at a time, for any  *)
(* components, versions and bounds.                                        *)
(***************************************************************************)
\* A client that waits for every answer before it asks again.
OneAtATime == \A p, q \in Requests : p = q

-----------------------------------------------------------------------------
(* The region and the console                                              *)

\* Phases between the change of the region and that of the console.
Ahead == {"save", "restoreSave"}

\* Phases of a failure that leads to rollback().
Undoing == {"cancelUndo", "failUndo", "undo"}

\* Where a request stands: the region is ahead of the console or back at the
\* version the request started from, and that version is still the console's.
Between(x, reg, con) ==
    /\ \/ x.pc \in Ahead \cup Undoing \cup {"sync", "restoreCancel", "restoreSync"}
       \/ x.pc = "publish" /\ x.obj # None
       => x.orig = con
    /\ x.pc \in Ahead => reg = x.ver
    /\ x.pc \notin Ahead \cup Undoing => reg = con

VersionInv ==
    parted = {} =>
        /\ \A q \in Requests : Between(req[q], region, console)
        /\ AllIdle => region = console

\* Only the request that takes the step has to be looked at.
LEMMA VersionStep ==
    ASSUME OneAtATime, NEW q \in Requests,
           parted' = {} => Between(req'[q], region', console')
    PROVE  VersionInv'
<1>1. \A p \in Requests : p = q
  BY DEF OneAtATime
<1>2. ASSUME parted' = {}
      PROVE  /\ \A p \in Requests : Between(req'[p], region', console')
             /\ AllIdle' => region' = console'
  <2>1. AllIdle' => req'[q].pc = "idle"
    BY DEF AllIdle
  <2> QED  BY <1>1, <1>2, <2>1 DEF Between, Ahead, Undoing
<1> QED  BY <1>2 DEF VersionInv

\* A request that returns leaves the region with the console.
LEMMA VersionReturn ==
    ASSUME OneAtATime, TypeInv, NEW q \in Requests, Return(q),
           parted' = {} => region' = console'
    PROVE  VersionInv'
<1>1. req'[q] = Idle
  BY TypeParts DEF Return, RequestsOK
<1>2. Between(Idle, region', console') <=> region' = console'
  BY DEF Idle, Between, Ahead, Undoing
<1> QED  BY <1>1, <1>2, VersionStep

\* What a request that goes on still has.
LEMMA GotoFields ==
    ASSUME TypeInv, NEW q \in Requests, NEW pc, Goto(q, pc)
    PROVE  /\ req'[q].pc = pc /\ req'[q].obj = req[q].obj
           /\ req'[q].orig = req[q].orig /\ req'[q].ver = req[q].ver
BY TypeParts DEF Goto, RequestsOK, Request

\* What a request that has failed still has.
LEMMA FailsFields ==
    ASSUME TypeInv, NEW q \in Requests, NEW pc, NEW obj, FailsWith(q, pc, obj)
    PROVE  /\ req'[q].pc = pc /\ req'[q].obj = obj /\ req'[q].rec = req[q].rec
           /\ req'[q].orig = req[q].orig /\ req'[q].ver = req[q].ver
           /\ req'[q].held = req[q].held
BY TypeParts DEF FailsWith, RequestsOK, Request

\* What a request has that has read the installed application.
LEMMA ConstructFields ==
    ASSUME TypeInv, NEW q \in Requests,
           Construct(q) \/ (RestoreConstruct(q) /\ ~Return(q))
    PROVE  /\ req'[q].pc = IF req[q].pc = "construct" THEN "publish" ELSE "restoreCancel"
           /\ req[q].pc \in {"construct", "restoreConstruct"}
           /\ req'[q].orig = console
           /\ req'[q].obj = req[q].obj /\ req'[q].rec = req[q].rec
BY TypeParts DEF Construct, RestoreConstruct, RequestsOK, Request

\* First steps of requests change no version.
LEMMA VersionStarts ==
    ASSUME OneAtATime, TypeInv, VersionInv, NEW q \in Requests, Starting(q)
    PROVE  VersionInv'
<1>1. /\ UNCHANGED <<region, console, parted>>
      /\ req[q].pc = "idle"
  BY DEF Starting, CreateRead, UpgradeLoad, UpgradeComponentLoad, RestoreLoad,
         RetryLoad, Poll, List, Start, versions, failures
<1>2. PICK pc, r, ver, orig :
        /\ Start(q, pc, r, ver, orig)
        /\ pc \notin Ahead \cup Undoing \cup {"sync", "restoreCancel", "restoreSync"}
        /\ pc # "publish" \/ r = NoId
  BY DEF Starting, CreateRead, UpgradeLoad, UpgradeComponentLoad, RestoreLoad,
         RetryLoad, Poll, List, Ahead, Undoing, Phase
<1>3. /\ req'[q].pc = pc /\ req'[q].orig = orig
      /\ r = NoId => req'[q].obj = None
  BY <1>2, TypeParts DEF Start, RequestsOK
<1>4. parted = {} => region = console
  BY <1>1 DEF VersionInv, Between, Ahead, Undoing
<1>5. parted = {} => Between(req'[q], region, console)
  BY <1>2, <1>3, <1>4 DEF Between
<1> QED  BY <1>1, <1>5, VersionStep

\* An upgrade moves the region first, then the console, and a failure in between
\* puts the region back.
LEMMA VersionUpgrades ==
    ASSUME OneAtATime, TypeInv, VersionInv, NEW q \in Requests,
           CreateInsert(q) \/ Upgrading(q)
    PROVE  VersionInv'
<1> USE DEF versions, failures
<1>1. parted = {} => Between(req[q], region, console)
  BY DEF VersionInv
<1>2. CASE CreateInsert(q) \/ PublishRefused(q) \/ PublishUnconfirmed(q)
  BY <1>1, <1>2, VersionReturn
  DEF CreateInsert, PublishRefused, PublishUnconfirmed, Published, Between, Ahead, Undoing
<1>3. CASE Publish(q) \/ SyncNewApp(q)
  <2>1. \E pc : Goto(q, pc)
    BY <1>3 DEF Publish, SyncNewApp
  <2>2. parted' = {} => Between(req'[q], region', console')
    BY <1>1, <1>3, GotoFields
    DEF Publish, Published, SyncNewApp, Between, Ahead, Undoing
  <2> QED  BY <2>2, VersionStep
<1>4. CASE SyncNewAppFails(q)
  <2>1. /\ parted' = {} => region' = region /\ parted = {}
        /\ req[q].pc = "sync" /\ UNCHANGED console
        /\ FailsWith(q, "cancel", Updated(q, "UPGRADE_FAILED", None))
    BY <1>4 DEF SyncNewAppFails
  <2>2. req'[q].pc = "cancel"
    BY <2>1, FailsFields
  <2>3. parted' = {} => Between(req'[q], region', console')
    BY <1>1, <2>1, <2>2 DEF Between, Ahead, Undoing
  <2> QED  BY <2>3, VersionStep
<1>5. CASE SaveApp(q)
  <2>1. /\ req'[q].pc = "deploy"
        /\ region' = region /\ console' = req[q].ver /\ parted' = parted
        /\ req[q].pc = "save"
    BY <1>5, TypeParts DEF SaveApp, RequestsOK, Request
  <2>2. parted' = {} => Between(req'[q], region', console')
    BY <1>1, <2>1 DEF Between, Ahead, Undoing
  <2> QED  BY <2>2, VersionStep
<1>6. CASE DiskPluginFails(q) \/ UndoFails(q)
  <2>1. parted' # {}
    BY <1>6 DEF DiskPluginFails, UndoFails
  <2> QED  BY <2>1 DEF VersionInv
<1>7. CASE Undo(q)
  <2>1. parted' = {} => parted = {}
    BY <1>7 DEF Undo
  <2> QED  BY <1>1, <1>7, <2>1, VersionReturn DEF Undo, Between, Undoing
<1>8. CASE SaveAppFails(q)
  <2>1. /\ req[q].pc = "save" /\ UNCHANGED <<region, console, parted>>
        /\ FailsWith(q, "cancelUndo", Updated(q, "UPGRADE_FAILED", None))
    BY <1>8 DEF SaveAppFails
  <2>2. req'[q].pc = "cancelUndo" /\ req'[q].orig = req[q].orig
    BY <2>1, FailsFields
  <2>3. parted' = {} => Between(req'[q], region', console')
    BY <1>1, <2>1, <2>2 DEF Between, Ahead, Undoing
  <2> QED  BY <2>3, VersionStep
<1>9. CASE Construct(q)
  <2>1. /\ req'[q].pc = "publish" /\ req'[q].orig = console
        /\ req[q].pc = "construct" /\ UNCHANGED <<region, console, parted>>
    BY <1>9, ConstructFields DEF Construct
  <2>2. parted' = {} => Between(req'[q], region', console')
    BY <1>1, <2>1 DEF Between, Ahead, Undoing
  <2> QED  BY <2>2, VersionStep
<1> QED
  BY <1>2, <1>3, <1>4, <1>5, <1>6, <1>7, <1>8, <1>9 DEF Upgrading

\* What is recorded of a failure changes no version, and the way to rollback() is
\* left only on record.
LEMMA VersionFailing ==
    ASSUME OneAtATime, TypeInv, VersionInv, NEW q \in Requests, Failing(q)
    PROVE  VersionInv'
<1> USE DEF versions, failures
<1>1. parted = {} => Between(req[q], region, console)
  BY DEF VersionInv
<1>2. UNCHANGED <<region, console>> /\ (parted' = {} => parted = {})
  BY DEF Failing, Cancel, RecordFailure, RecordFailureFails
<1>3. ASSUME NEW pc, Goto(q, pc),
             \/ req[q].pc = "cancel" /\ pc = "fail"
             \/ req[q].pc = "cancelUndo" /\ pc = "failUndo"
             \/ req[q].pc = "failUndo" /\ pc = "undo"
      PROVE  VersionInv'
  <2>1. parted' = {} => Between(req'[q], region', console')
    BY <1>1, <1>2, <1>3, GotoFields DEF Between, Ahead, Undoing
  <2> QED  BY <2>1, VersionStep
<1>4. ASSUME Return(q), parted' = {} => req[q].pc = "fail" PROVE VersionInv'
  BY <1>1, <1>2, <1>4, VersionReturn DEF Between, Ahead, Undoing
<1> QED  BY <1>3, <1>4 DEF Failing, Cancel, RecordFailure, RecordFailureFails

\* So does a rollback.
LEMMA VersionRestores ==
    ASSUME OneAtATime, TypeInv, VersionInv, NEW q \in Requests, Restoring(q)
    PROVE  VersionInv'
<1> USE DEF versions, failures
<1>1. parted = {} => Between(req[q], region, console)
  BY DEF VersionInv
<1>2. CASE RestoreSync(q) \/ RestoreSave(q) \/ RestoreSaveFails(q)
  <2>1. \E pc : Goto(q, pc)
    BY <1>2 DEF RestoreSync, RestoreSave, RestoreSaveFails
  <2>2. parted' = {} => Between(req'[q], region', console')
    BY <1>1, <1>2, GotoFields
    DEF RestoreSync, RestoreSave, RestoreSaveFails, Between, Ahead, Undoing
  <2> QED  BY <2>2, VersionStep
<1>3. CASE RestoreSyncFails(q)
  <2>1. parted' = {} => region' = region /\ parted = {}
    BY <1>3 DEF RestoreSyncFails
  <2> QED
    BY <1>1, <1>3, <2>1, VersionReturn DEF RestoreSyncFails, Between, Ahead, Undoing
<1>4. CASE RestoreRecord(q)
  <2>1. /\ req'[q].pc = "deploy" /\ req[q].pc = "restoreRecord"
        /\ UNCHANGED <<region, console, parted>>
    BY <1>4, TypeParts DEF RestoreRecord, RequestsOK, Request
  <2>2. parted' = {} => Between(req'[q], region', console')
    BY <1>1, <2>1 DEF Between, Ahead, Undoing
  <2> QED  BY <2>2, VersionStep
<1>5. CASE RestoreRecordFails(q)
  <2>1. parted' # {}
    BY <1>5 DEF RestoreRecordFails
  <2> QED  BY <2>1 DEF VersionInv
<1>6. CASE RestoreConstruct(q)
  <2>1. UNCHANGED <<region, console, parted>> /\ req[q].pc = "restoreConstruct"
    BY <1>6 DEF RestoreConstruct
  <2>2. CASE Return(q)
    BY <1>1, <2>1, <2>2, VersionReturn DEF Between, Ahead, Undoing
  <2>3. CASE ~Return(q)
    <3>1. req'[q].pc = "restoreCancel" /\ req'[q].orig = console
      BY <1>6, <2>1, <2>3, ConstructFields
    <3>2. parted' = {} => Between(req'[q], region', console')
      BY <1>1, <2>1, <3>1 DEF Between, Ahead, Undoing
    <3> QED  BY <3>2, VersionStep
  <2> QED  BY <2>2, <2>3
<1>7. CASE RestoreCancel(q)
  <2>1. UNCHANGED <<region, console, parted>> /\ req[q].pc = "restoreCancel"
    BY <1>7 DEF RestoreCancel
  <2>2. CASE Return(q)
    BY <1>1, <2>1, <2>2, VersionReturn DEF Between, Ahead, Undoing
  <2>3. CASE Goto(q, "restoreSync")
    <3>1. parted' = {} => Between(req'[q], region', console')
      BY <1>1, <2>1, <2>3, GotoFields DEF Between, Ahead, Undoing
    <3> QED  BY <3>1, VersionStep
  <2> QED  BY <1>7, <2>2, <2>3 DEF RestoreCancel
<1> QED  BY <1>2, <1>3, <1>4, <1>5, <1>6, <1>7 DEF Restoring

\* Deployments, retries and polls change no version, and lead nowhere near one.
LEMMA RestPhases ==
    ASSUME TypeInv, NEW q \in Requests, Deploying(q) \/ Syncing(q)
    PROVE  /\ UNCHANGED <<region, console, parted>>
           /\ req[q].pc \in {"deploy", "track", "createRows", "retry", "fetchRows",
                             "fetchEvents", "saveRecord", "deleteRows", "insertRows",
                             "listed"}
           /\ req'[q].pc \in {"idle", "track", "createRows", "cancel", "fail", "fetchEvents",
                              "saveRecord", "deleteRows", "insertRows"}
<1>1. /\ UNCHANGED <<region, console, parted>>
      /\ req[q].pc \in {"deploy", "track", "createRows", "retry", "fetchRows",
                        "fetchEvents", "saveRecord", "deleteRows", "insertRows", "listed"}
  BY DEF Deploying, Deploy, DeployFails, Track, CreateRows, Retry, RetryFails, Syncing,
         FetchRows, FetchEvents, FetchEventsFails, SaveRecord, DeleteRows, InsertRows,
         ListReturn, versions, failures, Fault
<1> DEFINE After == {"idle", "track", "createRows", "cancel", "fail", "fetchEvents",
                     "saveRecord", "deleteRows", "insertRows"}
<1>2. req'[q].pc \in After
  <2>1. CASE Return(q)
    BY <2>1, TypeParts DEF Return, RequestsOK, Idle
  <2>2. CASE \E pc \in {"createRows", "deleteRows", "insertRows"} : Goto(q, pc)
    BY <2>2, GotoFields
  <2>3. CASE Deploy(q)
    BY <2>3, TypeParts DEF Deploy, RequestsOK, Request
  <2>4. CASE FetchRows(q)
    BY <2>4, TypeParts DEF FetchRows, RequestsOK, Request
  <2>5. CASE FetchEvents(q)
    <3> DEFINE held == [k \in RowIds |-> Refreshed(req[q].held[k], event[k])]
               obj == [req[q].obj EXCEPT !.status = Verdict(req[q].obj, held)]
    <3>1. req' = [req EXCEPT ![q] =
            [req[q] EXCEPT !.pc = "saveRecord", !.held = held, !.obj = obj]]
      BY <2>5, FetchEventsRequest
    <3> HIDE DEF held, obj
    <3> QED  BY <3>1, TypeParts DEF RequestsOK, Request
  <2>6. CASE DeployFails(q)
    BY <2>6, FailsFields DEF DeployFails
  <2> HIDE DEF After
  <2> QED
    BY <2>1, <2>2, <2>3, <2>4, <2>5, <2>6
    DEF Deploying, Track, CreateRows, Retry, RetryFails, Syncing,
        FetchEventsFails, SaveRecord, DeleteRows, InsertRows, ListReturn
<1> QED  BY <1>1, <1>2

\* So they leave the two versions as they are to each other.
LEMMA VersionRest ==
    ASSUME OneAtATime, TypeInv, VersionInv, NEW q \in Requests,
           Deploying(q) \/ Syncing(q)
    PROVE  VersionInv'
<1>1. parted = {} => region = console
  BY RestPhases DEF VersionInv, Between, Ahead, Undoing
<1>2. parted' = {} => Between(req'[q], region', console')
  BY <1>1, RestPhases DEF Between, Ahead, Undoing
<1> QED  BY <1>2, VersionStep

\* A worker that dies while the region is ahead is on record.
LEMMA VersionCrash ==
    ASSUME OneAtATime, TypeInv, VersionInv, NEW q \in Requests, Crash(q)
    PROVE  VersionInv'
<1>1. /\ UNCHANGED <<region, console>> /\ parted \subseteq parted'
      /\ req[q].pc \in Ahead \cup Undoing => parted' # {}
  BY DEF Crash, versions, Ahead, Undoing
<1>2. parted' = {} => region' = console'
  BY <1>1 DEF VersionInv, Between
<1> QED  BY <1>2, VersionReturn DEF Crash

\* The region and the console start together.
LEMMA VersionInit == Init => VersionInv
BY DEF Init, VersionInv, Between, Idle, Ahead, Undoing

\* Every step keeps account of the two versions.
LEMMA VersionNext ==
    ASSUME OneAtATime, TypeInv, VersionInv, [Next]_vars
    PROVE  VersionInv'
<1>1. ASSUME UNCHANGED <<req, region, console>>, parted' = {} => parted = {}
      PROVE  VersionInv'
  BY <1>1 DEF VersionInv, AllIdle
<1>2. CASE FenceExpires
  <2>1. UNCHANGED <<req, region, console>> /\ (parted' = {} => parted = {})
    BY <1>2 DEF FenceExpires, versions
  <2> QED  BY <1>1, <2>1
<1> QED
  BY <1>1, <1>2, VersionStarts, VersionUpgrades, VersionFailing, VersionRestores,
     VersionRest, VersionCrash
  DEF Next, Continuing, EventEnds, SnapshotWorker, vars, versions, failures

\* When requests come one at a time, the region runs what the console shows after
\* each of them, unless one of the failures that Converged names has parted the two:
\* a partial or unanswered sync_new_app, a rollback() that raised, a failed plugin,
\* a record that could not be saved, a worker that died.
THEOREM ConvergedCorrect == ASSUME OneAtATime PROVE Spec => []Converged
<1>1. Init => VersionInv
  BY VersionInit
<1>2. TypeInv /\ VersionInv /\ [Next]_vars => VersionInv'
  BY VersionNext
<1>3. VersionInv => Converged
  BY DEF VersionInv, Converged
<1> QED
  BY <1>1, <1>2, <1>3, InitTypes, NextTypes, PTL DEF Spec

-----------------------------------------------------------------------------
(* Finished records                                                        *)

UnderWay == {"UPGRADING", "ROLLING"}

\* No component record of r is under way.
Clear(r, rs) == \A k \in RowIds : k[1] = r => rs[k] \notin UnfinishedStatus

NoneUnfinished(held) == \A k \in RowIds : held[k] \notin UnfinishedStatus

\* Only a record under way has component records under way.
RecordWork(recs, rs, r) ==
    recs[r] = None \/ recs[r].status \notin UnderWay => Clear(r, rs)

\* What a request knows of its record and of the component records it holds.
AtWork(x, recs, rs) ==
    /\ \/ x.pc \in {"construct", "sync", "save", "deploy", "cancel", "fail",
                     "cancelUndo", "failUndo", "retry"}
       \/ x.pc = "publish" /\ x.obj # None
       => Clear(x.rec, rs)
    /\ x.pc \in {"deploy", "track", "createRows"} => recs[x.rec].status \in UnderWay
    /\ x.pc \in {"fetchRows", "fetchEvents"} => x.obj.status \in UnfinishedStatus
    /\ x.pc = "fetchRows" /\ x.obj.status = "NOT" => Clear(x.rec, rs)
    /\ x.pc = "fetchEvents" /\ x.obj.status = "NOT" => NoneUnfinished(x.held)
    /\ x.pc = "saveRecord" /\ x.obj.status \notin UnderWay => NoneUnfinished(x.held)
    /\ x.pc \in {"deleteRows", "insertRows"} /\ recs[x.rec].status \notin UnderWay
          => NoneUnfinished(x.held)
    /\ x.pc \in {"fetchEvents", "saveRecord", "deleteRows"}
          => \A k \in RowIds : k[1] = x.rec /\ rs[k] # None => x.held[k] # None

\* A poll saves its verdict before it replaces the rows the verdict is about.
WorkInv ==
    crashes = 0 =>
        /\ \A r \in RecordIds :
              \/ RecordWork(records, rows, r)
              \/ \E q \in Requests : req[q].pc = "deleteRows" /\ req[q].rec = r
        /\ \A q \in Requests : AtWork(req[q], records, rows)

\* Only the request that takes the step has to be looked at.
LEMMA WorkBefore ==
    ASSUME OneAtATime, WorkInv, crashes = 0, NEW q \in Requests
    PROVE  /\ AtWork(req[q], records, rows)
           /\ \A r \in RecordIds :
                 req[q].pc # "deleteRows" \/ req[q].rec # r => RecordWork(records, rows, r)
BY DEF OneAtATime, WorkInv

LEMMA WorkAfter ==
    ASSUME OneAtATime, NEW q \in Requests,
           crashes' = 0 => AtWork(req'[q], records', rows'),
           crashes' = 0 => \A r \in RecordIds :
                 \/ RecordWork(records', rows', r)
                 \/ req'[q].pc = "deleteRows" /\ req'[q].rec = r
    PROVE  WorkInv'
<1>1. \A p \in Requests : p = q
  BY DEF OneAtATime
<1> QED  BY <1>1 DEF WorkInv

\* A request that returns knows nothing.
LEMMA WorkReturn ==
    ASSUME OneAtATime, TypeInv, NEW q \in Requests, Return(q),
           crashes' = 0 => \A r \in RecordIds : RecordWork(records', rows', r)
    PROVE  WorkInv'
<1>1. req'[q] = Idle
  BY TypeParts DEF Return, RequestsOK
<1>2. AtWork(Idle, records', rows')
  BY DEF AtWork, Idle
<1> QED  BY <1>1, <1>2, WorkAfter

\* What a request that goes on still has.
LEMMA GotoCopies ==
    ASSUME TypeInv, NEW q \in Requests, NEW pc, Goto(q, pc)
    PROVE  /\ req'[q].pc = pc /\ req'[q].obj = req[q].obj
           /\ req'[q].rec = req[q].rec /\ req'[q].held = req[q].held
BY TypeParts DEF Goto, RequestsOK, Request

\* A record may be saved under way, or clear.
LEMMA WorkSave ==
    ASSUME TypeInv, NEW s \in RecordIds, NEW rec \in Record, Save(s, rec), UNCHANGED rows,
           rec.status \in UnderWay \/ Clear(s, rows),
           \A r \in RecordIds \ {s} : RecordWork(records, rows, r)
    PROVE  /\ \A r \in RecordIds : RecordWork(records', rows', r)
           /\ records'[s] = rec
<1>1. \A r \in RecordIds : records'[r] = IF r = s THEN rec ELSE records[r]
  BY TypeParts DEF RecordsOK, Save
<1>2. rec # None
  OBVIOUS
<1> QED  BY <1>1, <1>2 DEF RecordWork

\* First steps of requests find every record as it was left.
LEMMA WorkStarts ==
    ASSUME OneAtATime, TypeInv, WorkInv, NEW q \in Requests, Starting(q)
    PROVE  WorkInv'
<1>1. /\ UNCHANGED <<records, rows, crashes>>
      /\ req[q].pc = "idle"
  BY DEF Starting, CreateRead, UpgradeLoad, UpgradeComponentLoad, RestoreLoad,
         RetryLoad, Poll, List, Start, db, failures
<1>2. SUFFICES ASSUME crashes = 0 PROVE WorkInv'
  BY <1>1 DEF WorkInv
<1>3. \A r \in RecordIds : RecordWork(records, rows, r)
  BY <1>1, <1>2, WorkBefore
<1>4. ASSUME NEW pc, NEW r, NEW ver, NEW orig, Start(q, pc, r, ver, orig)
      PROVE  /\ req'[q].pc = pc /\ req'[q].rec = r
             /\ req'[q].obj = IF r = NoId THEN None ELSE records[r]
  BY <1>4, TypeParts DEF Start, RequestsOK
<1>5. ASSUME NEW r \in RecordIds, NEW v \in Targets, UpgradeLoad(q, r, v)
      PROVE  WorkInv'
  <2>1. Clear(r, rows)
    BY <1>3, <1>5 DEF UpgradeLoad, CanUpgrade, RecordWork, UnderWay
  <2>2. req'[q].pc = "construct" /\ req'[q].rec = r
    BY <1>4, <1>5 DEF UpgradeLoad
  <2>3. AtWork(req'[q], records', rows')
    BY <1>1, <2>1, <2>2 DEF AtWork
  <2> QED  BY <1>1, <1>3, <2>3, WorkAfter
<1>6. ASSUME NEW r \in RecordIds, RetryLoad(q, r) PROVE WorkInv'
  <2>1. Clear(r, rows)
    BY <1>3, <1>6 DEF RetryLoad, CanDeploy, RecordWork, UnderWay
  <2>2. req'[q].pc = "retry" /\ req'[q].rec = r
    BY <1>4, <1>6 DEF RetryLoad
  <2>3. AtWork(req'[q], records', rows')
    BY <1>1, <2>1, <2>2 DEF AtWork
  <2> QED  BY <1>1, <1>3, <2>3, WorkAfter
<1>7. ASSUME NEW r \in RecordIds, Poll(q, r) PROVE WorkInv'
  <2>1. /\ req'[q].pc = "fetchRows" /\ req'[q].rec = r /\ req'[q].obj = records[r]
        /\ records[r].status \in UnfinishedStatus
    <3>1. r # NoId
      BY DEF RecordIds
    <3>2. records[r] \in Record
      BY <1>7, TypeParts DEF Poll, Exists, RecordsOK
    <3> QED
      BY <1>4, <1>7, <3>1, <3>2 DEF Poll, IsFinished, Record
  <2>2. records[r].status = "NOT" => Clear(r, rows)
    BY <1>3 DEF RecordWork, UnderWay
  <2>3. AtWork(req'[q], records', rows')
    BY <1>1, <2>1, <2>2 DEF AtWork
  <2> QED  BY <1>1, <1>3, <2>3, WorkAfter
<1>8. CASE \/ CreateRead(q) \/ UpgradeComponentLoad(q) \/ List(q)
           \/ \E r \in RecordIds : RestoreLoad(q, r)
  <2>1. \/ req'[q].pc \in {"insert", "restoreConstruct", "listed"}
        \/ req'[q].pc = "publish" /\ req'[q].obj = None
    BY <1>4, <1>8
    DEF CreateRead, UpgradeComponentLoad, List, RestoreLoad, Unsynced,
        IsFinishedAttribute
  <2>2. AtWork(req'[q], records', rows')
    BY <2>1 DEF AtWork
  <2> QED  BY <1>1, <1>3, <2>2, WorkAfter
<1> QED
  BY <1>5, <1>6, <1>7, <1>8 DEF Starting

\* A request whose record is clear goes on towards its deployment, or fails.
LEMMA WorkClear ==
    ASSUME OneAtATime, TypeInv, WorkInv, crashes = 0, NEW q \in Requests,
           UNCHANGED <<records, rows>>, req[q].pc # "deleteRows",
           Clear(req[q].rec, rows), req'[q].rec = req[q].rec,
           req'[q].pc \in {"publish", "sync", "save", "cancel", "fail", "cancelUndo",
                           "failUndo", "undo"}
    PROVE  WorkInv'
<1>1. \A r \in RecordIds : RecordWork(records', rows', r)
  BY WorkBefore
<1>2. AtWork(req'[q], records', rows')
  BY DEF AtWork
<1> QED  BY <1>1, <1>2, WorkAfter

\* An upgrade works on a record that has no component under way.
LEMMA WorkUpgrades ==
    ASSUME OneAtATime, TypeInv, WorkInv, NEW q \in Requests,
           CreateInsert(q) \/ Upgrading(q)
    PROVE  WorkInv'
<1> USE DEF db, failures
<1>1. /\ UNCHANGED <<rows, crashes>>
      /\ req[q].pc \in {"insert", "construct", "publish", "sync", "save", "undo", "deploy"}
  BY DEF CreateInsert, Upgrading, Construct, Published, Publish, PublishUnconfirmed,
         PublishRefused, SyncNewApp, SyncNewAppFails, SaveApp, SaveAppFails,
         DiskPluginFails, Undo, UndoFails
<1>2. SUFFICES ASSUME crashes = 0 PROVE WorkInv'
  BY <1>1 DEF WorkInv
<1>3. /\ AtWork(req[q], records, rows)
      /\ \A r \in RecordIds : RecordWork(records, rows, r)
  BY <1>1, <1>2, WorkBefore
<1>4. CASE CreateInsert(q)
  <2> DEFINE rec == [type |-> "upgrade", status |-> "NOT", version |-> None,
                     old |-> req[q].orig, snap |-> None, parent |-> NoId]
  <2>1. rec \in Record
    BY TypeParts DEF RequestsOK, Record, Request, UpgradeStatus
  <2>2. Save(NewId, rec) /\ NewId \in RecordIds /\ ~Exists(NewId)
    BY <1>4, NewIdIsFree DEF CreateInsert, TypeInv
  <2> HIDE DEF rec
  <2>3. Clear(NewId, rows)
    BY <1>3, <2>2 DEF RecordWork, Exists
  <2>4. \A r \in RecordIds : RecordWork(records', rows', r)
    BY <1>1, <1>3, <2>1, <2>2, <2>3, WorkSave
  <2> QED  BY <1>4, <2>4, WorkReturn DEF CreateInsert
<1>5. CASE Publish(q) \/ PublishUnconfirmed(q)
  <2>1. /\ req[q].rec \in RecordIds
        /\ records[req[q].rec] \in Record
    BY <1>5, RequestFields, TypeParts
    DEF Publish, PublishUnconfirmed, Published, RecordsOK, Existing, Exists
  <2>2. records' = [records EXCEPT ![req[q].rec] =
            [records[req[q].rec] EXCEPT !.status = "UPGRADING", !.version = req[q].ver]]
    BY <1>5, <2>1, TypeParts DEF Publish, PublishUnconfirmed, Published, RecordsOK
  <2>3. Clear(req[q].rec, rows)
    BY <1>3, <1>5 DEF Publish, PublishUnconfirmed, Published, AtWork
  <2>4. \A r \in RecordIds : records'[r] = records[r] \/ r = req[q].rec
    BY <2>1, <2>2, TypeParts DEF RecordsOK
  <2>5. \A r \in RecordIds : RecordWork(records', rows', r)
    BY <1>1, <1>3, <2>3, <2>4 DEF RecordWork
  <2>6. CASE PublishUnconfirmed(q)
    BY <2>5, <2>6, WorkReturn DEF PublishUnconfirmed
  <2>7. CASE Publish(q)
    <3>1. req'[q].pc = "sync" /\ req'[q].rec = req[q].rec
      BY <2>7, GotoCopies DEF Publish
    <3>2. AtWork(req'[q], records', rows')
      BY <1>1, <2>3, <3>1 DEF AtWork
    <3> QED  BY <2>5, <3>2, WorkAfter
  <2> QED  BY <1>5, <2>6, <2>7
<1>6. CASE \/ SyncNewAppFails(q) \/ SaveAppFails(q) \/ DiskPluginFails(q)
           \/ SyncNewApp(q)
  <2>1. UNCHANGED records /\ req[q].pc \in {"sync", "save", "deploy"}
    BY <1>6 DEF SyncNewAppFails, SaveAppFails, DiskPluginFails, SyncNewApp
  <2>2. req'[q].pc \in {"save", "cancel", "cancelUndo"} /\ req'[q].rec = req[q].rec
    BY <1>6, FailsFields, GotoCopies
    DEF SyncNewAppFails, SaveAppFails, DiskPluginFails, SyncNewApp
  <2>3. Clear(req[q].rec, rows)
    BY <1>3, <2>1 DEF AtWork
  <2> QED  BY <1>1, <1>2, <2>1, <2>2, <2>3, WorkClear
<1>7. CASE Construct(q)
  <2>1. /\ UNCHANGED records /\ req[q].pc = "construct"
        /\ req'[q].pc = "publish" /\ req'[q].rec = req[q].rec
    BY <1>7, ConstructFields DEF Construct
  <2>2. Clear(req[q].rec, rows)
    BY <1>3, <2>1 DEF AtWork
  <2> QED  BY <1>1, <1>2, <2>1, <2>2, WorkClear
<1>9. CASE SaveApp(q)
  <2> DEFINE rec == Updated(q, "UPGRADING", req[q].orig)
  <2>1. /\ req[q].orig \in Versions /\ req[q] \in Request /\ req[q].obj \in Record
        /\ req[q].rec \in RecordIds /\ req[q].pc = "save"
    BY <1>9, RequestFields DEF SaveApp, MovingPhase, Working, Phase
  <2>2. rec \in Record
    BY <2>1, UpdatedType DEF UpgradeStatus
  <2>3. rec.status \in UnderWay
    BY <2>1 DEF Updated, Record, UnderWay
  <2>4. Save(req[q].rec, rec)
    BY <1>9 DEF SaveApp
  <2> HIDE DEF rec
  <2>5. /\ \A r \in RecordIds : RecordWork(records', rows', r)
        /\ records'[req[q].rec] = rec
    BY <1>1, <1>3, <2>1, <2>2, <2>3, <2>4, WorkSave
  <2>6. req'[q].pc = "deploy" /\ req'[q].rec = req[q].rec
    BY <1>9, TypeParts DEF SaveApp, RequestsOK, Request
  <2>7. AtWork(req'[q], records', rows')
    BY <1>1, <1>3, <2>1, <2>3, <2>5, <2>6 DEF AtWork
  <2> QED  BY <2>5, <2>7, WorkAfter
<1>10. CASE PublishRefused(q) \/ Undo(q) \/ UndoFails(q)
  <2>1. Return(q) /\ UNCHANGED records
    BY <1>10 DEF PublishRefused, Undo, UndoFails
  <2> QED  BY <1>1, <1>3, <2>1, WorkReturn
<1> QED
  BY <1>4, <1>5, <1>6, <1>7, <1>9, <1>10 DEF Upgrading

\* A failure is recorded on a record that has no component under way.
LEMMA WorkFailing ==
    ASSUME OneAtATime, TypeInv, WorkInv, NEW q \in Requests, Failing(q)
    PROVE  WorkInv'
<1> USE DEF db, failures
<1>1. /\ UNCHANGED <<rows, crashes>>
      /\ req[q].pc \in {"cancel", "fail", "cancelUndo", "failUndo"}
      /\ req[q].obj \in Record /\ req[q].rec \in RecordIds
  <2>1. /\ UNCHANGED <<rows, crashes>>
        /\ req[q].pc \in {"cancel", "fail", "cancelUndo", "failUndo"}
    BY DEF Failing, Cancel, RecordFailure, RecordFailureFails
  <2> QED  BY <2>1, RequestFields DEF Working, Phase
<1>2. SUFFICES ASSUME crashes = 0 PROVE WorkInv'
  BY <1>1 DEF WorkInv
<1>3. /\ Clear(req[q].rec, rows)
      /\ \A r \in RecordIds : RecordWork(records, rows, r)
  BY <1>1, <1>2, WorkBefore DEF AtWork
<1>4. CASE Cancel(q)
  <2>1. UNCHANGED records
    BY <1>4 DEF Cancel
  <2>2. req'[q].pc \in {"fail", "failUndo"} /\ req'[q].rec = req[q].rec
    BY <1>4, GotoCopies DEF Cancel
  <2> QED  BY <1>1, <1>2, <1>3, <2>1, <2>2, WorkClear
<1>5. CASE RecordFailure(q)
  <2>1. \A r \in RecordIds : RecordWork(records', rows', r)
    BY <1>1, <1>3, <1>5, WorkSave DEF RecordFailure
  <2>2. CASE Return(q)
    BY <2>1, <2>2, WorkReturn
  <2>3. CASE Goto(q, "undo")
    BY <2>1, <2>3, GotoCopies, WorkAfter DEF AtWork
  <2> QED  BY <1>5, <2>2, <2>3 DEF RecordFailure
<1>6. CASE RecordFailureFails(q)
  BY <1>1, <1>3, <1>6, WorkReturn DEF RecordFailureFails
<1> QED  BY <1>4, <1>5, <1>6 DEF Failing

\* A rollback record begins under way, with nothing under way.
LEMMA WorkRestores ==
    ASSUME OneAtATime, TypeInv, WorkInv, NEW q \in Requests, Restoring(q)
    PROVE  WorkInv'
<1> USE DEF db, failures
<1>1. /\ UNCHANGED <<rows, crashes>>
      /\ req[q].pc \in {"restoreConstruct", "restoreCancel", "restoreSync", "restoreSave",
                        "restoreRecord"}
  BY DEF Restoring, RestoreConstruct, RestoreCancel, RestoreSync, RestoreSyncFails,
         RestoreSave, RestoreSaveFails, RestoreRecord, RestoreRecordFails
<1>2. SUFFICES ASSUME crashes = 0 PROVE WorkInv'
  BY <1>1 DEF WorkInv
<1>3. \A r \in RecordIds : RecordWork(records, rows, r)
  BY <1>1, <1>2, WorkBefore
<1>4. CASE RestoreRecord(q)
  <2> DEFINE rollback == [type    |-> "rollback",
                          status  |-> "ROLLING",
                          version |-> req[q].obj.old,
                          old     |-> req[q].obj.version,
                          snap    |-> req[q].obj.snap,
                          parent  |-> req[q].rec]
  <2>1. rollback \in Record
    <3>1. req[q].obj \in Record /\ req[q].rec \in RecordIds
      BY <1>4, RequestFields DEF RestoreRecord, Working, Phase
    <3> QED  BY <3>1 DEF Record, UpgradeStatus
  <2>2. /\ Save(NewId, rollback) /\ NewId \in RecordIds /\ ~Exists(NewId)
        /\ req' = [req EXCEPT ![q].pc = "deploy", ![q].rec = NewId, ![q].obj = rollback]
    BY <1>4, NewIdIsFree DEF RestoreRecord, TypeInv
  <2>3. rollback.status \in UnderWay
    BY DEF UnderWay
  <2> HIDE DEF rollback
  <2>4. Clear(NewId, rows)
    BY <1>3, <2>2 DEF RecordWork, Exists
  <2>5. /\ \A r \in RecordIds : RecordWork(records', rows', r)
        /\ records'[NewId].status \in UnderWay
    BY <1>1, <1>3, <2>1, <2>2, <2>3, WorkSave
  <2>6. req'[q].pc = "deploy" /\ req'[q].rec = NewId
    BY <2>2, TypeParts DEF RequestsOK, Request
  <2>7. AtWork(req'[q], records', rows')
    BY <1>1, <2>4, <2>5, <2>6 DEF AtWork
  <2> QED  BY <2>5, <2>7, WorkAfter
<1>5. CASE ~RestoreRecord(q)
  <2>1. UNCHANGED records
    BY <1>5 DEF Restoring, RestoreConstruct, RestoreCancel, RestoreSync,
                RestoreSyncFails, RestoreSave, RestoreSaveFails, RestoreRecordFails
  <2>2. \/ Return(q)
        \/ req'[q].pc \in {"restoreCancel", "restoreSync", "restoreSave", "restoreRecord",
                           "undo"}
    BY <1>5, GotoCopies, ConstructFields
    DEF Restoring, RestoreConstruct, RestoreCancel, RestoreSync, RestoreSyncFails,
        RestoreSave, RestoreSaveFails, RestoreRecordFails
  <2>3. CASE ~Return(q)
    <3>1. AtWork(req'[q], records', rows')
      BY <2>2, <2>3 DEF AtWork
    <3> QED  BY <1>1, <1>3, <2>1, <3>1, WorkAfter
  <2>4. CASE Return(q)
    BY <1>1, <1>3, <2>1, <2>4, WorkReturn
  <2> QED  BY <2>3, <2>4
<1> QED  BY <1>4, <1>5

\* Component records are made under way only for a record under way.
LEMMA WorkDeploys ==
    ASSUME OneAtATime, TypeInv, RowInv, WorkInv, NEW q \in Requests, Deploying(q)
    PROVE  WorkInv'
<1> USE DEF db, failures
<1>1. /\ UNCHANGED crashes
      /\ req[q].pc \in {"deploy", "track", "createRows", "retry"}
      /\ req[q].obj \in Record /\ req[q].rec \in RecordIds /\ req[q] \in Request
  <2>1. UNCHANGED crashes /\ req[q].pc \in {"deploy", "track", "createRows", "retry"}
    BY DEF Deploying, Deploy, DeployFails, Track, CreateRows, Retry, RetryFails
  <2> QED  BY <2>1, RequestFields DEF Working, Phase
<1>2. SUFFICES ASSUME crashes = 0 PROVE WorkInv'
  BY <1>1 DEF WorkInv
<1>3. /\ AtWork(req[q], records, rows)
      /\ \A r \in RecordIds : RecordWork(records, rows, r)
  BY <1>1, <1>2, WorkBefore
<1>4. CASE Deploy(q)
  <2>1. /\ UNCHANGED <<records, rows>> /\ req[q].pc = "deploy"
        /\ \E n : req' = [req EXCEPT ![q].pc = "track", ![q].n = n]
    BY <1>4 DEF Deploy
  <2>2. req'[q].pc = "track" /\ req'[q].rec = req[q].rec
    BY <2>1, TypeParts DEF RequestsOK, Request
  <2>3. AtWork(req'[q], records', rows')
    BY <1>3, <2>1, <2>2 DEF AtWork
  <2> QED  BY <1>3, <2>1, <2>3, WorkAfter
<1>8. CASE Track(q)
  <2>1. /\ UNCHANGED <<records, rows>> /\ req[q].pc = "track"
        /\ req'[q].pc = "createRows" /\ req'[q].rec = req[q].rec
    BY <1>8, GotoCopies DEF Track
  <2>2. AtWork(req'[q], records', rows')
    BY <1>3, <2>1 DEF AtWork
  <2> QED  BY <1>3, <2>1, <2>2, WorkAfter
<1>5. CASE DeployFails(q)
  <2>1. /\ UNCHANGED <<records, rows>> /\ req[q].pc = "deploy"
        /\ req'[q].pc \in {"cancel", "fail"} /\ req'[q].rec = req[q].rec
    BY <1>5, FailsFields DEF DeployFails
  <2>2. Clear(req[q].rec, rows)
    BY <1>3, <2>1 DEF AtWork
  <2> QED  BY <1>2, <2>1, <2>2, WorkClear
<1>9. CASE RetryFails(q)
  <2> DEFINE rec == [req[q].obj EXCEPT !.status = "DEPLOY_FAILED"]
  <2>1. rec \in Record
    BY <1>1 DEF Record, UpgradeStatus
  <2>2. Save(req[q].rec, rec) /\ UNCHANGED rows /\ Return(q) /\ req[q].pc = "retry"
    BY <1>9 DEF RetryFails
  <2> HIDE DEF rec
  <2>3. Clear(req[q].rec, rows)
    BY <1>3, <2>2 DEF AtWork
  <2>4. \A r \in RecordIds : RecordWork(records', rows', r)
    BY <1>1, <1>3, <2>1, <2>2, <2>3, WorkSave
  <2> QED  BY <2>2, <2>4, WorkReturn
<1>6. CASE Retry(q)
  <2> DEFINE status == InProgress(req[q].obj.type)
             rec == [req[q].obj EXCEPT !.status = status]
  <2>1. status \in UnderWay /\ status \in UpgradeStatus
    BY DEF InProgress, UnderWay, UpgradeStatus
  <2>2. Save(req[q].rec, rec) /\ Return(q)
    BY <1>6 DEF Retry
  <2> HIDE DEF status
  <2>3. rec \in Record /\ rec.status = status
    BY <1>1, <2>1 DEF Record
  <2> HIDE DEF rec
  <2>4. UNCHANGED rows
    <3>1. rows' = [k \in RowIds |-> rows[k]]
      BY <1>6, NothingToRetry DEF Retry
    <3> QED  BY <3>1, TypeParts DEF WorldOK
  <2>5. \A r \in RecordIds : RecordWork(records', rows', r)
    BY <1>1, <1>3, <2>1, <2>2, <2>3, <2>4, WorkSave
  <2> QED  BY <2>2, <2>5, WorkReturn
<1>7. CASE CreateRows(q)
  <2>1. /\ UNCHANGED records /\ Return(q)
        /\ records[req[q].rec].status \in UnderWay
    BY <1>3, <1>7 DEF CreateRows, AtWork
  <2>2. \A k \in RowIds : k[1] # req[q].rec => rows'[k] = rows[k]
    BY <1>7 DEF CreateRows, Deployment
  <2>3. records[req[q].rec] # None
    BY <1>1, RequestFields DEF Working, Phase, Existing, Exists
  <2>4. \A r \in RecordIds : RecordWork(records', rows', r)
    BY <1>3, <2>1, <2>2, <2>3 DEF RecordWork, Clear
  <2> QED  BY <2>1, <2>4, WorkReturn
<1> QED  BY <1>4, <1>5, <1>6, <1>7, <1>8, <1>9 DEF Deploying

\* An unfinished verdict is the status the record had; a finished one, or none,
\* is about rows that have finished.
LEMMA VerdictOnRows ==
    ASSUME NEW rec \in Record, NEW rs \in [RowIds -> UpgradeStatus \cup {None}],
           rec.status \in UnfinishedStatus,
           rec.status = "NOT" => NoneUnfinished(rs),
           Verdict(rec, rs) \notin UnderWay
    PROVE  NoneUnfinished(rs)
<1> DEFINE statuses == {rs[k] : k \in Present(rs)}
<1>1. CASE statuses \cap UnfinishedStatus # {}
  <2>1. Verdict(rec, rs) = rec.status
    BY <1>1 DEF Verdict
  <2> QED  BY <2>1 DEF UnfinishedStatus, UnderWay
<1>2. CASE statuses \cap UnfinishedStatus = {}
  <2>1. ASSUME NEW k \in RowIds PROVE rs[k] \notin UnfinishedStatus
    <3>1. CASE rs[k] # None
      <4>1. k \in Present(rs)
        BY <3>1 DEF Present
      <4> QED  BY <1>2, <4>1
    <3>2. CASE rs[k] = None
      BY <3>2 DEF UnfinishedStatus, UpgradeStatus
    <3> QED  BY <3>1, <3>2
  <2> QED  BY <2>1 DEF NoneUnfinished
<1> QED  BY <1>1, <1>2

\* Reading rows and events of a record under poll.
LEMMA WorkReads ==
    ASSUME OneAtATime, TypeInv, WorkInv, NEW q \in Requests,
           FetchRows(q) \/ FetchEvents(q)
    PROVE  WorkInv'
<1> USE DEF db, failures
<1>1. /\ UNCHANGED <<records, rows, crashes>>
      /\ req[q].pc \in {"fetchRows", "fetchEvents"}
      /\ req[q].obj \in Record /\ req[q] \in Request
      /\ rows \in [RowIds -> UpgradeStatus \cup {None}]
  <2>1. /\ UNCHANGED <<records, rows, crashes>>
        /\ req[q].pc \in {"fetchRows", "fetchEvents"}
    BY DEF FetchRows, FetchEvents
  <2> QED  BY <2>1, RequestFields, TypeParts DEF Working, Phase, WorldOK
<1>2. SUFFICES ASSUME crashes = 0 PROVE WorkInv'
  BY <1>1 DEF WorkInv
<1>3. /\ AtWork(req[q], records, rows)
      /\ \A r \in RecordIds : RecordWork(records, rows, r)
  BY <1>1, <1>2, WorkBefore
<1>4. CASE FetchRows(q)
  <2>1. /\ req'[q].pc = "fetchEvents" /\ req'[q].rec = req[q].rec
        /\ req'[q].obj = req[q].obj /\ req'[q].held = RowsOf(req[q].rec)
        /\ req[q].pc = "fetchRows"
    BY <1>4, TypeParts DEF FetchRows, RequestsOK, Request
  <2>2. \A k \in RowIds :
          RowsOf(req[q].rec)[k] = IF k[1] = req[q].rec THEN rows[k] ELSE None
    BY DEF RowsOf
  <2>3. None \notin UnfinishedStatus
    BY DEF UnfinishedStatus, UpgradeStatus
  <2>4. req[q].obj.status = "NOT" => NoneUnfinished(RowsOf(req[q].rec))
    BY <1>3, <2>1, <2>2, <2>3 DEF AtWork, Clear, NoneUnfinished
  <2>5. req[q].obj.status \in UnfinishedStatus
    BY <1>3, <2>1 DEF AtWork
  <2>6. AtWork(req'[q], records', rows')
    BY <1>1, <2>1, <2>2, <2>4, <2>5 DEF AtWork
  <2> QED  BY <1>1, <1>3, <2>6, WorkAfter
<1>5. CASE FetchEvents(q)
  <2> DEFINE held == [k \in RowIds |-> Refreshed(req[q].held[k], event[k])]
             verdict == Verdict(req[q].obj, held)
             obj == [req[q].obj EXCEPT !.status = verdict]
             x == [req[q] EXCEPT !.pc = "saveRecord", !.held = held, !.obj = obj]
  <2>1. req' = [req EXCEPT ![q] = x] /\ req[q].pc = "fetchEvents"
    BY <1>5, FetchEventsRequest DEF FetchEvents
  <2>2. held \in [RowIds -> UpgradeStatus \cup {None}]
    BY <1>1 DEF Request, Refreshed, StatusTable, UpgradeStatus
  <2>3. \A k \in RowIds :
          /\ req[q].held[k] # None => held[k] # None
          /\ req[q].held[k] \notin UnfinishedStatus => held[k] \notin UnfinishedStatus
    BY <1>1 DEF Request, Refreshed, StatusTable, UpgradeStatus, UnfinishedStatus
  <2> HIDE DEF verdict, held
  <2>4. obj.status = verdict
    BY <1>1 DEF Record
  <2> HIDE DEF obj
  <2>5. /\ req'[q].pc = "saveRecord" /\ req'[q].rec = req[q].rec
        /\ req'[q].obj = obj /\ req'[q].held = held
    BY <1>1, <2>1, TypeParts DEF RequestsOK, Request
  <2> HIDE DEF x
  <2>6. req[q].obj.status = "NOT" => NoneUnfinished(held)
    BY <1>3, <2>1, <2>3 DEF AtWork, NoneUnfinished
  <2>7. verdict \notin UnderWay => NoneUnfinished(held)
    <3>1. req[q].obj.status \in UnfinishedStatus
      BY <1>3, <2>1 DEF AtWork
    <3> QED  BY <1>1, <2>2, <2>6, <3>1, VerdictOnRows DEF verdict
  <2>8. \A k \in RowIds : k[1] = req[q].rec /\ rows[k] # None => held[k] # None
    BY <1>3, <2>1, <2>3 DEF AtWork
  <2>9. AtWork(req'[q], records', rows')
    BY <1>1, <2>4, <2>5, <2>7, <2>8 DEF AtWork
  <2> QED  BY <1>1, <1>3, <2>9, WorkAfter
<1> QED  BY <1>4, <1>5

\* A poll that saves a finished verdict replaces the rows it is about.
LEMMA WorkSyncs ==
    ASSUME OneAtATime, TypeInv, BatchInv, WorkInv, NEW q \in Requests,
           \/ FetchEventsFails(q) \/ SaveRecord(q) \/ ListReturn(q)
           \/ DeleteRows(q) \/ InsertRows(q)
    PROVE  WorkInv'
<1> USE DEF db, failures
<1>1. UNCHANGED crashes
  BY DEF FetchEventsFails, SaveRecord, ListReturn, DeleteRows, InsertRows
<1>2. SUFFICES ASSUME crashes = 0 PROVE WorkInv'
  BY <1>1 DEF WorkInv
<1>3. /\ AtWork(req[q], records, rows)
      /\ \A r \in RecordIds :
            req[q].pc # "deleteRows" \/ req[q].rec # r => RecordWork(records, rows, r)
      /\ rows \in [RowIds -> UpgradeStatus \cup {None}]
      /\ req[q] \in Request
  BY <1>2, WorkBefore, TypeParts DEF WorldOK, RequestsOK
<1>4. None \notin UnfinishedStatus
  BY DEF UnfinishedStatus, UpgradeStatus
<1>5. CASE FetchEventsFails(q) \/ ListReturn(q)
  BY <1>3, <1>5, WorkReturn DEF FetchEventsFails, ListReturn
<1>6. CASE SaveRecord(q)
  <2>1. /\ req[q].pc = "saveRecord" /\ Save(req[q].rec, req[q].obj) /\ UNCHANGED rows
        /\ req[q].obj \in Record /\ req[q].rec \in RecordIds
    BY <1>6, RequestFields DEF SaveRecord, Working, Phase
  <2>2. \A r \in RecordIds :
          records'[r] = IF r = req[q].rec THEN req[q].obj ELSE records[r]
    BY <2>1, TypeParts DEF Save, RecordsOK
  <2>3. \A r \in RecordIds \ {req[q].rec} : RecordWork(records', rows', r)
    BY <1>3, <2>1, <2>2 DEF RecordWork
  <2>4. CASE Present(req[q].held) = {}
    <3>1. Return(q)
      BY <1>6, <2>4 DEF SaveRecord
    <3>2. \A k \in RowIds : k[1] = req[q].rec => rows[k] = None
      BY <1>3, <2>1, <2>4 DEF AtWork, Present
    <3>3. RecordWork(records', rows', req[q].rec)
      BY <1>4, <2>1, <3>2 DEF RecordWork, Clear
    <3> QED  BY <2>3, <3>1, <3>3, WorkReturn
  <2>5. CASE Present(req[q].held) # {}
    <3>1. /\ req'[q].pc = "deleteRows" /\ req'[q].rec = req[q].rec
          /\ req'[q].held = req[q].held
      BY <1>6, <2>5, GotoCopies DEF SaveRecord
    <3>2. /\ req[q].obj.status \notin UnderWay => NoneUnfinished(req[q].held)
          /\ \A k \in RowIds : k[1] = req[q].rec /\ rows[k] # None
                => req[q].held[k] # None
      BY <1>3, <2>1 DEF AtWork
    <3>3. AtWork(req'[q], records', rows')
      BY <2>1, <2>2, <3>1, <3>2 DEF AtWork
    <3> QED  BY <2>3, <3>1, <3>3, WorkAfter
  <2> QED  BY <2>4, <2>5
<1>7. CASE DeleteRows(q)
  <2>1. /\ req[q].pc = "deleteRows" /\ UNCHANGED records
        /\ \A k \in RowIds : rows'[k] = IF req[q].held[k] # None THEN None ELSE rows[k]
    BY <1>7 DEF DeleteRows, Present
  <2>2. /\ req'[q].pc = "insertRows" /\ req'[q].rec = req[q].rec
        /\ req'[q].held = req[q].held
    BY <1>7, GotoCopies DEF DeleteRows
  <2>3. Clear(req[q].rec, rows')
    BY <1>3, <1>4, <2>1 DEF AtWork, Clear
  <2>4. \A r \in RecordIds : RecordWork(records', rows', r)
    BY <1>3, <1>4, <2>1, <2>3 DEF RecordWork, Clear
  <2>5. AtWork(req'[q], records', rows')
    BY <1>3, <2>1, <2>2 DEF AtWork
  <2> QED  BY <2>4, <2>5, WorkAfter
<1>8. CASE InsertRows(q)
  <2>1. /\ req[q].pc = "insertRows" /\ UNCHANGED records /\ Return(q)
        /\ \A k \in RowIds :
              \/ rows'[k] = rows[k]
              \/ req[q].held[k] # None /\ rows'[k] = req[q].held[k]
    BY <1>3, <1>8 DEF InsertRows, Present
  <2>2. \A k \in RowIds : req[q].held[k] # None => k[1] = req[q].rec
    BY DEF BatchInv, HeldOK, Present
  <2>3. records[req[q].rec].status \notin UnderWay => NoneUnfinished(req[q].held)
    BY <1>3, <2>1 DEF AtWork
  <2>4. records[req[q].rec] # None
    BY <2>1, RequestFields DEF Working, Phase, Existing, Exists
  <2>5. ASSUME NEW r \in RecordIds PROVE RecordWork(records', rows', r)
    <3>1. RecordWork(records, rows, r)
      BY <1>3, <2>1
    <3> QED
      BY <2>1, <2>2, <2>3, <2>4, <3>1 DEF RecordWork, Clear, NoneUnfinished
  <2> QED  BY <2>1, <2>5, WorkReturn
<1> QED  BY <1>5, <1>6, <1>7, <1>8

\* There are no records at first.
LEMMA WorkInit == Init => WorkInv
<1> SUFFICES ASSUME Init PROVE WorkInv
  OBVIOUS
<1>1. \A k \in RowIds : rows[k] = None
  BY DEF Init, NoRows
<1>2. None \notin UnfinishedStatus
  BY DEF UnfinishedStatus, UpgradeStatus
<1>3. \A q \in Requests : req[q].pc = "idle"
  BY DEF Init, Idle
<1> QED  BY <1>1, <1>2, <1>3 DEF WorkInv, RecordWork, Clear, AtWork

\* Every step keeps account of what is under way.
LEMMA WorkNext ==
    ASSUME OneAtATime, TypeInv, RowInv, BatchInv, WorkInv, [Next]_vars
    PROVE  WorkInv'
<1>1. ASSUME NEW q \in Requests, Continuing(q) PROVE WorkInv'
  BY <1>1, WorkUpgrades, WorkFailing, WorkRestores, WorkDeploys, WorkReads, WorkSyncs
  DEF Continuing, Syncing
<1>2. ASSUME NEW q \in Requests, Crash(q) PROVE WorkInv'
  <2>1. crashes' # 0
    BY <1>2, TypeParts DEF Crash, WorldOK
  <2> QED  BY <2>1 DEF WorkInv
<1>3. ASSUME UNCHANGED <<records, rows, req, crashes>> PROVE WorkInv'
  BY <1>3 DEF WorkInv
<1> QED
  BY <1>1, <1>2, <1>3, WorkStarts
  DEF Next, EventEnds, SnapshotWorker, FenceExpires, vars, db, failures, Fault

\* Whatever fails, when a request that no crash cut short has ended, a record it
\* left finished has no component record still under way.
THEOREM FinishedMeansFinishedCorrect ==
    ASSUME OneAtATime PROVE Spec => []FinishedMeansFinished
<1>1. TypeInv /\ RowInv /\ BatchInv /\ WorkInv /\ [Next]_vars => WorkInv'
  BY WorkNext
<1>2. WorkInv => FinishedMeansFinished
  <2> SUFFICES ASSUME WorkInv, AllIdle, crashes = 0,
                      NEW r \in Existing, IsFinished(records[r])
               PROVE  Clear(r, rows)
    BY DEF FinishedMeansFinished, Clear
  <2>1. r \in RecordIds /\ records[r].status \notin UnderWay
    BY DEF Existing, IsFinished, UnfinishedStatus, UnderWay
  <2> QED  BY <2>1 DEF WorkInv, AllIdle, RecordWork
<1> QED
  BY <1>1, <1>2, WorkInit, InitTypes, NextTypes, RowInit, RowNext, BatchInit,
     BatchNext, PTL DEF Spec

-----------------------------------------------------------------------------
(***************************************************************************)
(* Upgrades that overlap                                                   *)
(*                                                                         *)
(* before_upgrade claims the application's snapshot row, and while the row *)
(* is claimed or waits for deployments no other upgrade passes it.  What   *)
(* that gives to any number of concurrent requests is shown here, for      *)
(* applications that have such a row.  A restore cancels the claim and     *)
(* waits for nobody, so there are none.                                    *)
(***************************************************************************)

RestorePhase == {"restoreConstruct", "restoreCancel", "restoreSync", "restoreSave",
                 "restoreRecord"}

\* The row is there to be claimed, and nobody takes a claim away.
Guarded == FenceSupported /\ "restore" \notin Kinds

\* Until a deadline passes under it, whoever is in the claiming phases has the claim.
Claims(q) == req[q].pc \in Claiming

ClaimInv ==
    Guarded =>
        /\ \A q \in Requests : req[q].pc \notin RestorePhase
        /\ "deadline" \notin parted =>
              /\ \A q \in Requests : Claims(q) => fence.status = "dispatching"
              /\ \A p, q \in Requests : Claims(p) /\ Claims(q) => p = q

\* A request that takes a step is alone in it.
LEMMA OthersStay ==
    ASSUME TypeInv, NEW q \in Requests, Starting(q) \/ Continuing(q) \/ Crash(q)
    PROVE  \A p \in Requests \ {q} : req'[p] = req[p]
<1>1. req \in [Requests -> Request]
  BY TypeParts DEF RequestsOK
<1>2. ASSUME NEW pc, NEW r, NEW ver, NEW orig, Start(q, pc, r, ver, orig)
      PROVE  \A p \in Requests \ {q} : req'[p] = req[p]
  BY <1>1, <1>2 DEF Start
<1>3. CASE Starting(q)
  BY <1>2, <1>3 DEF Starting, CreateRead, UpgradeLoad, UpgradeComponentLoad, RestoreLoad,
     RetryLoad, Poll, List
<1>4. CASE CreateInsert(q) \/ Upgrading(q) \/ Failing(q) \/ Restoring(q)
  BY <1>1, <1>4 DEF CreateInsert, Upgrading, Construct, Publish, PublishUnconfirmed,
     PublishRefused, SyncNewApp, SyncNewAppFails, SaveApp, SaveAppFails, DiskPluginFails,
     Undo, UndoFails, FailsWith, Failing, Cancel, RecordFailure, RecordFailureFails,
     Restoring, RestoreConstruct, RestoreCancel, RestoreSync, RestoreSyncFails,
     RestoreSave, RestoreSaveFails, RestoreRecord, RestoreRecordFails, Goto, Return
<1>5. CASE Deploying(q) \/ Syncing(q) \/ Crash(q)
  BY <1>1, <1>5 DEF Deploying, Deploy, DeployFails, FailsWith, Track, CreateRows, Retry,
     RetryFails, Syncing, FetchRows, FetchEvents, FetchEventsFails, SaveRecord, DeleteRows,
     InsertRows, ListReturn, Crash, Goto, Return
<1> QED
  BY <1>3, <1>4, <1>5 DEF Continuing

\* The deadline stays on record.
LEMMA DeadlineStays ==
    ASSUME [Next]_vars
    PROVE  "deadline" \in parted => "deadline" \in parted'
<1> USE DEF failures
<1>1. ASSUME NEW q \in Requests, Starting(q) PROVE parted' = parted
  BY <1>1 DEF Starting, CreateRead, UpgradeLoad, UpgradeComponentLoad, RestoreLoad,
     RetryLoad, Poll, List
<1>2. ASSUME NEW q \in Requests, CreateInsert(q) \/ Upgrading(q) \/ Failing(q) \/ Restoring(q)
      PROVE  parted \subseteq parted'
  BY <1>2 DEF CreateInsert, Upgrading, Construct, Published, Publish, PublishUnconfirmed,
     PublishRefused, SyncNewApp, SyncNewAppFails, SaveApp, SaveAppFails, DiskPluginFails,
     Undo, UndoFails, Failing, Cancel, RecordFailure, RecordFailureFails,
     Restoring, RestoreConstruct, RestoreCancel, RestoreSync, RestoreSyncFails,
     RestoreSave, RestoreSaveFails, RestoreRecord, RestoreRecordFails
<1>3. ASSUME NEW q \in Requests, Deploying(q) \/ Syncing(q) \/ Crash(q)
      PROVE  parted \subseteq parted'
  BY <1>3 DEF Deploying, Deploy, DeployFails, Track, CreateRows, Retry, RetryFails, Syncing,
     FetchRows, FetchEvents, FetchEventsFails, SaveRecord, DeleteRows, InsertRows,
     ListReturn, Crash
<1> QED
  BY <1>1, <1>2, <1>3
  DEF Next, Continuing, EventEnds, SnapshotWorker, FenceExpires, vars

\* A step of q that leaves the row alone, or lets q go of it, keeps the claims
\* of the others.
LEMMA ClaimStep ==
    ASSUME ClaimInv, NEW q \in Requests, \A p \in Requests \ {q} : req'[p] = req[p],
           "deadline" \in parted => "deadline" \in parted',
           Guarded => /\ req'[q].pc \notin RestorePhase
                      /\ req'[q].pc \in Claiming => Claims(q) /\ UNCHANGED fence
                      /\ Claims(q) \/ UNCHANGED fence
    PROVE  ClaimInv'
<1> SUFFICES ASSUME Guarded PROVE ClaimInv'
  BY DEF ClaimInv, Guarded
<1>1. \A p \in Requests : req'[p].pc \notin RestorePhase
  BY DEF ClaimInv
<1>2. ASSUME "deadline" \notin parted', NEW p \in Requests, Claims(p)'
      PROVE  Claims(p) /\ fence'.status = "dispatching" /\ "deadline" \notin parted
  <2>1. Claims(p)
    BY <1>2 DEF Claims
  <2>2. "deadline" \notin parted
    BY <1>2
  <2>3. UNCHANGED fence
    BY <1>2, <2>1, <2>2 DEF ClaimInv, Claims
  <2> QED  BY <2>1, <2>2, <2>3 DEF ClaimInv
<1> QED  BY <1>1, <1>2 DEF ClaimInv

\* Where a step leads that does not take the claim.
LEMMA QuietUpgrades ==
    ASSUME TypeInv, NEW q \in Requests,
           CreateInsert(q) \/ (Upgrading(q) /\ ~Publish(q) /\ ~PublishUnconfirmed(q))
           \/ Failing(q)
    PROVE  /\ req'[q].pc \notin RestorePhase
           /\ req'[q].pc \in Claiming => Claims(q) /\ UNCHANGED fence
           /\ Claims(q) \/ UNCHANGED fence
<1> USE DEF Claims, Claiming, RestorePhase
<1>1. ASSUME Return(q) PROVE req'[q].pc = "idle"
  BY <1>1, TypeParts DEF Return, RequestsOK, Idle
<1>2. CASE CreateInsert(q) \/ PublishRefused(q) \/ Undo(q) \/ UndoFails(q)
  BY <1>1, <1>2 DEF CreateInsert, PublishRefused, Undo, UndoFails
<1>3. CASE SyncNewApp(q) \/ Failing(q)
  BY <1>1, <1>3, GotoFields
  DEF SyncNewApp, Failing, Cancel, RecordFailure, RecordFailureFails
<1>4. CASE SyncNewAppFails(q) \/ SaveAppFails(q) \/ DiskPluginFails(q)
  BY <1>4, FailsFields DEF SyncNewAppFails, SaveAppFails, DiskPluginFails
<1>5. CASE SaveApp(q)
  BY <1>5, TypeParts DEF SaveApp, RequestsOK, Request
<1>6. CASE Construct(q)
  <2>1. req'[q].pc = "publish" /\ UNCHANGED fence
    BY <1>6, ConstructFields DEF Construct
  <2> QED  BY <2>1
<1> QED
  BY <1>2, <1>3, <1>4, <1>5, <1>6 DEF Upgrading

LEMMA QuietRest ==
    ASSUME TypeInv, NEW q \in Requests, Deploying(q) \/ Syncing(q) \/ Crash(q)
    PROVE  /\ req'[q].pc \notin RestorePhase
           /\ req'[q].pc \in Claiming => Claims(q) /\ UNCHANGED fence
           /\ Claims(q) \/ UNCHANGED fence
<1> USE DEF Claims, Claiming, RestorePhase
<1>1. CASE Crash(q)
  BY <1>1, TypeParts DEF Crash, Return, RequestsOK, Idle
<1>2. CASE Deploy(q) \/ DeployFails(q)
  BY <1>2, RestPhases DEF Deploy, DeployFails, Deploying
<1>3. CASE Track(q)
  BY <1>3, GotoFields DEF Track
<1>4. CASE CreateRows(q) \/ Retry(q) \/ RetryFails(q) \/ Syncing(q)
  <2>1. UNCHANGED fence
    BY <1>4 DEF CreateRows, Retry, RetryFails, Syncing, FetchRows, FetchEvents,
       FetchEventsFails, SaveRecord, DeleteRows, InsertRows, ListReturn
  <2>2. req'[q].pc \in {"idle", "fetchEvents", "saveRecord", "deleteRows", "insertRows"}
    <3>1. CASE Return(q)
      BY <3>1, TypeParts DEF Return, RequestsOK, Idle
    <3>2. CASE \E pc \in {"deleteRows", "insertRows"} : Goto(q, pc)
      BY <3>2, GotoFields
    <3>3. CASE FetchRows(q)
      BY <3>3, TypeParts DEF FetchRows, RequestsOK, Request
    <3>4. CASE FetchEvents(q)
      <4>1. \E held, obj : req' = [req EXCEPT ![q] =
              [req[q] EXCEPT !.pc = "saveRecord", !.held = held, !.obj = obj]]
        BY <3>4, FetchEventsRequest
      <4> QED  BY <4>1, TypeParts DEF RequestsOK, Request
    <3> QED
      BY <1>4, <3>1, <3>2, <3>3, <3>4 DEF CreateRows, Retry, RetryFails, Syncing,
         FetchEventsFails, SaveRecord, DeleteRows, InsertRows, ListReturn
  <2> QED  BY <2>1, <2>2
<1> QED  BY <1>1, <1>2, <1>3, <1>4 DEF Deploying

\* A claim is granted to nobody while somebody has it.
LEMMA ClaimPublishes ==
    ASSUME TypeInv, ClaimInv, NEW q \in Requests, Publish(q) \/ PublishUnconfirmed(q)
    PROVE  ClaimInv'
<1>1. \A p \in Requests \ {q} : req'[p] = req[p]
  BY OthersStay DEF Continuing, Upgrading
<1>2. UNCHANGED parted /\ req'[q].pc \in {"sync", "idle"}
  BY GotoFields, TypeParts
  DEF Publish, PublishUnconfirmed, Published, Return, RequestsOK, Idle
<1> SUFFICES ASSUME Guarded PROVE ClaimInv'
  BY DEF ClaimInv, Guarded
<1>3. fence.status # "dispatching" /\ fence'.status = "dispatching"
  BY DEF Publish, PublishUnconfirmed, Published, Guarded, Fence!BeforeUpgrade,
     Fence!MayDispatch, Fence!Enabled
<1>4. "deadline" \notin parted => \A p \in Requests : ~Claims(p)
  BY <1>3 DEF ClaimInv
<1>5. ASSUME "deadline" \notin parted', NEW p \in Requests, Claims(p)' PROVE p = q
  BY <1>1, <1>2, <1>4, <1>5 DEF Claims
<1>6. \A p \in Requests : req'[p].pc \notin RestorePhase
  BY <1>1, <1>2 DEF ClaimInv, RestorePhase
<1> QED  BY <1>3, <1>5, <1>6 DEF ClaimInv

\* Where nobody restores, a request starts outside, with the row as it is.
LEMMA StartsOutside ==
    ASSUME TypeInv, NEW q \in Requests, Starting(q)
    PROVE  /\ UNCHANGED <<fence, versions, parted>> /\ req[q].pc = "idle"
           /\ req'[q].pc \notin Claiming \cup Undoing
           /\ "restore" \notin Kinds => req'[q].pc \notin RestorePhase
<1>1. req \in [Requests -> Request]
  BY TypeParts DEF RequestsOK
<1>2. ASSUME NEW pc \in {"insert", "construct", "publish", "retry", "fetchRows", "listed"},
             NEW r, NEW ver, NEW orig, Start(q, pc, r, ver, orig)
      PROVE  req'[q].pc \notin Claiming \cup Undoing \cup RestorePhase
  BY <1>1, <1>2 DEF Start, Claiming, Undoing, RestorePhase
<1>3. UNCHANGED <<fence, versions, parted>> /\ req[q].pc = "idle"
  BY DEF Starting, CreateRead, UpgradeLoad, UpgradeComponentLoad, RestoreLoad, RetryLoad,
     Poll, List, Start, failures
<1>4. ASSUME NEW r \in RecordIds, RestoreLoad(q, r)
      PROVE  req'[q].pc \notin Claiming \cup Undoing
  BY <1>1, <1>4 DEF RestoreLoad, Start, Claiming, Undoing
<1> QED
  BY <1>2, <1>3, <1>4 DEF Starting, CreateRead, UpgradeLoad, UpgradeComponentLoad,
     RetryLoad, Poll, List

LEMMA ClaimNext == TypeInv /\ ClaimInv /\ [Next]_vars => ClaimInv'
<1> SUFFICES ASSUME TypeInv, ClaimInv, [Next]_vars PROVE ClaimInv'
  OBVIOUS
<1> USE DeadlineStays
<1>1. ASSUME NEW q \in Requests, Starting(q) PROVE ClaimInv'
  BY <1>1, OthersStay, StartsOutside, ClaimStep DEF Guarded
<1>2. ASSUME NEW q \in Requests, Continuing(q) PROVE ClaimInv'
  <2>1. CASE Publish(q) \/ PublishUnconfirmed(q)
    BY <2>1, ClaimPublishes
  <2>2. CASE Restoring(q)
    <3>1. ~Guarded
      BY <2>2 DEF ClaimInv, RestorePhase, Restoring, RestoreConstruct, RestoreCancel,
         RestoreSync, RestoreSyncFails, RestoreSave, RestoreSaveFails, RestoreRecord,
         RestoreRecordFails
    <3> QED  BY <3>1 DEF ClaimInv, Guarded
  <2>3. CASE ~Publish(q) /\ ~PublishUnconfirmed(q) /\ ~Restoring(q)
    BY <1>2, <2>3, OthersStay, QuietUpgrades, QuietRest, ClaimStep DEF Continuing
  <2> QED  BY <2>1, <2>2, <2>3
<1>3. ASSUME NEW q \in Requests, Crash(q) PROVE ClaimInv'
  BY <1>3, OthersStay, QuietRest, ClaimStep
<1>4. ASSUME UNCHANGED req, (\A q \in Requests : ~Claims(q)) \/ UNCHANGED fence
      PROVE  ClaimInv'
  BY <1>4 DEF ClaimInv, Claims, Guarded
<1>5. CASE SnapshotWorker
  <2>1. fence.status = "pending" /\ req' = req /\ UNCHANGED parted
    BY <1>5 DEF SnapshotWorker, Fence!Settle, failures
  <2>2. CASE "deadline" \notin parted
    <3>1. Guarded => \A q \in Requests : ~Claims(q)
      BY <2>1, <2>2 DEF ClaimInv
    <3> QED  BY <2>1, <3>1 DEF ClaimInv, Claims, Guarded
  <2>3. CASE "deadline" \in parted
    BY <2>1, <2>3 DEF ClaimInv, Guarded
  <2> QED  BY <2>2, <2>3
<1>6. CASE FenceExpires
  <2>1. req' = req /\ ((\A q \in Requests : ~Claims(q)) \/ "deadline" \in parted')
    BY <1>6 DEF FenceExpires, Claims
  <2> QED  BY <2>1 DEF ClaimInv, Claims, Guarded
<1> QED
  BY <1>1, <1>2, <1>3, <1>4, <1>5, <1>6 DEF Next, EventEnds, vars

LEMMA ClaimInit == Init => ClaimInv
  BY DEF Init, Idle, ClaimInv, Claims, Claiming, RestorePhase

\* However many upgrades of an application are asked for at once, and wherever one of
\* them fails or dies, one at a time is between its claim of the snapshot row and what
\* ends it (before_upgrade, AppUpgrade.upgrade).  That takes a row, so no vm_run or
\* kubeblocks component, no restore of the application meanwhile, and no upgrade that
\* is still at it when the deadline of the row passes.
THEOREM OneClaimsCorrect == Spec => []OneClaims
<1>1. ClaimInv => OneClaims
  BY DEF ClaimInv, Claims, OneClaims, Guarded
<1> QED
  BY <1>1, ClaimInit, ClaimNext, InitTypes, NextTypes, PTL DEF Spec

\* The region is at the version that is about to be saved, or at the console's,
\* unless some upgrade still has to put it back.
AgreeInv ==
    Guarded /\ parted = {} =>
        /\ \A q \in Requests : req[q].pc = "save" => region = req[q].ver
        /\ (\A q \in Requests : req[q].pc \notin Undoing \cup {"save"}) => region = console

\* Steps away from the two versions.
LEMMA AgreeAway ==
    ASSUME AgreeInv, NEW q \in Requests, \A p \in Requests \ {q} : req'[p] = req[p],
           Guarded /\ parted' = {} => /\ UNCHANGED <<region, console>> /\ parted = {}
                                      /\ req[q].pc \notin Undoing \cup {"save"}
                                      /\ req'[q].pc \notin Undoing \cup {"save"}
    PROVE  AgreeInv'
BY DEF AgreeInv, Guarded

\* A step that leaves the request with something to put back.
LEMMA AgreeOwes ==
    ASSUME AgreeInv, NEW q \in Requests, \A p \in Requests \ {q} : req'[p] = req[p],
           UNCHANGED region, parted' = {} => parted = {}, req'[q].pc \in Undoing
    PROVE  AgreeInv'
BY DEF AgreeInv, Guarded, Undoing

LEMMA AgreeUpgrades ==
    ASSUME TypeInv, ClaimInv, AgreeInv, NEW q \in Requests, Upgrading(q)
    PROVE  AgreeInv'
<1> USE DEF versions, failures
<1>1. req \in [Requests -> Request] /\ Idle.pc = "idle"
  BY TypeParts DEF RequestsOK, Idle
<1>2. \A p \in Requests \ {q} : req'[p] = req[p]
  BY OthersStay DEF Continuing
<1>3. \A p \in Requests \ {q} :
        Guarded /\ parted = {} /\ Claims(q) => req[p].pc # "save"
  BY DEF ClaimInv, Claims, Claiming
<1>4. CASE \/ Construct(q) \/ Publish(q) \/ PublishUnconfirmed(q) \/ PublishRefused(q)
  <2>1. req'[q].pc \in {"publish", "sync", "idle"}
    BY <1>1, <1>4, GotoFields, ConstructFields
    DEF Construct, Publish, PublishUnconfirmed, PublishRefused, Return
  <2>2. UNCHANGED <<region, console, parted>> /\ req[q].pc \in {"construct", "publish"}
    BY <1>4 DEF Construct, Publish, PublishUnconfirmed, Published, PublishRefused
  <2> QED
    BY <1>2, <2>1, <2>2, AgreeAway DEF Undoing
<1>5. CASE SyncNewApp(q)
  <2>1. /\ req'[q].pc = "save" /\ req'[q].ver = req[q].ver /\ UNCHANGED parted
        /\ Claims(q) /\ region' = req[q].ver
    BY <1>5, GotoFields DEF SyncNewApp, Claims, Claiming
  <2> QED
    BY <1>2, <1>3, <2>1 DEF AgreeInv, Guarded
<1>6. CASE SyncNewAppFails(q)
  <2>1. /\ req[q].pc = "sync" /\ req'[q].pc = "cancel" /\ console' = console
        /\ parted' = {} => region' = region /\ parted = {}
    BY <1>6, FailsFields DEF SyncNewAppFails
  <2> QED
    BY <1>2, <2>1, AgreeAway DEF Undoing
<1>7. CASE SaveApp(q)
  <2>1. /\ req[q].pc = "save" /\ req'[q].pc = "deploy" /\ console' = req[q].ver
        /\ UNCHANGED <<region, parted>> /\ Claims(q)
    BY <1>1, <1>7 DEF SaveApp, Request, Claims, Claiming
  <2> QED
    BY <1>2, <1>3, <2>1 DEF AgreeInv, Guarded
<1>8. CASE SaveAppFails(q)
  <2>1. req'[q].pc = "cancelUndo" /\ UNCHANGED <<region, parted>>
    BY <1>8, FailsFields DEF SaveAppFails
  <2> QED
    BY <1>2, <2>1, AgreeOwes DEF Undoing
<1>9. CASE DiskPluginFails(q) \/ UndoFails(q)
  <2>1. parted' # {}
    BY <1>9 DEF DiskPluginFails, UndoFails
  <2> QED
    BY <2>1 DEF AgreeInv
<1>10. CASE Undo(q)
  <2>1. /\ region' = req[q].orig /\ console' = console /\ req'[q].pc = "idle"
        /\ parted' = {} => ~LateUndo(q)
    BY <1>1, <1>10 DEF Undo, Return
  <2>2. parted' = {} => region' = console' /\ \A p \in Requests : req[p].pc # "save"
    BY <2>1 DEF LateUndo
  <2> QED
    BY <1>2, <2>1, <2>2 DEF AgreeInv
<1> QED
  BY <1>4, <1>5, <1>6, <1>7, <1>8, <1>9, <1>10 DEF Upgrading

LEMMA AgreeFailing ==
    ASSUME TypeInv, AgreeInv, NEW q \in Requests, Failing(q)
    PROVE  AgreeInv'
<1>1. \A p \in Requests \ {q} : req'[p] = req[p]
  BY OthersStay DEF Continuing
<1>2. UNCHANGED <<region, console>> /\ (parted' = {} => parted = {})
  BY DEF Failing, Cancel, RecordFailure, RecordFailureFails, versions, failures
<1>3. ASSUME Return(q) PROVE req'[q].pc = "idle"
  BY <1>3, TypeParts DEF Return, RequestsOK, Idle
<1>4. CASE req[q].pc \in {"cancel", "fail"}
  <2>1. req'[q].pc \in {"fail", "idle"}
    BY <1>3, <1>4, GotoFields DEF Failing, Cancel, RecordFailure, RecordFailureFails
  <2> QED
    BY <1>1, <1>2, <1>4, <2>1, AgreeAway DEF Undoing
<1>5. CASE req[q].pc \in {"cancelUndo", "failUndo"}
  <2>1. req'[q].pc \in Undoing \/ parted' # {}
    BY <1>5, GotoFields
    DEF Failing, Cancel, RecordFailure, RecordFailureFails, Undoing
  <2>2. CASE parted' # {}
    BY <2>2 DEF AgreeInv
  <2> QED
    BY <1>1, <1>2, <2>1, <2>2, AgreeOwes
<1> QED
  BY <1>4, <1>5 DEF Failing, Cancel, RecordFailure, RecordFailureFails

LEMMA AgreeNext == TypeInv /\ ClaimInv /\ AgreeInv /\ [Next]_vars => AgreeInv'
<1> SUFFICES ASSUME TypeInv, ClaimInv, AgreeInv, [Next]_vars PROVE AgreeInv'
  OBVIOUS
<1> USE DEF versions, failures
<1>1. ASSUME NEW q \in Requests, Starting(q) PROVE AgreeInv'
  BY <1>1, OthersStay, StartsOutside, AgreeAway DEF Claiming, Undoing
<1>2. ASSUME NEW q \in Requests, CreateInsert(q) PROVE AgreeInv'
  <2>1. /\ UNCHANGED <<region, console, parted>> /\ req[q].pc = "insert"
        /\ req'[q].pc = "idle"
    BY <1>2, TypeParts DEF CreateInsert, Return, RequestsOK, Idle
  <2> QED
    BY <1>2, <2>1, OthersStay, AgreeAway DEF Continuing, Undoing
<1>3. ASSUME NEW q \in Requests, Restoring(q) PROVE AgreeInv'
  <2>1. ~Guarded
    BY <1>3 DEF ClaimInv, RestorePhase, Restoring, RestoreConstruct, RestoreCancel,
       RestoreSync, RestoreSyncFails, RestoreSave, RestoreSaveFails, RestoreRecord,
       RestoreRecordFails
  <2> QED
    BY <2>1 DEF AgreeInv, Guarded
<1>4. ASSUME NEW q \in Requests, Deploying(q) \/ Syncing(q) PROVE AgreeInv'
  BY <1>4, OthersStay, RestPhases, AgreeAway DEF Continuing, Undoing
<1>5. ASSUME NEW q \in Requests, Crash(q) PROVE AgreeInv'
  <2>1. /\ UNCHANGED <<region, console>> /\ req'[q].pc = "idle"
        /\ parted' = {} => parted = {} /\ req[q].pc \notin Undoing \cup {"save"}
    BY <1>5, TypeParts DEF Crash, Return, RequestsOK, Idle, Undoing
  <2> QED
    BY <1>5, <2>1, OthersStay, AgreeAway DEF Undoing
<1>6. ASSUME UNCHANGED <<req, region, console>>, parted' = {} => parted = {}
      PROVE  AgreeInv'
  BY <1>6 DEF AgreeInv, Guarded
<1>7. CASE FenceExpires
  <2>1. UNCHANGED <<req, region, console>> /\ (parted' = {} => parted = {})
    BY <1>7 DEF FenceExpires
  <2> QED
    BY <1>6, <2>1
<1> QED
  BY <1>1, <1>2, <1>3, <1>4, <1>5, <1>6, <1>7, AgreeUpgrades, AgreeFailing
  DEF Next, Continuing, EventEnds, SnapshotWorker, vars

LEMMA AgreeInit == Init => AgreeInv
BY DEF Init, AgreeInv, Idle, Undoing

\* However upgrades of an application overlap, when they are through the region runs
\* what the console shows, unless one of the failures that Converged names has parted
\* the two - among them a rollback() that comes when the application has gone on, and
\* a deadline that passed under an upgrade.  The claim of before_upgrade is what keeps
\* their calls to the region and their commits in pairs, so this takes an application
\* that has a snapshot row and that nobody restores.
THEOREM ConvergedWhenClaimed ==
    ASSUME FenceSupported, "restore" \notin Kinds
    PROVE  Spec => []Converged
<1>1. AgreeInv => Converged
  BY DEF AgreeInv, Converged, AllIdle, Guarded, Undoing
<1> QED
  BY <1>1, ClaimInit, ClaimNext, AgreeInit, AgreeNext, InitTypes, NextTypes, PTL DEF Spec
=============================================================================
