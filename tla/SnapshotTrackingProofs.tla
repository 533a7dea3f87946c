------------------------ MODULE SnapshotTrackingProofs ------------------------
(***************************************************************************)
(* The transactions of SnapshotTracking, for any number of components,     *)
(* requests, workers and deployments and any failures: each of them changes*)
(* the row as if it had happened at once, and no deployment is behind two  *)
(* automatic snapshots or behind one although it failed.                   *)
(***************************************************************************)
EXTENDS SnapshotTracking, TLAPS

\* Phases in which a request carries events that are not registered yet.
Carrying == {"register", "batch", "batchRegister", "registerUpgrade"}

\* Transactions that others must not write under on MySQL, and on both.
Locking == {"claim", "claimed", "read", "seen"}

HoldsLock(p) ==
    \/ pc[p] = "rollback"
    \/ pc[p] = "batch" /\ held[p] # NoEvents
    \/ pc[p] \in Locking /\ database = "mysql"

LockInv == \A p \in Processes : HoldsLock(p) => lock = p

\* What a transaction has read is what the row still says, as long as it may
\* write: it is the lock of MySQL, and the conflict of SQLite, that see to it.
ReadsCurrent(p) ==
    /\ pc[p] = "seen" =>
          /\ row.status = "pending" /\ held[p] = row.tracked
          /\ Snapshot!Succeeded
    /\ pc[p] = "claimed" =>
          /\ Snapshot!MayDispatch \/ late
          /\ \/ held[p] = NoEvents
             \/ held[p] = row.tracked /\ Snapshot!Succeeded

CurrentInv ==
    \A p \in Processes : database = "mysql" \/ p \in fresh => ReadsCurrent(p)

\* An event is in one place: with a request that has not registered it, in the
\* row, or behind a snapshot, and behind one only.
Behind == {e \in EventIds : covered[e] > 0}

Carries(p) == IF pc[p] \in Carrying THEN EventsOf(held[p]) ELSE {}

HomeInv ==
    /\ \A e \in EventIds : covered[e] <= 1
    /\ Snapshot!Tracked \cap Behind = {}
    /\ \A p \in Processes :
          /\ Carries(p) \cap Behind = {}
          /\ Carries(p) \cap Snapshot!Tracked = {}
          /\ \A q \in Processes : p # q => Carries(p) \cap Carries(q) = {}

\* Events come from the region, and those behind a snapshot have succeeded.
IssuedInv ==
    /\ \A e \in Snapshot!Tracked : outcome[e] # "none"
    /\ \A p \in Processes : \A e \in Carries(p) : outcome[e] # "none"
    /\ CoveredEarned

-----------------------------------------------------------------------------
(* Types                                                                   *)

LEMMA GotoTypes ==
    ASSUME TypeOK, NEW p \in Processes, NEW phase \in RequestPhase \cup WorkerPhase,
           NEW events \in Snapshot!EventMap, Goto(p, phase, events)
    PROVE  /\ pc' \in [Processes -> RequestPhase \cup WorkerPhase]
           /\ held' \in [Processes -> Snapshot!EventMap]
BY DEF TypeOK, Goto

LEMMA NoEventsType == NoEvents \in Snapshot!EventMap
BY DEF NoEvents, Snapshot!NoEvents, Snapshot!EventMap

LEMMA DoneTypes ==
    ASSUME TypeOK, NEW p \in Processes, Done(p)
    PROVE  /\ pc' \in [Processes -> RequestPhase \cup WorkerPhase]
           /\ held' \in [Processes -> Snapshot!EventMap]
BY GotoTypes, NoEventsType DEF Done, RequestPhase

LEMMA AcceptTypes ==
    ASSUME TypeOK, NEW events, Accept(events)
    PROVE  outcome' \in [EventIds -> {"none", "started", "success", "failure"}]
BY DEF TypeOK, Accept

LEMMA LeaveTypes ==
    ASSUME TypeOK, NEW p \in Processes, Leave(p)
    PROVE  lock' \in Processes \cup {None} /\ fresh' \subseteq Processes
BY DEF TypeOK, Leave

LEMMA EndTypes ==
    ASSUME TypeOK, NEW p \in Processes, End(p)
    PROVE  late' \in BOOLEAN /\ lock' \in Processes \cup {None} /\ fresh' \subseteq Processes
BY DEF TypeOK, End, Leave, Commit

LEMMA TrackTypes ==
    ASSUME TypeOK, NEW events \in Snapshot!EventMap, NEW upgrade \in BOOLEAN,
           Snapshot!Track(events, upgrade)
    PROVE  row' \in Snapshot!Row
<1>1. Snapshot!Merged(events) \in Snapshot!EventMap
  BY DEF TypeOK, Snapshot!Row, Snapshot!Merged, Snapshot!EventMap
<1>2. Snapshot!NoEvents \in Snapshot!EventMap
  BY NoEventsType DEF NoEvents
<1>3. row \in Snapshot!Row
  BY DEF TypeOK
<1>4. Snapshot!Cancel => row' \in Snapshot!Row
  BY <1>2, <1>3 DEF Snapshot!Cancel, Snapshot!Finish, Snapshot!Row, Snapshot!SnapshotStatus
<1> QED
  BY <1>1, <1>3, <1>4 DEF Snapshot!Track, Snapshot!Row, Snapshot!SnapshotStatus

LEMMA FinishTypes ==
    ASSUME TypeOK, NEW status \in Snapshot!SnapshotStatus, Snapshot!Finish(status)
    PROVE  row' \in Snapshot!Row
BY NoEventsType DEF TypeOK, Snapshot!Finish, Snapshot!Row, NoEvents

LEMMA CancelTypes ==
    ASSUME TypeOK, Snapshot!Cancel
    PROVE  row' \in Snapshot!Row
BY FinishTypes DEF TypeOK, Snapshot!Cancel, Snapshot!SnapshotStatus

LEMMA CoverTypes ==
    ASSUME TypeOK, NEW events, Cover(events)
    PROVE  covered' \in [EventIds -> Nat]
BY DEF TypeOK, Cover

LEMMA InitTypes == Init => TypeOK
<1>1. Snapshot!NoRow \in Snapshot!Row
  BY NoEventsType DEF NoEvents, Snapshot!NoRow, Snapshot!Row, Snapshot!SnapshotStatus
<1>2. 0 \in 0 .. MaxFaults
  BY TrackingAssumption
<1>3. Init => held \in [Processes -> Snapshot!EventMap]
  BY NoEventsType DEF Init
<1>4. Init => pc \in [Processes -> RequestPhase \cup WorkerPhase]
  BY DEF Init, RequestPhase
<1>5. Init => covered \in [EventIds -> Nat]
  BY DEF Init
<1> QED
  BY <1>1, <1>2, <1>3, <1>4, <1>5 DEF Init, TypeOK

\* Two lemmas for the steps of a request and of a worker, one for the rest.
LEMMA StartTypes ==
    ASSUME TypeOK, NEW p \in Requests, Start(p)
    PROVE  TypeOK'
<1> p \in Processes
  BY DEF Processes
<1> USE GotoTypes, DoneTypes, AcceptTypes, EndTypes, NoEventsType
<1>1. CASE Deploy(p)
  BY <1>1 DEF Deploy, TypeOK, tables, transactions, RequestPhase
<1>2. CASE BatchBegin(p)
  BY <1>2 DEF BatchBegin, TypeOK, tables, RequestPhase
<1>3. CASE BatchDeploy(p)
  <2>1. PICK c \in Components, e \in EventIds :
           /\ Accept([NoEvents EXCEPT ![c] = e])
           /\ Goto(p, "batchRegister", [held[p] EXCEPT ![c] = e])
    BY <1>3 DEF BatchDeploy
  <2>2. [held[p] EXCEPT ![c] = e] \in Snapshot!EventMap
    BY DEF TypeOK, Snapshot!EventMap
  <2> QED
    BY <1>3, <2>1, <2>2 DEF BatchDeploy, TypeOK, tables, transactions, RequestPhase
<1>4. CASE ClaimBegin(p)
  BY <1>4 DEF ClaimBegin, Begin, TypeOK, tables, RequestPhase
<1>5. CASE Restore(p)
  BY <1>5, CancelTypes DEF Restore, TypeOK, RequestPhase
<1>6. CASE RollbackBegin(p)
  BY <1>6 DEF RollbackBegin, TypeOK, tables, RequestPhase
<1>7. CASE UpgradeFails(p)
  <2>1. outcome' \in [EventIds -> {"none", "started", "success", "failure"}]
    BY <1>7 DEF UpgradeFails
  <2>2. faults' \in 0 .. MaxFaults
    BY <1>7, TrackingAssumption DEF UpgradeFails, TypeOK
  <2> QED
    BY <1>7, <2>1, <2>2 DEF UpgradeFails, TypeOK, tables, transactions, RequestPhase
<1> QED
  BY <1>1, <1>2, <1>3, <1>4, <1>5, <1>6, <1>7 DEF Start

LEMMA ProceedTypes ==
    ASSUME TypeOK, NEW p \in Requests, Proceed(p)
    PROVE  TypeOK'
<1> p \in Processes /\ held[p] \in Snapshot!EventMap
  BY DEF Processes, TypeOK
<1> USE GotoTypes, DoneTypes, AcceptTypes, LeaveTypes, EndTypes, NoEventsType, TrackTypes
<1>1. CASE Register(p)
  BY <1>1 DEF Register, TypeOK
<1>2. CASE BatchRegister(p)
  BY <1>2 DEF BatchRegister, TypeOK, tables, RequestPhase
<1>3. CASE BatchCommit(p)
  BY <1>3 DEF BatchCommit, TypeOK
<1>4. CASE ClaimRefused(p)
  BY <1>4 DEF ClaimRefused, TypeOK, tables
<1>5. CASE ClaimGranted(p)
  <2>1. row.tracked \in Snapshot!EventMap
    BY DEF TypeOK, Snapshot!Row
  <2> QED
    BY <1>5, <2>1 DEF ClaimGranted, TypeOK, tables, transactions, RequestPhase
<1>6. CASE Claim(p)
  <2>1. row' \in Snapshot!Row
    BY <1>6 DEF Claim, Snapshot!Row, Snapshot!SnapshotStatus
  <2> QED
    BY <1>6, <2>1, CoverTypes DEF Claim, Commit, TypeOK, RequestPhase
<1>7. CASE DeployVersion(p)
  BY <1>7 DEF DeployVersion, TypeOK, tables, transactions, RequestPhase
<1>8. CASE RegisterUpgrade(p)
  BY <1>8 DEF RegisterUpgrade, TypeOK
<1>9. CASE CancelClaim(p)
  BY <1>9, CancelTypes DEF CancelClaim, TypeOK
<1>10. CASE RollbackCommit(p)
  BY <1>10, CancelTypes DEF RollbackCommit, TypeOK
<1>11. CASE Busy(p)
  BY <1>11 DEF Busy, TypeOK, tables
<1> QED
  BY <1>1, <1>2, <1>3, <1>4, <1>5, <1>6, <1>7, <1>8, <1>9, <1>10, <1>11 DEF Proceed

LEMMA WorkTypes ==
    ASSUME TypeOK, NEW w \in Workers, Work(w) \/ Visit(w)
    PROVE  TypeOK'
<1> w \in Processes /\ held[w] \in Snapshot!EventMap
  BY DEF Processes, TypeOK
<1> USE GotoTypes, DoneTypes, LeaveTypes, EndTypes, NoEventsType, FinishTypes
    DEF Snapshot!SnapshotStatus
<1>1. CASE List(w)
  BY <1>1 DEF List, TypeOK, tables, transactions, WorkerPhase
<1>2. CASE NothingToDo(w)
  BY <1>2 DEF NothingToDo, TypeOK, tables
<1>3. CASE Expire(w)
  BY <1>3 DEF Expire, Snapshot!Expire, TypeOK
<1>4. CASE SettleFailed(w)
  BY <1>4 DEF SettleFailed, TypeOK
<1>5. CASE ReadEvents(w)
  <2>1. row.tracked \in Snapshot!EventMap
    BY DEF TypeOK, Snapshot!Row
  <2> QED
    BY <1>5, <2>1 DEF ReadEvents, TypeOK, tables, transactions, WorkerPhase
<1>6. CASE TakeSnapshot(w)
  BY <1>6, CoverTypes DEF TakeSnapshot, TypeOK
<1>7. CASE Busy(w)
  BY <1>7 DEF Busy, TypeOK, tables
<1>8. CASE Visit(w)
  BY <1>8 DEF Visit, Begin, TypeOK, tables, WorkerPhase
<1> QED
  BY <1>1, <1>2, <1>3, <1>4, <1>5, <1>6, <1>7, <1>8 DEF Work

LEMMA NextTypes == TypeOK /\ [Next]_vars => TypeOK'
<1> SUFFICES ASSUME TypeOK, [Next]_vars PROVE TypeOK'
  OBVIOUS
<1>1. ASSUME NEW p \in Processes, Fail(p) PROVE TypeOK'
  BY <1>1, DoneTypes, LeaveTypes, TrackingAssumption DEF Fail, TypeOK, tables
<1>2. CASE DeadlinePasses
  BY <1>2 DEF DeadlinePasses, TypeOK, transactions, process
<1>3. CASE EventEnds
  BY <1>3 DEF EventEnds, TypeOK, tables, transactions, process
<1>4. CASE UNCHANGED vars
  BY <1>4 DEF vars, TypeOK, tables, transactions, process
<1> QED
  BY <1>1, <1>2, <1>3, <1>4, StartTypes, ProceedTypes, WorkTypes DEF Next

\* The row, the events, the lock and every process keep to their types.
THEOREM TypeCorrect == Spec => []TypeOK
<1> QED
  BY InitTypes, NextTypes, PTL DEF Spec

-----------------------------------------------------------------------------
(* The lock, and what the transactions have read                           *)

Ended == {"success", "failure"}

\* What any step of a process does to the others: it takes no lock from them,
\* and when it writes it outdates what they have read.
Shape(p) ==
    /\ database' = database
    /\ \A q \in Processes \ {p} : pc'[q] = pc[q] /\ held'[q] = held[q]
    /\ lock' = lock \/ lock \in {None, p}
    /\ \/ row' = row /\ late' = late /\ fresh' \subseteq fresh \cup {p}
       \/ fresh' = {} /\ lock \in {None, p}
    /\ HoldsLock(p)' => lock' = p
    /\ database = "mysql" \/ p \in fresh' => ReadsCurrent(p)'
    /\ \A e \in EventIds : outcome[e] \in Ended => outcome'[e] = outcome[e]

LEMMA GotoPhase ==
    ASSUME TypeOK, NEW p \in Processes, NEW phase, NEW events, Goto(p, phase, events)
    PROVE  /\ pc'[p] = phase /\ held'[p] = events
           /\ \A q \in Processes \ {p} : pc'[q] = pc[q] /\ held'[q] = held[q]
BY DEF TypeOK, Goto

\* A process in one of the other phases holds nothing and has read nothing.
LEMMA FreePhase ==
    ASSUME NEW p \in Processes,
           pc'[p] \notin Locking \cup {"batch", "rollback"}
    PROVE  ~HoldsLock(p)' /\ ReadsCurrent(p)'
BY DEF HoldsLock, ReadsCurrent, Locking

LEMMA AcceptEnded ==
    ASSUME TypeOK, NEW events, Accept(events)
    PROVE  \A e \in EventIds : outcome[e] \in Ended => outcome'[e] = outcome[e]
BY DEF Accept, TypeOK, Ended

LEMMA EndShape ==
    ASSUME NEW p, End(p), row' # row => lock \in {None, p}
    PROVE  /\ lock' = lock \/ lock \in {None, p}
           /\ \/ row' = row /\ late' = late /\ fresh' \subseteq fresh \cup {p}
              \/ fresh' = {} /\ lock \in {None, p}
BY DEF End, Leave, Commit

LEMMA StartShape ==
    ASSUME TypeOK, LockInv, NEW p \in Requests, Start(p)
    PROVE  Shape(p)
<1> p \in Processes
  BY DEF Processes
<1> USE GotoPhase, FreePhase DEF Locking
<1>1. CASE Deploy(p)
  BY <1>1, AcceptEnded DEF Deploy, Shape, tables, transactions
<1>2. CASE BatchBegin(p)
  <2>1. /\ pc'[p] = "batch" /\ held'[p] = NoEvents
        /\ \A q \in Processes \ {p} : pc'[q] = pc[q] /\ held'[q] = held[q]
    BY <1>2 DEF BatchBegin
  <2>2. ~HoldsLock(p)' /\ ReadsCurrent(p)'
    BY <2>1 DEF HoldsLock, ReadsCurrent, NoEvents, Snapshot!NoEvents
  <2> QED
    BY <1>2, <2>1, <2>2 DEF BatchBegin, Shape, tables
<1>3. CASE BatchDeploy(p)
  BY <1>3, AcceptEnded DEF BatchDeploy, Shape, tables, transactions
<1>4. CASE ClaimBegin(p)
  <2>1. /\ pc'[p] = "claim"
        /\ \A q \in Processes \ {p} : pc'[q] = pc[q] /\ held'[q] = held[q]
    BY <1>4 DEF ClaimBegin
  <2>2. ReadsCurrent(p)'
    BY <2>1 DEF ReadsCurrent
  <2>3. HoldsLock(p)' => database' = "mysql"
    BY <2>1 DEF HoldsLock
  <2> QED
    BY <1>4, <2>1, <2>2, <2>3 DEF ClaimBegin, Begin, Shape, tables
<1>5. CASE Restore(p)
  BY <1>5, EndShape DEF Restore, Shape
<1>6. CASE RollbackBegin(p)
  <2>1. /\ pc'[p] = "rollback"
        /\ \A q \in Processes \ {p} : pc'[q] = pc[q] /\ held'[q] = held[q]
    BY <1>6 DEF RollbackBegin
  <2>2. ReadsCurrent(p)'
    BY <2>1 DEF ReadsCurrent
  <2> QED
    BY <1>6, <2>1, <2>2 DEF RollbackBegin, Shape, tables
<1>7. CASE UpgradeFails(p)
  BY <1>7, AcceptEnded DEF UpgradeFails, Shape, tables, transactions
<1> QED
  BY <1>1, <1>2, <1>3, <1>4, <1>5, <1>6, <1>7 DEF Start

\* A claim and a visit may write only under the lock of MySQL.
LEMMA ReaderLocks ==
    ASSUME LockInv, NEW p \in Processes, pc[p] \in Locking, database = "mysql"
    PROVE  lock = p
BY DEF LockInv, HoldsLock

LEMMA LeaveShape ==
    ASSUME NEW p \in Processes, Leave(p)
    PROVE  /\ lock' = lock \/ lock \in {None, p}
           /\ fresh' \subseteq fresh \cup {p}
BY DEF Leave

LEMMA ProceedShape ==
    ASSUME TypeOK, LockInv, NEW p \in Requests, Proceed(p)
    PROVE  Shape(p)
<1> p \in Processes
  BY DEF Processes
<1> USE GotoPhase, FreePhase, EndShape, LeaveShape DEF Locking, Done
<1>1. CASE Register(p)
  BY <1>1 DEF Register, Shape
<1>2. CASE BatchRegister(p)
  <2>1. /\ pc'[p] = "batch" /\ lock' = p
        /\ \A q \in Processes \ {p} : pc'[q] = pc[q] /\ held'[q] = held[q]
    BY <1>2 DEF BatchRegister
  <2>2. ReadsCurrent(p)'
    BY <2>1 DEF ReadsCurrent
  <2> QED
    BY <1>2, <2>1, <2>2 DEF BatchRegister, MayWrite, Shape, tables
<1>3. CASE BatchCommit(p)
  <2>1. held[p] = NoEvents => row' = row
    BY <1>3 DEF BatchCommit, Snapshot!Track, NoEvents
  <2>2. row' # row => lock = p
    BY <1>3, <2>1 DEF BatchCommit, LockInv, HoldsLock
  <2> QED
    BY <1>3, <2>2 DEF BatchCommit, Shape
<1>4. CASE ClaimRefused(p)
  BY <1>4 DEF ClaimRefused, Shape, tables
<1>5. CASE ClaimGranted(p)
  <2>1. /\ pc[p] = "claim" /\ pc'[p] = "claimed"
        /\ held'[p] = IF row.status = "pending" /\ ~late /\ ~Snapshot!Failed
                      THEN row.tracked ELSE NoEvents
        /\ \A q \in Processes \ {p} : pc'[q] = pc[q] /\ held'[q] = held[q]
    BY <1>5 DEF ClaimGranted
  <2>2. UNCHANGED <<row, late, outcome, database, lock, fresh>>
    BY <1>5 DEF ClaimGranted, tables, transactions
  <2>3. HoldsLock(p)' => lock' = p
    BY <2>1, <2>2, ReaderLocks DEF HoldsLock
  <2>4. Snapshot!MayDispatch \/ late
    BY <1>5 DEF ClaimGranted
  <2>5. row.status = "pending" /\ ~late /\ ~Snapshot!Failed => Snapshot!Succeeded
    BY <2>4 DEF Snapshot!MayDispatch, Snapshot!Enabled
  <2>6. ReadsCurrent(p)'
    BY <2>1, <2>2, <2>4, <2>5
    DEF ReadsCurrent, Snapshot!MayDispatch, Snapshot!Enabled, Snapshot!Failed,
        Snapshot!Succeeded, Snapshot!Tracked
  <2> QED
    BY <2>1, <2>2, <2>3, <2>6 DEF Shape
<1>6. CASE Claim(p)
  BY <1>6 DEF Claim, Commit, MayWrite, Shape
<1>7. CASE DeployVersion(p)
  BY <1>7, AcceptEnded DEF DeployVersion, Shape, tables, transactions
<1>8. CASE RegisterUpgrade(p)
  BY <1>8 DEF RegisterUpgrade, Shape
<1>9. CASE CancelClaim(p)
  BY <1>9 DEF CancelClaim, Shape
<1>10. CASE RollbackCommit(p)
  <2>1. lock = p
    BY <1>10 DEF RollbackCommit, LockInv, HoldsLock
  <2> QED
    BY <1>10, <2>1 DEF RollbackCommit, Shape
<1>11. CASE Busy(p)
  BY <1>11 DEF Busy, Shape, tables
<1> QED
  BY <1>1, <1>2, <1>3, <1>4, <1>5, <1>6, <1>7, <1>8, <1>9, <1>10, <1>11 DEF Proceed

LEMMA WorkShape ==
    ASSUME TypeOK, LockInv, NEW w \in Workers, Work(w) \/ Visit(w)
    PROVE  Shape(w)
<1> w \in Processes
  BY DEF Processes
<1> USE GotoPhase, FreePhase, EndShape, LeaveShape DEF Locking, Done
<1>1. CASE List(w)
  BY <1>1 DEF List, Shape, tables, transactions
<1>2. CASE NothingToDo(w)
  BY <1>2 DEF NothingToDo, Shape, tables
<1>3. CASE Expire(w)
  <2>1. /\ UNCHANGED <<database, outcome>>
        /\ lock \in {None, w} /\ End(w) /\ Goto(w, "idle", NoEvents)
    BY <1>3 DEF Expire, MayWrite
  <2> QED
    BY <2>1 DEF Shape
<1>4. CASE SettleFailed(w)
  BY <1>4 DEF SettleFailed, MayWrite, Shape
<1>5. CASE ReadEvents(w)
  <2>1. /\ pc[w] = "read" /\ pc'[w] = "seen" /\ held'[w] = row.tracked
        /\ \A q \in Processes \ {w} : pc'[q] = pc[q] /\ held'[q] = held[q]
    BY <1>5 DEF ReadEvents
  <2>2. UNCHANGED <<row, late, outcome, database, lock, fresh>>
    BY <1>5 DEF ReadEvents, tables, transactions
  <2>3. HoldsLock(w)' => lock' = w
    BY <2>1, <2>2, ReaderLocks DEF HoldsLock
  <2>4. ReadsCurrent(w)'
    BY <1>5, <2>1, <2>2 DEF ReadEvents, ReadsCurrent, Snapshot!Succeeded, Snapshot!Tracked
  <2> QED
    BY <2>1, <2>2, <2>3, <2>4 DEF Shape
<1>6. CASE TakeSnapshot(w)
  BY <1>6 DEF TakeSnapshot, MayWrite, Shape
<1>7. CASE Busy(w)
  BY <1>7 DEF Busy, Shape, tables
<1>8. CASE Visit(w)
  <2>1. /\ pc'[w] = "read"
        /\ \A q \in Processes \ {w} : pc'[q] = pc[q] /\ held'[q] = held[q]
    BY <1>8 DEF Visit
  <2>2. ReadsCurrent(w)'
    BY <2>1 DEF ReadsCurrent
  <2>3. HoldsLock(w)' => database' = "mysql"
    BY <2>1 DEF HoldsLock
  <2> QED
    BY <1>8, <2>1, <2>2, <2>3 DEF Visit, Begin, Shape, tables
<1> QED
  BY <1>1, <1>2, <1>3, <1>4, <1>5, <1>6, <1>7, <1>8 DEF Work

LEMMA FailShape ==
    ASSUME TypeOK, NEW p \in Processes, Fail(p)
    PROVE  Shape(p)
BY GotoPhase, FreePhase, LeaveShape DEF Fail, Done, Shape, tables, Locking

\* What the region does besides, and time: nobody else is concerned.
Aside ==
    /\ UNCHANGED <<row, database, lock, fresh, pc, held, covered>>
    /\ late => late'
    /\ \A e \in EventIds : outcome[e] # "none" => outcome'[e] # "none"
    /\ \A e \in EventIds : outcome[e] \in Ended => outcome'[e] = outcome[e]

LEMMA AsideSteps ==
    ASSUME TypeOK, DeadlinePasses \/ EventEnds \/ UNCHANGED vars
    PROVE  Aside
<1>1. CASE DeadlinePasses
  BY <1>1 DEF DeadlinePasses, Aside, transactions, process
<1>2. CASE EventEnds
  BY <1>2 DEF EventEnds, Aside, TypeOK, Ended, tables, transactions, process
<1>3. CASE UNCHANGED vars
  BY <1>3 DEF vars, Aside, tables, transactions, process
<1> QED
  BY <1>1, <1>2, <1>3

\* Every step is one of a process, or an aside.
LEMMA NextShape ==
    ASSUME TypeOK, LockInv, [Next]_vars
    PROVE  Aside \/ \E p \in Processes : Shape(p)
<1>1. ASSUME NEW p \in Requests, Start(p) \/ Proceed(p) PROVE \E q \in Processes : Shape(q)
  BY <1>1, StartShape, ProceedShape DEF Processes
<1>2. ASSUME NEW w \in Workers, Work(w) \/ Visit(w) PROVE \E q \in Processes : Shape(q)
  BY <1>2, WorkShape DEF Processes
<1>3. ASSUME NEW p \in Processes, Fail(p) PROVE \E q \in Processes : Shape(q)
  BY <1>3, FailShape
<1> QED
  BY <1>1, <1>2, <1>3, AsideSteps DEF Next

\* What the events of the row have come to stays so while the row stays.
LEMMA Settled ==
    ASSUME TypeOK, row' = row,
           \A e \in EventIds : outcome[e] \in Ended => outcome'[e] = outcome[e]
    PROVE  /\ Snapshot!Succeeded => Snapshot!Succeeded'
           /\ Snapshot!Failed => Snapshot!Failed'
<1>1. Snapshot!Tracked \subseteq EventIds
  BY DEF TypeOK, Snapshot!Tracked, Snapshot!Row, Snapshot!EventMap
<1>2. Snapshot!Tracked' = Snapshot!Tracked
  BY DEF Snapshot!Tracked
<1>3. \A e \in Snapshot!Tracked : outcome[e] \in Ended => outcome'[e] = outcome[e]
  BY <1>1
<1>4. \A e \in Snapshot!Tracked : outcome[e] \in {"none", "started", "success", "failure"}
  BY <1>1 DEF TypeOK
<1> QED
  BY <1>2, <1>3, <1>4 DEF Snapshot!Succeeded, Snapshot!Failed, Ended

LEMMA ReadsKept ==
    ASSUME TypeOK, NEW p \in Processes, ReadsCurrent(p),
           row' = row, pc'[p] = pc[p], held'[p] = held[p], late => late',
           \A e \in EventIds : outcome[e] \in Ended => outcome'[e] = outcome[e]
    PROVE  ReadsCurrent(p)'
<1>1. Snapshot!MayDispatch => Snapshot!MayDispatch'
  BY Settled DEF Snapshot!MayDispatch, Snapshot!Enabled
<1> QED
  BY <1>1, Settled DEF ReadsCurrent

LEMMA LockNext ==
    ASSUME TypeOK, LockInv, [Next]_vars
    PROVE  LockInv'
<1>1. CASE Aside
  BY <1>1 DEF Aside, LockInv, HoldsLock
<1>2. ASSUME NEW p \in Processes, Shape(p) PROVE LockInv'
  <2>1. ASSUME NEW q \in Processes \ {p}, HoldsLock(q)' PROVE lock' = q
    <3>1. HoldsLock(q)
      BY <1>2, <2>1 DEF Shape, HoldsLock
    <3>2. lock = q /\ q # None
      BY <3>1, TrackingAssumption DEF LockInv
    <3> QED
      BY <1>2, <3>2 DEF Shape
  <2> QED
    BY <1>2, <2>1 DEF Shape, LockInv
<1> QED
  BY <1>1, <1>2, NextShape

LEMMA CurrentNext ==
    ASSUME TypeOK, LockInv, CurrentInv, [Next]_vars
    PROVE  CurrentInv'
<1>1. CASE Aside
  <2>1. ASSUME NEW p \in Processes, database' = "mysql" \/ p \in fresh'
        PROVE  ReadsCurrent(p)'
    BY <1>1, <2>1, ReadsKept DEF Aside, CurrentInv
  <2> QED
    BY <2>1 DEF CurrentInv
<1>2. ASSUME NEW p \in Processes, Shape(p) PROVE CurrentInv'
  <2>1. ASSUME NEW q \in Processes \ {p}, database' = "mysql" \/ q \in fresh'
        PROVE  ReadsCurrent(q)'
    <3>1. CASE row' = row /\ late' = late /\ fresh' \subseteq fresh \cup {p}
      <4>1. database = "mysql" \/ q \in fresh
        BY <1>2, <2>1, <3>1 DEF Shape
      <4> QED
        BY <1>2, <3>1, <4>1, ReadsKept DEF Shape, CurrentInv
    <3>2. CASE fresh' = {} /\ lock \in {None, p}
      <4>1. database = "mysql" /\ lock # q
        BY <1>2, <2>1, <3>2, TrackingAssumption DEF Shape
      <4>2. pc[q] \notin Locking
        BY <4>1, ReaderLocks
      <4> QED
        BY <1>2, <4>2 DEF Shape, Locking, ReadsCurrent
    <3> QED
      BY <1>2, <3>1, <3>2 DEF Shape
  <2> QED
    BY <1>2, <2>1 DEF Shape, CurrentInv
<1> QED
  BY <1>1, <1>2, NextShape

LEMMA InitLock == Init => LockInv /\ CurrentInv
<1>1. Init => \A p \in Processes : pc[p] = "idle"
  BY DEF Init
<1> QED
  BY <1>1 DEF LockInv, CurrentInv, HoldsLock, ReadsCurrent, Locking

LEMMA LockCorrect == Spec => [](TypeOK /\ LockInv /\ CurrentInv)
<1> DEFINE I == TypeOK /\ LockInv /\ CurrentInv
<1>1. Init => I
  BY InitTypes, InitLock
<1>2. I /\ [Next]_vars => I'
  BY NextTypes, LockNext, CurrentNext
<1> HIDE DEF I
<1>3. Spec => []I
  BY <1>1, <1>2, PTL DEF Spec
<1> QED
  BY <1>3 DEF I

-----------------------------------------------------------------------------
(* Where the events are                                                    *)

Fresh == {e \in EventIds : outcome[e] = "none"}

\* Nothing the region has accepted is forgotten there.
Remembers ==
    \A e \in EventIds : /\ outcome[e] # "none" => outcome'[e] # "none"
                        /\ outcome[e] = "success" => outcome'[e] = "success"

\* A process drops or registers what it carries, is given new events, or covers
\* those of the row.
Moves(p) ==
    \/ /\ covered' = covered
       /\ \/ Carries(p)' = {} /\ Snapshot!Tracked' \subseteq Snapshot!Tracked \cup Carries(p)
          \/ Carries(p)' \subseteq Carries(p) /\ Snapshot!Tracked' \subseteq Snapshot!Tracked
    \/ /\ covered' = covered
       /\ Snapshot!Tracked' = Snapshot!Tracked
       /\ Carries(p)' \subseteq Carries(p) \cup Fresh
       /\ \A e \in Carries(p)' : outcome'[e] # "none"
    \/ /\ \A e \in EventIds : \/ covered'[e] = covered[e]
                              \/ /\ e \in Snapshot!Tracked /\ Snapshot!Succeeded
                                 /\ covered'[e] = covered[e] + 1
       /\ Snapshot!Tracked' = {} /\ Carries(p)' = {}

Ledger(p) ==
    /\ \A q \in Processes \ {p} : Carries(q)' = Carries(q)
    /\ Remembers
    /\ Moves(p)

LEMMA EventSets ==
    ASSUME TypeOK
    PROVE  /\ Snapshot!Tracked \subseteq EventIds
           /\ \A p \in Processes : Carries(p) \subseteq EventIds
           /\ EventsOf(NoEvents) = {}
BY DEF TypeOK, Snapshot!Tracked, Snapshot!Row, Snapshot!EventMap, Carries, EventsOf,
       NoEvents, Snapshot!NoEvents

LEMMA HomeNextLedger ==
    ASSUME TypeOK, TypeOK', HomeInv, IssuedInv, NEW p \in Processes, Ledger(p)
    PROVE  HomeInv' /\ IssuedInv'
<1> DEFINE T == Snapshot!Tracked
<1>1. T \subseteq EventIds /\ \A q \in Processes : Carries(q) \subseteq EventIds
  BY EventSets
<1>2. /\ \A e \in EventIds : covered[e] <= 1
      /\ T \cap Behind = {}
      /\ \A q \in Processes : /\ Carries(q) \cap Behind = {}
                               /\ Carries(q) \cap T = {}
                               /\ \A r \in Processes : q # r => Carries(q) \cap Carries(r) = {}
  BY DEF HomeInv
<1>3. /\ \A e \in T : outcome[e] # "none"
      /\ \A q \in Processes : \A e \in Carries(q) : outcome[e] # "none"
      /\ \A e \in Behind : e \in EventIds /\ outcome[e] = "success"
  BY DEF IssuedInv, CoveredEarned, Behind
<1>4. \A q \in Processes \ {p} : Carries(q)' = Carries(q)
  BY DEF Ledger
<1>5. Remembers
  BY DEF Ledger
<1> HIDE DEF T
<1>6. CASE /\ covered' = covered
           /\ \/ Carries(p)' = {} /\ T' \subseteq T \cup Carries(p)
              \/ Carries(p)' \subseteq Carries(p) /\ T' \subseteq T
  <2>0. Behind' = Behind /\ \A e \in EventIds : covered'[e] <= 1
    BY <1>2, <1>6 DEF Behind
  <2>1. /\ T' \cap Behind' = {}
        /\ \A q \in Processes : /\ Carries(q)' \cap Behind' = {}
                                 /\ Carries(q)' \cap T' = {}
                                 /\ \A r \in Processes : q # r => Carries(q)' \cap Carries(r)' = {}
    BY <1>2, <1>4, <1>6, <2>0
  <2>2. /\ \A e \in T' : outcome'[e] # "none"
        /\ \A q \in Processes : \A e \in Carries(q)' : outcome'[e] # "none"
        /\ \A e \in Behind' : outcome'[e] = "success"
    BY <1>1, <1>3, <1>4, <1>5, <1>6, <2>0 DEF Remembers
  <2> QED
    BY <2>0, <2>1, <2>2 DEF HomeInv, IssuedInv, CoveredEarned, Behind, T
<1>7. CASE /\ covered' = covered /\ T' = T
           /\ Carries(p)' \subseteq Carries(p) \cup Fresh
           /\ \A e \in Carries(p)' : outcome'[e] # "none"
  <2>0. Behind' = Behind /\ \A e \in EventIds : covered'[e] <= 1
    BY <1>2, <1>7 DEF Behind
  <2>1. /\ Fresh \cap Behind = {} /\ Fresh \cap T = {}
        /\ \A q \in Processes : Fresh \cap Carries(q) = {}
    BY <1>3 DEF Fresh
  <2>2. /\ T' \cap Behind' = {}
        /\ \A q \in Processes : /\ Carries(q)' \cap Behind' = {}
                                 /\ Carries(q)' \cap T' = {}
                                 /\ \A r \in Processes : q # r => Carries(q)' \cap Carries(r)' = {}
    BY <1>2, <1>4, <1>7, <2>0, <2>1
  <2>3. /\ \A e \in T' : outcome'[e] # "none"
        /\ \A q \in Processes : \A e \in Carries(q)' : outcome'[e] # "none"
        /\ \A e \in Behind' : outcome'[e] = "success"
    BY <1>1, <1>3, <1>4, <1>5, <1>7, <2>0 DEF Remembers
  <2> QED
    BY <2>0, <2>2, <2>3 DEF HomeInv, IssuedInv, CoveredEarned, Behind, T
<1>8. CASE /\ \A e \in EventIds : \/ covered'[e] = covered[e]
                                  \/ /\ e \in T /\ Snapshot!Succeeded
                                     /\ covered'[e] = covered[e] + 1
           /\ T' = {} /\ Carries(p)' = {}
  <2>0. \A e \in T : covered[e] = 0
    BY <1>1, <1>2 DEF Behind, TypeOK
  <2>1. \A e \in EventIds : covered'[e] <= 1
    BY <1>2, <1>8, <2>0
  <2>2. Behind' \subseteq Behind \cup T
    BY <1>8 DEF Behind
  <2>3. \A e \in Behind' \ Behind : outcome[e] = "success"
    <3>1. \A e \in Behind' \ Behind : e \in T /\ Snapshot!Succeeded
      BY <1>8 DEF Behind
    <3> QED
      BY <3>1 DEF Snapshot!Succeeded, T
  <2>4. /\ T' \cap Behind' = {}
        /\ \A q \in Processes : /\ Carries(q)' \cap Behind' = {}
                                 /\ Carries(q)' \cap T' = {}
                                 /\ \A r \in Processes : q # r => Carries(q)' \cap Carries(r)' = {}
    BY <1>2, <1>4, <1>8, <2>2
  <2>5. /\ \A e \in T' : outcome'[e] # "none"
        /\ \A q \in Processes : \A e \in Carries(q)' : outcome'[e] # "none"
        /\ \A e \in Behind' : outcome'[e] = "success"
    <3>1. \A e \in Behind' : e \in EventIds /\ outcome[e] = "success"
      BY <1>3, <2>3 DEF Behind
    <3> QED
      BY <1>1, <1>3, <1>4, <1>5, <1>8, <3>1 DEF Remembers
  <2> QED
    BY <2>1, <2>4, <2>5 DEF HomeInv, IssuedInv, CoveredEarned, Behind, T
<1> QED
  BY <1>6, <1>7, <1>8 DEF Ledger, Moves, T

LEMMA GotoCarries ==
    ASSUME TypeOK, NEW p \in Processes, NEW phase, NEW events, Goto(p, phase, events)
    PROVE  /\ Carries(p)' = IF phase \in Carrying THEN EventsOf(events) ELSE {}
           /\ \A q \in Processes \ {p} : Carries(q)' = Carries(q)
BY GotoPhase DEF Carries, EventsOf

\* A snapshot counts for what it covers: nothing, or all that the row tracks.
LEMMA CoverLedger ==
    ASSUME TypeOK, NEW events, Cover(events),
           \/ EventsOf(events) = {}
           \/ EventsOf(events) = Snapshot!Tracked /\ Snapshot!Succeeded
    PROVE  \A e \in EventIds : \/ covered'[e] = covered[e]
                               \/ /\ e \in Snapshot!Tracked /\ Snapshot!Succeeded
                                  /\ covered'[e] = covered[e] + 1
BY DEF Cover

LEMMA RowCarries == row' = row => Snapshot!Tracked' = Snapshot!Tracked
BY DEF Snapshot!Tracked

LEMMA TrackTracked ==
    ASSUME TypeOK, NEW events \in Snapshot!EventMap, NEW upgrade \in BOOLEAN,
           Snapshot!Track(events, upgrade)
    PROVE  Snapshot!Tracked' \subseteq Snapshot!Tracked \cup EventsOf(events)
<1>1. CASE row' = row
  BY <1>1, RowCarries
<1>2. CASE row'.tracked = Snapshot!NoEvents
  BY <1>2 DEF Snapshot!NoEvents, Snapshot!Tracked
<1>3. CASE row'.tracked = Snapshot!Merged(events)
  BY <1>3 DEF Snapshot!Merged, Snapshot!Tracked, EventsOf, TypeOK, Snapshot!Row, Snapshot!EventMap
<1> QED
  BY <1>1, <1>2, <1>3 DEF Snapshot!Track, Snapshot!Cancel, Snapshot!Finish

LEMMA FinishTracked ==
    ASSUME NEW status, Snapshot!Finish(status)
    PROVE  /\ Snapshot!Tracked' \subseteq Snapshot!Tracked
           /\ status # "failure" => Snapshot!Tracked' = {}
BY DEF Snapshot!Finish, Snapshot!Tracked, Snapshot!NoEvents

LEMMA CancelTracked == Snapshot!Cancel => Snapshot!Tracked' \subseteq Snapshot!Tracked
BY RowCarries, FinishTracked DEF Snapshot!Cancel

LEMMA AcceptLedger ==
    ASSUME TypeOK, NEW events \in Snapshot!EventMap, Accept(events)
    PROVE  /\ Remembers
           /\ EventsOf(events) \subseteq Fresh
           /\ \A e \in EventsOf(events) : outcome'[e] # "none"
BY DEF Accept, Remembers, Fresh, TypeOK, EventsOf, Snapshot!EventMap

LEMMA SameOutcome == outcome' = outcome => Remembers
BY DEF Remembers

\* The row, its events and what is covered stay as they are.
LEMMA QuietLedger ==
    ASSUME TypeOK, NEW p \in Processes, UNCHANGED <<row, outcome, covered>>,
           \A q \in Processes \ {p} : Carries(q)' = Carries(q),
           Carries(p)' \subseteq Carries(p)
    PROVE  Ledger(p)
BY RowCarries, SameOutcome DEF Ledger, Moves

LEMMA NewLedger ==
    ASSUME TypeOK, NEW p \in Processes, UNCHANGED <<row, covered>>, Remembers,
           \A q \in Processes \ {p} : Carries(q)' = Carries(q),
           NEW new, new \subseteq Fresh, \A e \in new : outcome'[e] # "none",
           Carries(p)' \subseteq Carries(p) \cup new, IssuedInv
    PROVE  Ledger(p)
<1>1. \A e \in Carries(p) : e \in EventIds /\ outcome[e] # "none"
  BY EventSets DEF IssuedInv
<1>2. \A e \in Carries(p)' : outcome'[e] # "none"
  BY <1>1 DEF Remembers
<1> QED
  BY <1>2, RowCarries DEF Ledger, Moves

LEMMA StartLedger ==
    ASSUME TypeOK, IssuedInv, NEW p \in Requests, Start(p)
    PROVE  Ledger(p)
<1> p \in Processes
  BY DEF Processes
<1> USE GotoCarries, EventSets DEF Carrying
<1>1. CASE Deploy(p)
  <2>1. PICK events \in Snapshot!EventMap \ {NoEvents} :
           Accept(events) /\ Goto(p, "register", events)
    BY <1>1 DEF Deploy
  <2> QED
    BY <1>1, <2>1, AcceptLedger, NewLedger DEF Deploy, tables
<1>2. CASE BatchBegin(p)
  BY <1>2, QuietLedger DEF BatchBegin, tables
<1>3. CASE BatchDeploy(p)
  <2>1. PICK c \in Components, e \in EventIds :
           /\ held[p][c] = NoEvent
           /\ Accept([NoEvents EXCEPT ![c] = e])
           /\ Goto(p, "batchRegister", [held[p] EXCEPT ![c] = e])
    BY <1>3 DEF BatchDeploy
  <2>2. [NoEvents EXCEPT ![c] = e] \in Snapshot!EventMap
    BY NoEventsType DEF Snapshot!EventMap
  <2>3. Carries(p)' = EventsOf([held[p] EXCEPT ![c] = e])
    BY <2>1
  <2>4. Carries(p) = EventsOf(held[p])
    BY <1>3 DEF BatchDeploy, Carries
  <2>5. EventsOf([held[p] EXCEPT ![c] = e])
           \subseteq EventsOf(held[p]) \cup EventsOf([NoEvents EXCEPT ![c] = e])
    BY NoEventsType DEF EventsOf, TypeOK, Snapshot!EventMap
  <2> QED
    BY <1>3, <2>1, <2>2, <2>3, <2>4, <2>5, AcceptLedger, NewLedger DEF BatchDeploy, tables
<1>4. CASE ClaimBegin(p)
  BY <1>4, QuietLedger DEF ClaimBegin, tables
<1>5. CASE Restore(p)
  BY <1>5, CancelTracked, SameOutcome DEF Restore, Ledger, Moves
<1>6. CASE RollbackBegin(p)
  BY <1>6, QuietLedger DEF RollbackBegin, tables
<1>7. CASE UpgradeFails(p)
  <2>1. Remembers
    BY <1>7, AcceptLedger DEF UpgradeFails
  <2>2. Carries(p)' = {} /\ \A q \in Processes \ {p} : Carries(q)' = Carries(q)
    BY <1>7 DEF UpgradeFails
  <2> QED
    BY <1>7, <2>1, <2>2, RowCarries DEF UpgradeFails, Ledger, Moves, tables
<1> QED
  BY <1>1, <1>2, <1>3, <1>4, <1>5, <1>6, <1>7 DEF Start

\* An operation of the row that covers nothing, by a process that is done then.
LEMMA DoneLedger ==
    ASSUME TypeOK, NEW p \in Processes, Done(p), UNCHANGED <<outcome, covered>>,
           Snapshot!Tracked' \subseteq Snapshot!Tracked \cup Carries(p)
    PROVE  Ledger(p)
BY GotoCarries, SameOutcome DEF Done, Carrying, Ledger, Moves

LEMMA MayWriteReads ==
    ASSUME LockInv, CurrentInv, NEW p \in Processes, pc[p] \in Locking, MayWrite(p),
           database \in {"sqlite", "mysql"}
    PROVE  ReadsCurrent(p)
BY DEF MayWrite, CurrentInv

LEMMA ProceedLedger ==
    ASSUME TypeOK, LockInv, CurrentInv, IssuedInv, NEW p \in Requests, Proceed(p)
    PROVE  Ledger(p)
<1> p \in Processes /\ held[p] \in Snapshot!EventMap /\ database \in {"sqlite", "mysql"}
  BY DEF Processes, TypeOK
<1> USE GotoCarries, EventSets DEF Carrying
<1>1. CASE Register(p)
  BY <1>1, TrackTracked, DoneLedger DEF Register, Carries
<1>2. CASE BatchRegister(p)
  BY <1>2, QuietLedger DEF BatchRegister, tables, Carries
<1>3. CASE BatchCommit(p)
  BY <1>3, TrackTracked, DoneLedger DEF BatchCommit, Carries
<1>4. CASE ClaimRefused(p)
  BY <1>4, QuietLedger DEF ClaimRefused, Done, tables
<1>5. CASE ClaimGranted(p)
  BY <1>5, QuietLedger DEF ClaimGranted, tables
<1>6. CASE Claim(p)
  <2>1. ReadsCurrent(p) /\ pc[p] = "claimed"
    BY <1>6, MayWriteReads DEF Claim, Locking
  <2>2. held[p] # NoEvents => EventsOf(held[p]) = Snapshot!Tracked /\ Snapshot!Succeeded
    BY <2>1 DEF ReadsCurrent, EventsOf, Snapshot!Tracked
  <2>3. Snapshot!Tracked' = {}
    BY <1>6 DEF Claim, Snapshot!Tracked, NoEvents, Snapshot!NoEvents
  <2>4. Cover(held[p])
    BY <1>6 DEF Claim
  <2> QED
    BY <1>6, <2>2, <2>3, <2>4, CoverLedger, SameOutcome DEF Claim, Ledger, Moves
<1>7. CASE DeployVersion(p)
  <2>1. PICK events \in Snapshot!EventMap : Accept(events) /\ Goto(p, "registerUpgrade", events)
    BY <1>7 DEF DeployVersion
  <2> QED
    BY <1>7, <2>1, AcceptLedger, NewLedger DEF DeployVersion, tables
<1>8. CASE RegisterUpgrade(p)
  BY <1>8, TrackTracked, DoneLedger DEF RegisterUpgrade, Carries
<1>9. CASE CancelClaim(p)
  BY <1>9, CancelTracked, DoneLedger DEF CancelClaim
<1>10. CASE RollbackCommit(p)
  BY <1>10, CancelTracked, DoneLedger DEF RollbackCommit
<1>11. CASE Busy(p)
  BY <1>11, QuietLedger DEF Busy, Done, tables
<1> QED
  BY <1>1, <1>2, <1>3, <1>4, <1>5, <1>6, <1>7, <1>8, <1>9, <1>10, <1>11 DEF Proceed

LEMMA WorkLedger ==
    ASSUME TypeOK, LockInv, CurrentInv, NEW w \in Workers, Work(w) \/ Visit(w)
    PROVE  Ledger(w)
<1> w \in Processes /\ database \in {"sqlite", "mysql"}
  BY DEF Processes, TypeOK
<1> USE GotoCarries, EventSets DEF Carrying
<1>1. CASE List(w)
  BY <1>1, QuietLedger DEF List, tables
<1>2. CASE NothingToDo(w)
  BY <1>2, QuietLedger DEF NothingToDo, Done, tables
<1>3. CASE Expire(w)
  BY <1>3, FinishTracked, DoneLedger DEF Expire, Snapshot!Expire
<1>4. CASE SettleFailed(w)
  BY <1>4, FinishTracked, DoneLedger DEF SettleFailed
<1>5. CASE ReadEvents(w)
  BY <1>5, QuietLedger DEF ReadEvents, tables
<1>6. CASE TakeSnapshot(w)
  <2>1. ReadsCurrent(w) /\ pc[w] = "seen"
    BY <1>6, MayWriteReads DEF TakeSnapshot, Locking
  <2>2. EventsOf(held[w]) = Snapshot!Tracked /\ Snapshot!Succeeded
    BY <2>1 DEF ReadsCurrent, EventsOf, Snapshot!Tracked
  <2>3. Snapshot!Tracked' = {}
    BY <1>6, FinishTracked DEF TakeSnapshot
  <2>4. Cover(held[w])
    BY <1>6 DEF TakeSnapshot
  <2> QED
    BY <1>6, <2>2, <2>3, <2>4, CoverLedger, SameOutcome DEF TakeSnapshot, Done, Ledger, Moves
<1>7. CASE Busy(w)
  BY <1>7, QuietLedger DEF Busy, Done, tables
<1>8. CASE Visit(w)
  BY <1>8, QuietLedger DEF Visit, tables
<1> QED
  BY <1>1, <1>2, <1>3, <1>4, <1>5, <1>6, <1>7, <1>8 DEF Work

LEMMA HomeNext ==
    ASSUME TypeOK, LockInv, CurrentInv, HomeInv, IssuedInv, [Next]_vars
    PROVE  HomeInv' /\ IssuedInv'
<1>1. TypeOK'
  BY NextTypes
<1>2. CASE Aside
  <2>1. /\ Snapshot!Tracked' = Snapshot!Tracked
        /\ \A p \in Processes : Carries(p)' = Carries(p)
    BY <1>2 DEF Aside, Snapshot!Tracked, Carries, EventsOf
  <2>2. HomeInv'
    BY <1>2, <2>1 DEF Aside, HomeInv, Behind
  <2> QED
    BY <1>2, <2>1, <2>2, EventSets DEF Aside, IssuedInv, CoveredEarned, Ended
<1>3. ASSUME NEW p \in Processes, Fail(p) PROVE Ledger(p)
  BY <1>3, GotoCarries, QuietLedger DEF Fail, Done, Carrying, tables
<1>4. ASSUME NEW p \in Requests, Start(p) \/ Proceed(p) PROVE HomeInv' /\ IssuedInv'
  BY <1>1, <1>4, StartLedger, ProceedLedger, HomeNextLedger DEF Processes
<1>5. ASSUME NEW w \in Workers, Work(w) \/ Visit(w) PROVE HomeInv' /\ IssuedInv'
  BY <1>1, <1>5, WorkLedger, HomeNextLedger DEF Processes
<1> QED
  BY <1>1, <1>2, <1>3, <1>4, <1>5, AsideSteps, HomeNextLedger DEF Next

LEMMA InitHome == Init => HomeInv /\ IssuedInv
<1>1. Init => Snapshot!Tracked = {}
  BY DEF Init, Snapshot!NoRow, Snapshot!NoEvents, Snapshot!Tracked
<1>2. Init => \A p \in Processes : Carries(p) = {}
  BY DEF Init, Carries, Carrying
<1> QED
  BY <1>1, <1>2 DEF Init, HomeInv, IssuedInv, CoveredEarned, Behind

\* However many workers visit the row and upgrades settle it, no deployment is
\* behind two automatic snapshots, and what is behind one is not tracked again.
THEOREM CoveredOnceCorrect == Spec => []CoveredOnce
<1> DEFINE I == TypeOK /\ LockInv /\ CurrentInv
           J == HomeInv /\ IssuedInv
<1>1. Init => J
  BY InitHome
<1>2. I /\ J /\ [Next]_vars => J'
  BY HomeNext
<1>3. I /\ J => CoveredOnce
  <2>1. J /\ TypeOK => \A e \in EventIds : e \in Snapshot!Tracked => covered[e] = 0
    BY DEF HomeInv, Behind, TypeOK
  <2> QED
    BY <2>1 DEF HomeInv, CoveredOnce
<1>4. Spec => []I
  BY LockCorrect
<1> HIDE DEF I, J
<1> QED
  BY <1>1, <1>2, <1>3, <1>4, PTL DEF Spec

\* Every deployment behind an automatic snapshot has succeeded, although the row
\* goes on collecting deployments while the events are read and the snapshot is
\* written.
THEOREM CoveredEarnedCorrect == Spec => []CoveredEarned
<1> DEFINE I == TypeOK /\ LockInv /\ CurrentInv
           J == HomeInv /\ IssuedInv
<1>1. Init => J
  BY InitHome
<1>2. I /\ J /\ [Next]_vars => J'
  BY HomeNext
<1>3. J => CoveredEarned
  BY DEF IssuedInv
<1>4. Spec => []I
  BY LockCorrect
<1> HIDE DEF I, J
<1> QED
  BY <1>1, <1>2, <1>3, <1>4, PTL DEF Spec

-----------------------------------------------------------------------------
(* Each transaction happens at once                                        *)

RowStep ==
    [Abstract!RegionMoves \/ Abstract!TimePasses \/ Abstract!Operation]_Abstract!rowVars

\* Who leaves the row alone stutters; who changes it ends the old deadline.
LEMMA EndStep ==
    ASSUME NEW p, End(p), outcome' = outcome,
           \/ row' = row
           \/ Abstract!Registration \/ Abstract!Cancel \/ Abstract!BeforeUpgrade
           \/ Abstract!ClaimExpired \/ Abstract!Settle
           \/ late /\ Abstract!Expire
    PROVE  RowStep
<1>1. CASE row' = row
  BY <1>1 DEF End, RowStep, Abstract!rowVars
<1>2. CASE row' # row
  BY <1>2 DEF End, Commit, RowStep, Abstract!Operation
<1> QED
  BY <1>1, <1>2

LEMMA RegionStep ==
    ASSUME UNCHANGED <<row, late>>,
           \A e \in EventIds : outcome[e] \in {"success", "failure"} => outcome'[e] = outcome[e]
    PROVE  RowStep
BY DEF RowStep, Abstract!RegionMoves

LEMMA QuietStep == UNCHANGED <<row, late, outcome>> => RowStep
BY DEF RowStep, Abstract!rowVars

LEMMA CancelStep == Snapshot!Cancel => Abstract!Cancel
BY DEF Snapshot!Cancel, Abstract!Cancel, Snapshot!Finish, Abstract!Finish,
       Snapshot!NoRow, Abstract!NoRow, Snapshot!NoEvents, Abstract!NoEvents

\* What is registered has been accepted by the region before.
LEMMA TrackStep ==
    ASSUME NEW p \in Processes, held[p] \in Snapshot!EventMap, NEW upgrade \in BOOLEAN,
           Snapshot!Track(held[p], upgrade),
           \A e \in EventsOf(held[p]) : outcome[e] # "none"
    PROVE  Abstract!Registration
<1>1. Abstract!Track(held[p], upgrade)
  <2>1. Snapshot!Merged(held[p]) = Abstract!Merged(held[p])
    BY DEF Snapshot!Merged, Abstract!Merged
  <2> QED
    BY <2>1, CancelStep DEF Snapshot!Track, Abstract!Track, Snapshot!NoEvents, Abstract!NoEvents
<1>2. held[p] \in Abstract!EventMap
  BY DEF Snapshot!EventMap, Abstract!EventMap
<1>3. \A s \in Components : held[p][s] # NoEvent => outcome[held[p][s]] # "none"
  BY DEF EventsOf
<1> QED
  BY <1>1, <1>2, <1>3 DEF Abstract!Registration

LEMMA StartStep ==
    ASSUME TypeOK, NEW p \in Requests, Start(p)
    PROVE  RowStep
<1>1. CASE Deploy(p)
  BY <1>1, AcceptEnded, RegionStep DEF Deploy, tables, Ended
<1>2. CASE BatchBegin(p)
  BY <1>2, QuietStep DEF BatchBegin, tables
<1>3. CASE BatchDeploy(p)
  BY <1>3, AcceptEnded, RegionStep DEF BatchDeploy, tables, Ended
<1>4. CASE ClaimBegin(p)
  BY <1>4, QuietStep DEF ClaimBegin, tables
<1>5. CASE Restore(p)
  BY <1>5, CancelStep, EndStep DEF Restore
<1>6. CASE RollbackBegin(p)
  BY <1>6, QuietStep DEF RollbackBegin, tables
<1>7. CASE UpgradeFails(p)
  BY <1>7, AcceptEnded, RegionStep DEF UpgradeFails, tables, Ended
<1> QED
  BY <1>1, <1>2, <1>3, <1>4, <1>5, <1>6, <1>7 DEF Start

LEMMA ProceedStep ==
    ASSUME TypeOK, LockInv, CurrentInv, IssuedInv, NEW p \in Requests, Proceed(p)
    PROVE  RowStep
<1> p \in Processes /\ held[p] \in Snapshot!EventMap /\ database \in {"sqlite", "mysql"}
  BY DEF Processes, TypeOK
<1>1. CASE Register(p)
  <2>1. Abstract!Registration
    BY <1>1, TrackStep DEF Register, IssuedInv, Carries, Carrying
  <2> QED
    BY <1>1, <2>1, EndStep DEF Register
<1>2. CASE BatchRegister(p)
  BY <1>2, QuietStep DEF BatchRegister, tables
<1>3. CASE BatchCommit(p)
  <2>1. Abstract!Registration
    BY <1>3, TrackStep DEF BatchCommit, IssuedInv, Carries, Carrying
  <2> QED
    BY <1>3, <2>1, EndStep DEF BatchCommit
<1>4. CASE ClaimRefused(p)
  BY <1>4, QuietStep DEF ClaimRefused, tables
<1>5. CASE ClaimGranted(p)
  BY <1>5, QuietStep DEF ClaimGranted, tables
<1>6. CASE Claim(p)
  <2>1. Snapshot!MayDispatch \/ late
    BY <1>6, MayWriteReads DEF Claim, Locking, ReadsCurrent
  <2>2. row' = [status |-> "dispatching", tracked |-> Abstract!NoEvents]
    BY <1>6 DEF Claim, NoEvents, Snapshot!NoEvents, Abstract!NoEvents
  <2>3. CASE Snapshot!MayDispatch
    <3>1. Abstract!MayDispatch
      BY <2>3 DEF Snapshot!MayDispatch, Abstract!MayDispatch, Snapshot!Enabled, Abstract!Enabled,
                  Snapshot!Failed, Abstract!Failed, Snapshot!Succeeded, Abstract!Succeeded,
                  Snapshot!Tracked, Abstract!Tracked
    <3>2. Abstract!BeforeUpgrade
      BY <2>2, <3>1 DEF Abstract!BeforeUpgrade
    <3> QED
      BY <1>6, <3>2 DEF Claim, Commit, RowStep, Abstract!Operation
  <2>4. CASE late /\ Snapshot!Enabled
    <3>1. Abstract!ClaimExpired
      BY <2>2, <2>4 DEF Abstract!ClaimExpired, Snapshot!Enabled, Abstract!Enabled
    <3> QED
      BY <1>6, <3>1 DEF Claim, Commit, RowStep, Abstract!Operation
  <2> QED
    BY <2>1, <2>3, <2>4 DEF Snapshot!MayDispatch
<1>7. CASE DeployVersion(p)
  BY <1>7, AcceptEnded, RegionStep DEF DeployVersion, tables, Ended
<1>8. CASE RegisterUpgrade(p)
  <2>1. Abstract!Registration
    BY <1>8, TrackStep DEF RegisterUpgrade, IssuedInv, Carries, Carrying
  <2> QED
    BY <1>8, <2>1, EndStep DEF RegisterUpgrade
<1>9. CASE CancelClaim(p)
  BY <1>9, CancelStep, EndStep DEF CancelClaim
<1>10. CASE RollbackCommit(p)
  BY <1>10, CancelStep, EndStep DEF RollbackCommit
<1>11. CASE Busy(p)
  BY <1>11, QuietStep DEF Busy, tables
<1> QED
  BY <1>1, <1>2, <1>3, <1>4, <1>5, <1>6, <1>7, <1>8, <1>9, <1>10, <1>11 DEF Proceed

LEMMA WorkStep ==
    ASSUME TypeOK, LockInv, CurrentInv, NEW w \in Workers, Work(w) \/ Visit(w)
    PROVE  RowStep
<1> w \in Processes /\ database \in {"sqlite", "mysql"}
  BY DEF Processes, TypeOK
<1> USE DEF Snapshot!Finish, Abstract!Finish, Snapshot!NoEvents, Abstract!NoEvents,
            Snapshot!Tracked, Abstract!Tracked, Snapshot!Failed, Abstract!Failed
<1>1. CASE List(w)
  BY <1>1, QuietStep DEF List, tables
<1>2. CASE NothingToDo(w)
  BY <1>2, QuietStep DEF NothingToDo, tables
<1>3. CASE Expire(w)
  <2>1. late /\ Abstract!Expire
    BY <1>3 DEF Expire, Snapshot!Expire, Abstract!Expire, Snapshot!Enabled, Abstract!Enabled
  <2> QED
    BY <1>3, <2>1, EndStep DEF Expire
<1>4. CASE SettleFailed(w)
  <2>1. Abstract!Settle
    BY <1>4 DEF SettleFailed, Abstract!Settle
  <2> QED
    BY <1>4, <2>1, EndStep DEF SettleFailed
<1>5. CASE ReadEvents(w)
  BY <1>5, QuietStep DEF ReadEvents, tables
<1>6. CASE TakeSnapshot(w)
  <2>1. row.status = "pending" /\ Snapshot!Succeeded
    BY <1>6, MayWriteReads DEF TakeSnapshot, Locking, ReadsCurrent
  <2>2. Abstract!Succeeded /\ ~Abstract!Failed
    BY <2>1 DEF Snapshot!Succeeded, Abstract!Succeeded
  <2>3. Abstract!Settle
    BY <1>6, <2>1, <2>2 DEF TakeSnapshot, Abstract!Settle
  <2> QED
    BY <1>6, <2>3, EndStep DEF TakeSnapshot
<1>7. CASE Busy(w)
  BY <1>7, QuietStep DEF Busy, tables
<1>8. CASE Visit(w)
  BY <1>8, QuietStep DEF Visit, tables
<1> QED
  BY <1>1, <1>2, <1>3, <1>4, <1>5, <1>6, <1>7, <1>8 DEF Work

LEMMA NextStep ==
    ASSUME TypeOK, LockInv, CurrentInv, IssuedInv, [Next]_vars
    PROVE  RowStep
<1>1. ASSUME NEW p \in Processes, Fail(p) PROVE RowStep
  BY <1>1, QuietStep DEF Fail, tables
<1>2. CASE DeadlinePasses
  BY <1>2 DEF DeadlinePasses, RowStep, Abstract!TimePasses, Snapshot!Enabled, Abstract!Enabled
<1>3. CASE EventEnds
  BY <1>3, RegionStep DEF EventEnds, TypeOK, tables
<1>4. CASE UNCHANGED vars
  BY <1>4, QuietStep DEF vars, tables
<1> QED
  BY <1>1, <1>2, <1>3, <1>4, StartStep, ProceedStep, WorkStep DEF Next

LEMMA HomeCorrect == Spec => [](TypeOK /\ LockInv /\ CurrentInv /\ IssuedInv)
<1> DEFINE I == TypeOK /\ LockInv /\ CurrentInv
           J == HomeInv /\ IssuedInv
<1>1. Init => J
  BY InitHome
<1>2. I /\ J /\ [Next]_vars => J'
  BY HomeNext
<1>3. I /\ J => TypeOK /\ LockInv /\ CurrentInv /\ IssuedInv
  OBVIOUS
<1>4. Spec => []I
  BY LockCorrect
<1> HIDE DEF I, J
<1> QED
  BY <1>1, <1>2, <1>3, <1>4, PTL DEF Spec

\* The transactions implement operations that happen at once, whatever they
\* read and ask in between, on both databases and however they fail.
THEOREM Refinement == Spec => KeepsRow
<1>1. Init => Abstract!RowInit
  BY DEF Init, Abstract!RowInit, Snapshot!NoRow, Abstract!NoRow,
         Snapshot!NoEvents, Abstract!NoEvents
<1>2. /\ TypeOK /\ LockInv /\ CurrentInv /\ IssuedInv
      /\ [Next]_vars
      => [Abstract!RegionMoves \/ Abstract!TimePasses \/ Abstract!Operation]_Abstract!rowVars
  BY NextStep DEF RowStep
<1> QED
  BY <1>1, <1>2, HomeCorrect, PTL DEF Spec, KeepsRow, Abstract!RowSpec

-----------------------------------------------------------------------------
(* The claim of an upgrade                                                 *)

\* A claim is lost to the deadline, or to the end of an upgrade or a restore.
Loses ==
    row.status = "dispatching" /\ row'.status # "dispatching" =>
        \/ late
        \/ \E p \in Requests :
              /\ pc[p] \in {"idle", "registerUpgrade", "cancel", "rollback"}
              /\ pc'[p] # pc[p]

\* The registration of deployments finds the row claimed and changes nothing.
LEMMA TrackLoses ==
    ASSUME NEW events, Snapshot!Track(events, FALSE)
    PROVE  Loses
BY DEF Snapshot!Track, Loses

LEMMA StartLoses ==
    ASSUME TypeOK, NEW p \in Requests, Start(p)
    PROVE  Loses
<1>1. CASE Restore(p)
  <2>1. pc[p] = "idle" /\ pc'[p] = "restoring"
    BY <1>1, GotoPhase DEF Restore, Processes
  <2> QED
    BY <2>1 DEF Loses
<1> QED
  BY <1>1 DEF Start, Deploy, BatchBegin, BatchDeploy, ClaimBegin, RollbackBegin, UpgradeFails,
              tables, Loses

LEMMA ProceedLoses ==
    ASSUME TypeOK, NEW p \in Requests, Proceed(p)
    PROVE  Loses
<1> p \in Processes
  BY DEF Processes
<1>1. CASE Register(p)
  BY <1>1, TrackLoses DEF Register
<1>2. CASE BatchCommit(p)
  BY <1>2, TrackLoses DEF BatchCommit
<1>3. CASE Claim(p)
  BY <1>3 DEF Claim, Loses
<1>4. CASE RegisterUpgrade(p) \/ CancelClaim(p) \/ RollbackCommit(p)
  <2>1. /\ pc[p] \in {"registerUpgrade", "cancel", "rollback"}
        /\ pc'[p] = "idle"
    BY <1>4, GotoPhase DEF RegisterUpgrade, CancelClaim, RollbackCommit, Done
  <2> QED
    BY <2>1 DEF Loses
<1>5. CASE BatchRegister(p) \/ ClaimRefused(p) \/ ClaimGranted(p) \/ DeployVersion(p) \/ Busy(p)
  BY <1>5 DEF BatchRegister, ClaimRefused, ClaimGranted, DeployVersion, Busy, tables, Loses
<1> QED
  BY <1>1, <1>2, <1>3, <1>4, <1>5 DEF Proceed

\* A worker that settles a row has read it pending, and it still is.
LEMMA WorkLoses ==
    ASSUME TypeOK, LockInv, CurrentInv, NEW w \in Workers, Work(w) \/ Visit(w)
    PROVE  Loses
<1>1. CASE TakeSnapshot(w)
  <2>1. row.status = "pending"
    BY <1>1, MayWriteReads DEF TakeSnapshot, Locking, ReadsCurrent, Processes, TypeOK
  <2> QED
    BY <2>1 DEF Loses
<1>2. CASE SettleFailed(w) \/ Expire(w)
  BY <1>2 DEF SettleFailed, Expire, Loses
<1>3. CASE List(w) \/ NothingToDo(w) \/ ReadEvents(w) \/ Busy(w) \/ Visit(w)
  BY <1>3 DEF List, NothingToDo, ReadEvents, Busy, Visit, tables, Loses
<1> QED
  BY <1>1, <1>2, <1>3 DEF Work

LEMMA NextLoses ==
    ASSUME TypeOK, LockInv, CurrentInv, [Next]_vars
    PROVE  Loses
<1>1. CASE (\E p \in Processes : Fail(p)) \/ DeadlinePasses \/ EventEnds \/ UNCHANGED vars
  BY <1>1 DEF Fail, DeadlinePasses, EventEnds, vars, tables, Loses
<1> QED
  BY <1>1, StartLoses, ProceedLoses, WorkLoses DEF Next

\* Deployments that are registered while an upgrade is under way, and the
\* workers, leave its claim alone until the deadline.
THEOREM ClaimKeptCorrect == Spec => ClaimKept
<1>1. /\ TypeOK /\ LockInv /\ CurrentInv
      /\ [Next]_vars
      => [ row.status = "dispatching" /\ row'.status # "dispatching" =>
             \/ late
             \/ \E p \in Requests :
                   /\ pc[p] \in {"idle", "registerUpgrade", "cancel", "rollback"}
                   /\ pc'[p] # pc[p] ]_vars
  BY NextLoses DEF Loses
<1> QED
  BY <1>1, LockCorrect, PTL DEF Spec, ClaimKept

-----------------------------------------------------------------------------
(* What the promise of SnapshotRow means for who reads the row             *)

\* A row that says "failure" tracks an event that has failed.
FailureTrue == row.status = "failure" => Snapshot!Failed

\* The row is settled only from what the region says of all it tracks, it expires only
\* when it is late, and an upgrade claims it only when the round before is decided or
\* late.
RowSettles ==
    /\ row.status # "success" /\ row'.status = "success" =>
          row.status = "pending" /\ Snapshot!Succeeded
    /\ row.status # "failure" /\ row'.status = "failure" =>
          row.status = "pending" /\ Snapshot!Failed
    /\ row.status # "expired" /\ row'.status = "expired" => late
    /\ row.status = "pending" /\ row'.status = "dispatching" =>
          late \/ Snapshot!Failed \/ Snapshot!Succeeded

LEMMA SameVerdicts ==
    /\ Abstract!Failed <=> Snapshot!Failed
    /\ Abstract!Succeeded <=> Snapshot!Succeeded
  BY DEF Abstract!Failed, Snapshot!Failed, Abstract!Succeeded, Snapshot!Succeeded,
     Abstract!Tracked, Snapshot!Tracked

\* What an operation of SnapshotRow makes of the status, and when.
LEMMA OperationStatus ==
    ASSUME Abstract!Operation
    PROVE  /\ outcome' = outcome
           /\ \/ row' = row
              \/ row'.status \in {"pending", "cancelled"}
              \/ row'.status = "expired" /\ late
              \/ /\ row'.status = "dispatching"
                 /\ row.status = "pending" =>
                       late \/ Snapshot!Failed \/ Snapshot!Succeeded
              \/ /\ row'.status = "failure" /\ row'.tracked = row.tracked
                 /\ row.status = "pending" /\ Snapshot!Failed
              \/ row'.status = "success" /\ row.status = "pending" /\ Snapshot!Succeeded
<1>1. CASE Abstract!Registration \/ Abstract!Cancel
  <2>1. Abstract!Cancel => row' = row \/ row'.status = "cancelled"
    BY DEF Abstract!Cancel, Abstract!Finish
  <2>2. ASSUME NEW events \in Abstract!EventMap, NEW upgrade \in BOOLEAN,
               Abstract!Track(events, upgrade)
        PROVE  row' = row \/ row'.status \in {"pending", "cancelled"}
    BY <2>1, <2>2 DEF Abstract!Track
  <2> QED
    BY <1>1, <2>1, <2>2 DEF Abstract!Operation, Abstract!Registration
<1>2. CASE Abstract!BeforeUpgrade
  BY <1>2, SameVerdicts
  DEF Abstract!Operation, Abstract!BeforeUpgrade, Abstract!MayDispatch, Abstract!Enabled
<1>3. CASE Abstract!ClaimExpired
  BY <1>3 DEF Abstract!Operation, Abstract!ClaimExpired
<1>4. CASE Abstract!Settle
  BY <1>4, SameVerdicts DEF Abstract!Operation, Abstract!Settle, Abstract!Finish
<1>5. CASE late /\ Abstract!Expire
  BY <1>5 DEF Abstract!Operation, Abstract!Expire, Abstract!Finish
<1> QED
  BY <1>1, <1>2, <1>3, <1>4, <1>5 DEF Abstract!Operation

\* Only the promise is used: every step of SnapshotRow settles the row so.
LEMMA PromiseSettles == ASSUME RowStep PROVE RowSettles
<1>1. CASE Abstract!RegionMoves \/ Abstract!TimePasses \/ UNCHANGED Abstract!rowVars
  <2>1. row' = row
    BY <1>1 DEF Abstract!RegionMoves, Abstract!TimePasses, Abstract!rowVars
  <2> QED
    BY <2>1 DEF RowSettles
<1>2. CASE Abstract!Operation
  BY <1>2, OperationStatus DEF RowSettles
<1> QED
  BY <1>1, <1>2 DEF RowStep

LEMMA PromiseFails == ASSUME TypeOK, FailureTrue, RowStep PROVE FailureTrue'
<1>0. \A e \in Snapshot!Tracked : e \in EventIds
  BY DEF TypeOK, Snapshot!Row, Snapshot!Tracked, Snapshot!EventMap
<1>1. CASE Abstract!RegionMoves \/ Abstract!TimePasses \/ UNCHANGED Abstract!rowVars
  <2>1. /\ row' = row
        /\ \A e \in EventIds : outcome[e] = "failure" => outcome'[e] = "failure"
    BY <1>1 DEF Abstract!RegionMoves, Abstract!TimePasses, Abstract!rowVars
  <2>2. \A e \in Snapshot!Tracked : outcome[e] # "timeout"
    BY <1>0 DEF TypeOK
  <2> QED
    BY <1>0, <2>1, <2>2 DEF FailureTrue, Snapshot!Failed, Snapshot!Tracked
<1>2. CASE Abstract!Operation
  <2>1. outcome' = outcome
        /\ (row'.status = "failure" =>
              row'.tracked = row.tracked /\ (row.status = "failure" \/ Snapshot!Failed))
    BY <1>2, OperationStatus
  <2> QED
    BY <2>1 DEF FailureTrue, Snapshot!Failed, Snapshot!Tracked
<1> QED
  BY <1>1, <1>2 DEF RowStep

LEMMA Promise == Spec => [][RowStep]_Abstract!rowVars
<1>1. [Abstract!RegionMoves \/ Abstract!TimePasses \/ Abstract!Operation]_Abstract!rowVars
         => RowStep
  BY DEF RowStep
<1> QED
  BY <1>1, Refinement, PTL DEF KeepsRow, Abstract!RowSpec

\* However transactions overlap on either database, the row tells of a success or a
\* failure only what the region says of the deployments it tracks (reconcile,
\* before_upgrade).
THEOREM RowSettlesCorrect == Spec => [][RowSettles]_vars
<1>1. [RowStep]_Abstract!rowVars => RowSettles
  BY PromiseSettles DEF RowStep
<1> QED
  BY <1>1, Promise, PTL

\* A failed round can be told from what it still tracks, until it is deployed again
\* (_finish).
THEOREM FailureTrueCorrect == Spec => []FailureTrue
<1>1. Init => FailureTrue
  BY DEF Init, FailureTrue, Snapshot!NoRow
<1>2. TypeOK /\ FailureTrue /\ [RowStep]_Abstract!rowVars => FailureTrue'
  BY PromiseFails DEF RowStep
<1> QED
  BY <1>1, <1>2, Promise, TypeCorrect, PTL DEF Spec
=============================================================================
