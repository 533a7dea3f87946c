------------------------- MODULE OperationAuditProofs -------------------------
(***************************************************************************)
(* The audit of operations keeps the trail of AuditTrail, and the consumer *)
(* skips no event but those MySQL commits behind its cursor, for any number*)
(* of calls, operations and faults.                                        *)
(***************************************************************************)
EXTENDS OperationAudit, FiniteSetTheorems, WellFoundedInduction, TLAPS

\* A call that has passed the first lookup has an operation; it has an open
\* transaction exactly while it commits, and that is about its operation.
Transacting(c) ==
    /\ call[c].pc \notin {"idle", "done"} => call[c].op \in Operations
    /\ call[c].pc \notin {"commit", "end"} => txn[c] = None
    /\ call[c].pc \in {"commit", "end"} => txn[c] # None /\ txn[c].op = call[c].op
    /\ call[c].pc = "commit" => txn[c].type = "started" /\ status[call[c].op] = "absent"
    /\ call[c].pc = "end" =>
          txn[c].type = call[c].result /\ status[call[c].op] = "executing"

\* The view only ends operations that have not ended.
ReaderEnds ==
    txn[Reader] # None => txn[Reader].type = "unknown" /\ status[txn[Reader].op] = "executing"

Transactions == ReaderEnds /\ \A c \in Calls : Transacting(c)

\* From the insertion of its start, an operation is in the hands of one call.
Owners ==
    \A c, d \in Calls :
        /\ c # d /\ call[c].op = call[d].op
        /\ call[c].pc \in {"commit", "run", "finalize", "end"}
        => call[d].pc \notin {"commit", "run", "finalize", "end"}

\* The tool runs after its operation has started, and what is reported is what it
\* did.
Outcomes ==
    /\ \A o \in Operations : outcome[o] # "none" => status[o] # "absent"
    /\ \A c \in Calls :
          /\ call[c].pc = "run" => status[call[c].op] # "absent" /\ outcome[call[c].op] = "none"
          /\ call[c].pc \in {"finalize", "end"} =>
                /\ status[call[c].op] # "absent"
                /\ call[c].result = outcome[call[c].op]
                /\ call[c].result # "none"

\* Ids are drawn one by one.
Ids ==
    /\ IsFiniteSet(feed)
    /\ \A e \in feed : e.id <= lastId
    /\ \A w \in Open : txn[w].id <= lastId /\ \A e \in feed : e.id # txn[w].id
    /\ \A v, w \in Open : v # w => txn[v].id # txn[w].id

\* On SQLite an open transaction is alone and holds the last id; what is open and
\* behind the cursor is known to be late.
Behind ==
    /\ cursor <= lastId
    /\ database = "sqlite" => \A v, w \in Open : v = w /\ txn[w].id = lastId
    /\ \A w \in Open : txn[w].id <= cursor => database = "mysql" /\ txn[w].id \in late

IInv == TypeOK /\ Transactions /\ Owners /\ Outcomes /\ Ids /\ Behind /\ NothingSkipped

-----------------------------------------------------------------------------
(* Types                                                                   *)

LEMMA TypeInit == Init => TypeOK
<1> SUFFICES ASSUME Init PROVE TypeOK
  OBVIOUS
<1>1. call \in [Calls -> Call]
  BY DEF Init, Call, NoCall
<1>2. Open = {}
  BY DEF Init, Open
<1>3. /\ status \in [Operations -> {"absent", "executing"} \cup Terminal]
      /\ txn \in [Writers -> Event \cup {None}]
      /\ outcome \in [Operations -> {"none", "succeeded", "failed"}]
  BY DEF Init
<1>4. /\ feed \subseteq Event /\ got \subseteq Nat /\ late \subseteq Nat
      /\ stale \subseteq Operations
  BY DEF Init
<1>5. aged \subseteq {o \in Operations : status[o] = "executing"}
  BY DEF Init
<1>6. lastId \in Nat /\ cursor \in Nat /\ faults \in 0 .. MaxFaults
  BY AuditAssumption DEF Init
<1>7. database \in {"sqlite", "mysql"} /\ serving \in BOOLEAN
  BY DEF Init
<1>8. \A v, w \in Open : v # w => txn[v].op # txn[w].op
  BY <1>2
<1> QED
  BY <1>1, <1>3, <1>4, <1>5, <1>6, <1>7, <1>8 DEF TypeOK

\* The types of the tables.
TablesOK ==
    /\ status \in [Operations -> {"absent", "executing"} \cup Terminal]
    /\ feed \subseteq Event /\ lastId \in Nat
    /\ txn \in [Writers -> Event \cup {None}]
    /\ aged \subseteq {o \in Operations : status[o] = "executing"}
    /\ \A v, w \in Open : v # w => txn[v].op # txn[w].op

LEMMA EventShape == \A e \in Event : /\ e.id \in Nat /\ e.op \in Operations
                                     /\ e.type \in {"started"} \cup Terminal
  BY DEF Event

LEMMA OpenEvents == ASSUME TypeOK, NEW w \in Writers, txn[w] # None PROVE txn[w] \in Event
  BY DEF TypeOK

LEMMA TypesHere ==
    ASSUME TypeOK, TablesOK', call' \in [Calls -> Call], UNCHANGED database,
           stale' \subseteq Operations, serving' \in BOOLEAN, cursor' \in Nat,
           faults' \in 0 .. MaxFaults, got' \subseteq Nat, late' \subseteq Nat,
           outcome' \in [Operations -> {"none", "succeeded", "failed"}]
    PROVE  TypeOK'
  BY DEF TypeOK, TablesOK

LEMMA SameTables == ASSUME TypeOK, UNCHANGED tables PROVE TablesOK'
  BY DEF TypeOK, TablesOK, tables, Open

\* What a transaction does to the tables keeps their types.
LEMMA WritesTables ==
    ASSUME TypeOK, NEW w \in Writers, NEW o \in Operations,
           NEW t \in {"started"} \cup Terminal, MayWrite(w, o), Writes(w, o, t)
    PROVE  TablesOK'
<1> DEFINE e == [id |-> lastId + 1, op |-> o, type |-> t]
<1>1. e \in Event /\ e.op = o
  BY DEF TypeOK, Event
<1>2. txn' = [txn EXCEPT ![w] = e] /\ lastId' = lastId + 1 /\ UNCHANGED <<status, feed,
aged>>
  BY DEF Writes
<1> HIDE DEF e
<1>3. txn' \in [Writers -> Event \cup {None}]
  BY <1>1, <1>2 DEF TypeOK
<1>4. \A v \in Open' \ {w} : v \in Open /\ txn'[v] = txn[v] /\ txn[v].op # o
  BY <1>2 DEF TypeOK, Open, MayWrite
<1>5. txn'[w].op = o
  BY <1>1, <1>2 DEF TypeOK
<1>6. \A v, x \in Open' : v # x => txn'[v].op # txn'[x].op
  BY <1>4, <1>5 DEF TypeOK
<1> QED
  BY <1>2, <1>3, <1>6 DEF TypeOK, TablesOK

LEMMA CommitsTables ==
    ASSUME TypeOK, NEW w \in Writers, txn[w] # None, Commits(w)
    PROVE  TablesOK'
<1> DEFINE e == txn[w]
           x == IF e.type = "started" THEN "executing" ELSE e.type
<1>1. e \in Event /\ e.op \in Operations /\ e.type \in {"started"} \cup Terminal
  BY OpenEvents, EventShape
<1>2. x \in {"absent", "executing"} \cup Terminal
  BY <1>1
<1>3. /\ status' = [status EXCEPT ![e.op] = x] /\ feed' = feed \cup {e}
      /\ aged' = aged \ {e.op} /\ txn' = [txn EXCEPT ![w] = None] /\ lastId' = lastId
  BY DEF Commits
<1> HIDE DEF e, x
<1>4. Open' \subseteq Open /\ \A v \in Open' : txn'[v] = txn[v]
  BY <1>3 DEF TypeOK, Open
<1>5. aged' \subseteq {o \in Operations : status'[o] = "executing"}
  BY <1>1, <1>3 DEF TypeOK
<1> QED
  BY <1>1, <1>2, <1>3, <1>4, <1>5 DEF TypeOK, TablesOK

LEMMA RollsBackTables ==
    ASSUME TypeOK, NEW w \in Writers, RollsBack(w)
    PROVE  TablesOK'
<1>1. Open' \subseteq Open /\ \A v \in Open' : txn'[v] = txn[v]
  BY DEF TypeOK, Open, RollsBack
<1> QED
  BY <1>1 DEF TypeOK, TablesOK, RollsBack

LEMMA GoesType ==
    ASSUME TypeOK, NEW c \in Calls, Goes(c, "commit") \/ Goes(c, "run") \/ Goes(c, "end")
    PROVE  call' \in [Calls -> Call]
  BY DEF TypeOK, Goes, Call

LEMMA EndsType ==
    ASSUME TypeOK, NEW c \in Calls, Ends(c)
    PROVE  call' \in [Calls -> Call]
  BY DEF TypeOK, Ends, Call, NoCall

LEMMA PageIsNew == ASSUME TypeOK PROVE \A e \in PageAfter(cursor) : e \in feed /\ e.id > cursor
  BY DEF PageAfter

\* A set of naturals with a bound has a greatest element.
LEMMA LessWellFounded == IsWellFoundedOn({p \in Nat \X Nat : p[1] < p[2]}, Nat)
<1> DEFINE R == {p \in Nat \X Nat : p[1] < p[2]}
<1>1. OpToRel(<, Nat) = R
  BY DEF OpToRel
<1> HIDE DEF R
<1>2. IsWellFoundedOn(R, Nat)
  BY <1>1, NatLessThanWellFounded
<1> QED
  BY <1>2 DEF R

LEMMA Greatest == ASSUME NEW S \in SUBSET Nat, S # {}, NEW n \in Nat, \A x \in S : x <= n
                  PROVE  \E x \in S : \A y \in S : y <= x
<1> DEFINE R == {p \in Nat \X Nat : p[1] < p[2]}
           T == {n - x : x \in S}
<1>1. IsWellFoundedOn(R, Nat)
  BY LessWellFounded
<1>2. T \subseteq Nat /\ T # {}
  <2>1. \A x \in S : n - x \in Nat
    OBVIOUS
  <2>2. PICK x \in S : TRUE
    OBVIOUS
  <2>3. n - x \in T
    OBVIOUS
  <2> QED
    BY <2>1, <2>3
<1>3. \A x, y \in Nat : x < y => <<x, y>> \in R
  OBVIOUS
<1>4. \E t \in T : \A u \in T : ~(<<u, t>> \in R)
  <2> HIDE DEF R, T
  <2> QED
    BY <1>1, <1>2, WFMin
<1>5. PICK x \in S : \A u \in T : ~(<<u, n - x>> \in R)
  BY <1>4
<1>6. ASSUME NEW y \in S PROVE y <= x
  <2>1. n - y \in T /\ n - y \in Nat /\ n - x \in Nat
    BY <1>2
  <2>2. ~(n - y < n - x)
    <3> HIDE DEF R, T
    <3> QED
      BY <2>1, <1>3, <1>5
  <2> QED
    BY <2>2
<1> QED
  BY <1>6

\* The cursor moves to the last event of the page.
LEMMA CursorMoves ==
    ASSUME TypeOK, Ids
    PROVE  /\ NextCursor \in Nat /\ NextCursor >= cursor
           /\ PageAfter(cursor) = {} => NextCursor = cursor
           /\ PageAfter(cursor) # {} =>
                 \E e \in PageAfter(cursor) :
                     NextCursor = e.id /\ \A f \in PageAfter(cursor) : f.id <= e.id
<1> DEFINE P == PageAfter(cursor)
           S == {e.id : e \in P}
<1>1. /\ P \subseteq feed
      /\ \A e \in P : e \in Event /\ e.id \in Nat /\ e.id > cursor /\ e.id <= lastId
  BY PageIsNew, EventShape DEF TypeOK, Ids
<1>2. NextCursor = IF P = {} THEN cursor ELSE (CHOOSE e \in P : \A f \in P : f.id <= e.id).id
  BY DEF NextCursor
<1> HIDE DEF P
<1>3. CASE P = {}
  BY <1>2, <1>3 DEF P, TypeOK
<1>4. CASE P # {}
  <2>1. S \subseteq Nat /\ S # {} /\ \A x \in S : x <= lastId
    BY <1>1, <1>4
  <2>2. PICK x \in S : \A y \in S : y <= x
    <3> HIDE DEF S
    <3> QED
      BY <2>1, Greatest DEF TypeOK
  <2>3. \E e \in P : \A f \in P : f.id <= e.id
    BY <2>2
  <2>4. /\ (CHOOSE e \in P : \A f \in P : f.id <= e.id) \in P
        /\ \A f \in P : f.id <= (CHOOSE e \in P : \A g \in P : g.id <= e.id).id
    BY <2>3
  <2>5. PICK e \in P : NextCursor = e.id /\ \A f \in P : f.id <= e.id
    BY <1>2, <1>4, <2>4
  <2>6. e.id \in Nat /\ e.id >= cursor
    BY <1>1, <2>5 DEF TypeOK
  <2> QED
    BY <1>4, <2>5, <2>6 DEF P
<1> QED
  BY <1>3, <1>4

LEMMA TypeNext ==
    ASSUME TypeOK, Transactions, Outcomes, Ids, [Next]_vars
    PROVE  TypeOK'
<1> USE AuditAssumption, NoneIsNoEvent DEF tables, view, Writers
<1>1. ASSUME NEW c \in Calls, NEW o \in Operations, Request(c, o)
      PROVE  TypeOK'
  <2>1. TablesOK'
    BY <1>1, SameTables DEF Request
  <2>2. call' \in [Calls -> Call]
    <3> DEFINE k == [pc |-> "insert", op |-> o, result |-> "none"]
    <3>1. k \in Call
      BY DEF Call
    <3>2. call' = [call EXCEPT ![c] = k] \/ Ends(c)
      BY <1>1 DEF Request
    <3> HIDE DEF k
    <3> QED
      BY <3>1, <3>2, EndsType DEF TypeOK
  <2> QED
    BY <1>1, <2>1, <2>2, TypesHere DEF Request, TypeOK
<1>2. ASSUME NEW c \in Calls, NEW r \in {"succeeded", "failed"}, RunTool(c, r)
      PROVE  TypeOK'
  <2>1. TablesOK'
    BY <1>2, SameTables DEF RunTool
  <2>2. call' \in [Calls -> Call]
    <3> DEFINE k == [pc |-> "finalize", op |-> call[c].op, result |-> r]
    <3>1. k \in Call
      BY <1>2 DEF TypeOK, Call
    <3>2. call' = [call EXCEPT ![c] = k]
      BY <1>2 DEF RunTool
    <3> HIDE DEF k
    <3> QED
      BY <3>1, <3>2 DEF TypeOK
  <2>3. outcome' \in [Operations -> {"none", "succeeded", "failed"}]
    BY <1>2 DEF RunTool, TypeOK
  <2> QED
    BY <1>2, <2>1, <2>2, <2>3, TypesHere DEF RunTool, TypeOK
<1>3. ASSUME NEW c \in Calls, Insert(c)
      PROVE  TypeOK'
  <2>1. call[c].op \in Operations /\ call[c].result \in {"none", "succeeded", "failed"}
    BY <1>3 DEF Insert, Transactions, Transacting, TypeOK, Call
  <2>2. call[c].pc = "finalize" => call[c].result \in Terminal
    BY <2>1 DEF Outcomes, Terminal
  <2>3. TablesOK'
    BY <1>3, <2>1, <2>2, SameTables, WritesTables DEF Insert
  <2>4. call' \in [Calls -> Call]
    BY <1>3, GoesType, EndsType DEF Insert
  <2> QED
    BY <1>3, <2>3, <2>4, TypesHere DEF Insert, TypeOK
<1>4. ASSUME NEW c \in Calls, InsertFails(c)
      PROVE  TypeOK'
  <2>1. TablesOK'
    BY <1>4, SameTables DEF InsertFails
  <2>2. call' \in [Calls -> Call]
    BY <1>4, EndsType DEF InsertFails
  <2> QED
    BY <1>4, <2>1, <2>2, TypesHere DEF InsertFails, Fault, TypeOK
<1>5. ASSUME NEW c \in Calls, Commit(c)
      PROVE  TypeOK'
  <2>1. TablesOK'
    BY <1>5, CommitsTables DEF Commit, Transactions, Transacting
  <2>2. call' \in [Calls -> Call]
    BY <1>5, GoesType, EndsType DEF Commit
  <2> QED
    BY <1>5, <2>1, <2>2, TypesHere DEF Commit, TypeOK
<1>6. ASSUME NEW c \in Calls, CommitFails(c)
      PROVE  TypeOK'
  <2>1. TablesOK'
    BY <1>6, CommitsTables, RollsBackTables DEF CommitFails, Transactions, Transacting
  <2>2. call' \in [Calls -> Call]
    BY <1>6, EndsType DEF CommitFails
  <2> QED
    BY <1>6, <2>1, <2>2, TypesHere DEF CommitFails, Fault, TypeOK
<1>7. ASSUME NEW c \in Calls, Finalize(c)
      PROVE  TypeOK'
  <2>1. call[c].op \in Operations /\ call[c].result \in {"none", "succeeded", "failed"}
    BY <1>7 DEF Finalize, Transactions, Transacting, TypeOK, Call
  <2>2. call[c].pc = "finalize" => call[c].result \in Terminal
    BY <2>1 DEF Outcomes, Terminal
  <2>3. TablesOK'
    BY <1>7, <2>1, <2>2, SameTables, WritesTables DEF Finalize
  <2>4. call' \in [Calls -> Call]
    BY <1>7, GoesType, EndsType DEF Finalize
  <2> QED
    BY <1>7, <2>3, <2>4, TypesHere DEF Finalize, TypeOK
<1>8. ASSUME NEW c \in Calls, FinalizeFails(c)
      PROVE  TypeOK'
  <2>1. TablesOK'
    BY <1>8, SameTables DEF FinalizeFails
  <2>2. call' \in [Calls -> Call]
    BY <1>8, EndsType DEF FinalizeFails, TypeOK
  <2> QED
    BY <1>8, <2>1, <2>2, TypesHere DEF FinalizeFails, Fault, TypeOK
<1>9. ASSUME NEW c \in Calls, FinalizeCommit(c)
      PROVE  TypeOK'
  <2>1. TablesOK'
    BY <1>9, CommitsTables DEF FinalizeCommit, Transactions, Transacting
  <2>2. call' \in [Calls -> Call]
    BY <1>9, GoesType, EndsType DEF FinalizeCommit
  <2> QED
    BY <1>9, <2>1, <2>2, TypesHere DEF FinalizeCommit, TypeOK
<1>10. ASSUME NEW c \in Calls, Crash(c)
      PROVE  TypeOK'
  <2>1. TablesOK'
    BY <1>10, RollsBackTables DEF Crash
  <2>2. call' \in [Calls -> Call]
    BY <1>10, EndsType DEF Crash
  <2> QED
    BY <1>10, <2>1, <2>2, TypesHere DEF Crash, Fault, TypeOK
<1>11. ASSUME NEW o \in Operations, Age(o)
      PROVE  TypeOK'
  <2>1. TablesOK'
    BY <1>11 DEF Age, TypeOK, TablesOK, Open
  <2> QED
    BY <1>11, <2>1, TypesHere DEF Age, TypeOK
<1>12. ASSUME NEW o \in Operations, Declare(o)
      PROVE  TypeOK'
  <2>1. TablesOK'
    BY <1>12, SameTables, WritesTables DEF Declare, Terminal
  <2> QED
    BY <1>12, <2>1, TypesHere DEF Declare, TypeOK
<1>13. ASSUME Poll
      PROVE  TypeOK'
  <2>1. TablesOK'
    BY <1>13, SameTables DEF Poll
  <2> QED
    BY <1>13, <2>1, TypesHere DEF Poll, TypeOK
<1>14. ASSUME Declared
      PROVE  TypeOK'
  <2>1. TablesOK'
    BY <1>14, CommitsTables DEF Declared
  <2> QED
    BY <1>14, <2>1, TypesHere DEF Declared, TypeOK
<1>15. ASSUME Page
      PROVE  TypeOK'
  <2>1. TablesOK'
    BY <1>15, SameTables DEF Page
  <2>2. cursor' \in Nat
    BY <1>15, CursorMoves DEF Page
  <2>3. {e.id : e \in PageAfter(cursor)} \subseteq Nat
    BY PageIsNew, EventShape DEF TypeOK
  <2>4. {i \in {txn[w].id : w \in Open} : i <= cursor'} \subseteq Nat
    BY OpenEvents, EventShape DEF Open
  <2>5. got' \subseteq Nat /\ late' \subseteq Nat
    BY <1>15, <2>3, <2>4 DEF Page, TypeOK
  <2> QED
    BY <1>15, <2>1, <2>2, <2>5, TypesHere DEF Page, TypeOK
<1>16. ASSUME PollFails
      PROVE  TypeOK'
  <2>1. TablesOK'
    BY <1>16, RollsBackTables DEF PollFails
  <2>2. faults' \in 0 .. MaxFaults
    BY <1>16 DEF PollFails, Fault, TypeOK
  <2>3. /\ UNCHANGED <<database, call, cursor, outcome, got, late>>
        /\ stale' = {} /\ serving' = FALSE
    BY <1>16 DEF PollFails
  <2> QED
    BY <2>1, <2>2, <2>3, TypesHere DEF TypeOK
<1>17. CASE UNCHANGED vars
  <2>1. TablesOK'
    BY <1>17, SameTables DEF vars
  <2> QED
    BY <1>17, <2>1, TypesHere DEF vars, TypeOK
<1> QED
  BY <1>1, <1>2, <1>3, <1>4, <1>5, <1>6, <1>7, <1>8, <1>9, <1>10, <1>11, <1>12, <1>13,
     <1>14, <1>15, <1>16, <1>17 DEF Next

-----------------------------------------------------------------------------
(* What the parts of an action do.                                         *)

LEMMA WritesFacts ==
    ASSUME TypeOK, NEW w \in Writers, NEW o \in Operations,
           NEW t \in {"started"} \cup Terminal, Writes(w, o, t)
    PROVE  /\ txn'[w] \in Event /\ txn'[w] # None
           /\ txn'[w].id = lastId + 1 /\ txn'[w].op = o /\ txn'[w].type = t
           /\ \A v \in Writers \ {w} : txn'[v] = txn[v]
           /\ lastId' = lastId + 1 /\ UNCHANGED <<status, feed, aged>>
<1> DEFINE e == [id |-> lastId + 1, op |-> o, type |-> t]
<1>1. e \in Event /\ e.id = lastId + 1 /\ e.op = o /\ e.type = t
  BY DEF TypeOK, Event
<1>2. txn' = [txn EXCEPT ![w] = e] /\ lastId' = lastId + 1 /\ UNCHANGED <<status, feed,
aged>>
  BY DEF Writes
<1> HIDE DEF e
<1> QED
  BY <1>1, <1>2, NoneIsNoEvent DEF TypeOK

LEMMA CommitsFacts ==
    ASSUME TypeOK, NEW w \in Writers, txn[w] # None, Commits(w)
    PROVE  /\ txn[w] \in Event /\ txn[w].op \in Operations
           /\ txn'[w] = None /\ \A v \in Writers \ {w} : txn'[v] = txn[v]
           /\ status' = [status EXCEPT ![txn[w].op] = status'[txn[w].op]]
           /\ status'[txn[w].op] = IF txn[w].type = "started" THEN "executing" ELSE txn[w].type
           /\ status'[txn[w].op] # "absent"
           /\ feed' = feed \cup {txn[w]} /\ lastId' = lastId
<1> DEFINE e == txn[w]
           x == IF e.type = "started" THEN "executing" ELSE e.type
<1>1. e \in Event /\ e.op \in Operations /\ e.type \in {"started"} \cup Terminal
  BY OpenEvents, EventShape
<1>2. x # "absent"
  BY <1>1 DEF Terminal
<1>3. /\ status' = [status EXCEPT ![e.op] = x] /\ feed' = feed \cup {e}
      /\ txn' = [txn EXCEPT ![w] = None] /\ lastId' = lastId
  BY DEF Commits
<1>4. status'[e.op] = x
  BY <1>1, <1>3 DEF TypeOK
<1> QED
  BY <1>1, <1>2, <1>3, <1>4 DEF TypeOK

\* A commit leaves the operations of the other open transactions alone.
LEMMA OthersUntouched ==
    ASSUME TypeOK, NEW w \in Writers, txn[w] # None, Commits(w)
    PROVE  \A v \in Writers \ {w} :
              txn[v] # None => status'[txn[v].op] = status[txn[v].op]
<1> SUFFICES ASSUME NEW v \in Writers \ {w}, txn[v] # None
             PROVE  status'[txn[v].op] = status[txn[v].op]
  OBVIOUS
<1>1. txn[v].op # txn[w].op
  BY DEF TypeOK, Open
<1>2. txn[v].op \in Operations /\ txn[w].op \in Operations
  BY OpenEvents, EventShape
<1> QED
  BY <1>1, <1>2, CommitsFacts DEF TypeOK

LEMMA RollsBackFacts ==
    ASSUME TypeOK, NEW w \in Writers, RollsBack(w)
    PROVE  /\ txn'[w] = None /\ \A v \in Writers \ {w} : txn'[v] = txn[v]
           /\ UNCHANGED <<status, feed, lastId, aged>>
  BY DEF RollsBack, TypeOK

LEMMA GoesFacts ==
    ASSUME TypeOK, NEW c \in Calls, NEW where, Goes(c, where)
    PROVE  /\ call'[c].pc = where /\ call'[c].op = call[c].op
           /\ call'[c].result = call[c].result
           /\ \A d \in Calls \ {c} : call'[d] = call[d]
  BY DEF Goes, TypeOK, Call

LEMMA EndsFacts ==
    ASSUME TypeOK, NEW c \in Calls, Ends(c)
    PROVE  call'[c].pc = "done" /\ \A d \in Calls \ {c} : call'[d] = call[d]
  BY DEF Ends, TypeOK, NoCall

LEMMA ResultReported ==
    ASSUME TypeOK, Outcomes, NEW c \in Calls, call[c].pc = "finalize"
    PROVE  call[c].result \in Terminal /\ call[c].result # "started"
<1>1. call[c].result \in {"none", "succeeded", "failed"}
  BY DEF TypeOK, Call
<1> QED
  BY <1>1 DEF Outcomes, Terminal

-----------------------------------------------------------------------------
(* The parts of the invariant.                                             *)

LEMMA TerminalUnknown == {"started", "unknown"} \subseteq {"started"} \cup Terminal
  BY DEF Terminal

LEMMA OpPresent == ASSUME Transactions, NEW c \in Calls, call[c].pc \notin {"idle", "done"}
                   PROVE  call[c].op \in Operations
  BY DEF Transactions, Transacting

LEMMA RequestFacts ==
    ASSUME TypeOK, NEW c \in Calls, NEW o \in Operations, Request(c, o)
    PROVE  /\ \A d \in Calls \ {c} : call'[d] = call[d]
           /\ \/ call'[c].pc = "done"
              \/ call'[c].pc = "insert" /\ call'[c].op = o
           /\ txn' = txn /\ status' = status /\ feed' = feed
  BY EndsFacts DEF Request, TypeOK, tables

LEMMA RunFacts ==
    ASSUME TypeOK, NEW c \in Calls, NEW r \in {"succeeded", "failed"}, RunTool(c, r)
    PROVE  /\ \A d \in Calls \ {c} : call'[d] = call[d]
           /\ call'[c].pc = "finalize" /\ call'[c].op = call[c].op /\ call'[c].result = r
           /\ txn' = txn /\ status' = status /\ feed' = feed
  BY DEF RunTool, TypeOK, tables

LEMMA TransactionsNext ==
    ASSUME TypeOK, Transactions, Owners, Outcomes, [Next]_vars
    PROVE  Transactions'
<1> USE AuditAssumption, NoneIsNoEvent DEF tables, view, Writers
<1>1. ASSUME NEW c \in Calls, NEW o \in Operations, Request(c, o)
      PROVE  Transactions'
  BY <1>1, EndsFacts, RequestFacts DEF Request, Transactions, Transacting, ReaderEnds,
     Writers, Open
<1>2. ASSUME NEW c \in Calls, NEW r \in {"succeeded", "failed"}, RunTool(c, r)
      PROVE  Transactions'
  BY <1>2, RunFacts DEF RunTool, Transactions, Transacting, ReaderEnds, Writers, Open
<1>3. ASSUME NEW c \in Calls, Insert(c)
      PROVE  Transactions'
  <2>1. CASE UNCHANGED tables /\ Ends(c)
    BY <1>3, <2>1, EndsFacts DEF Insert, Transactions, Transacting, ReaderEnds
  <2>2. CASE Goes(c, "commit")
    <3> DEFINE t == "started"
    <3>1. /\ call[c].op \in Operations /\ t \in {"started"} \cup Terminal
          /\ Writes(c, call[c].op, t)
          /\ status[call[c].op] = "absent"
      BY <1>3, <2>2, OpPresent, TerminalUnknown, ResultReported, EndsFacts,
         GoesFacts DEF Insert
    <3>2. /\ txn'[c] # None /\ txn'[c].op = call[c].op /\ txn'[c].type = t
          /\ status' = status /\ \A w \in Writers \ {c} : txn'[w] = txn[w]
      BY <3>1, WritesFacts
    <3>3. Transacting(c)'
      BY <2>2, <3>1, <3>2, GoesFacts DEF Transacting
    <3>4. \A d \in Calls \ {c} : Transacting(d)'
      BY <2>2, <3>2, GoesFacts DEF Transactions, Transacting
    <3>5. ReaderEnds'
      BY <3>2 DEF Transactions, ReaderEnds
    <3> QED
      BY <3>3, <3>4, <3>5 DEF Transactions
  <2> QED
    BY <1>3, <2>1, <2>2 DEF Insert
<1>4. ASSUME NEW c \in Calls, InsertFails(c)
      PROVE  Transactions'
  BY <1>4, EndsFacts DEF InsertFails, Transactions, Transacting, ReaderEnds, Writers, Open
<1>5. ASSUME NEW c \in Calls, Commit(c)
      PROVE  Transactions'
  <2>1. Commits(c) /\ txn[c] # None
    BY <1>5 DEF Commit, Transactions, Transacting
  <2>2. \A d \in Calls \ {c} : Transacting(d)'
    BY <1>5, <2>1, CommitsFacts, OthersUntouched, GoesFacts DEF Commit, Transactions,
       Transacting
  <2>3. Transacting(c)'
    BY <1>5, <2>1, CommitsFacts, GoesFacts DEF Commit, Transactions, Transacting
  <2>4. ReaderEnds'
    BY <1>5, <2>1, CommitsFacts, OthersUntouched DEF Transactions, ReaderEnds
  <2> QED
    BY <2>2, <2>3, <2>4 DEF Transactions
<1>6. ASSUME NEW c \in Calls, CommitFails(c)
      PROVE  Transactions'
  <2>1. CASE Commits(c)
    <3>1. txn[c] # None
      BY <1>6 DEF CommitFails, Transactions, Transacting
    <3>2. \A d \in Calls \ {c} : Transacting(d)'
      BY <1>6, <2>1, <3>1, CommitsFacts, OthersUntouched, EndsFacts
      DEF CommitFails, Transactions, Transacting
    <3>3. Transacting(c)'
      BY <1>6, <2>1, <3>1, CommitsFacts, EndsFacts DEF CommitFails, Transactions,
         Transacting
    <3>4. ReaderEnds'
      BY <1>6, <2>1, <3>1, CommitsFacts, OthersUntouched DEF Transactions, ReaderEnds
    <3> QED
      BY <3>2, <3>3, <3>4 DEF Transactions
  <2>2. CASE RollsBack(c)
    BY <1>6, <2>2, RollsBackFacts, EndsFacts
    DEF CommitFails, Transactions, Transacting, ReaderEnds, Open
  <2> QED
    BY <1>6, <2>1, <2>2 DEF CommitFails
<1>7. ASSUME NEW c \in Calls, Finalize(c)
      PROVE  Transactions'
  <2>1. CASE UNCHANGED tables /\ Ends(c)
    BY <1>7, <2>1, EndsFacts DEF Finalize, Transactions, Transacting, ReaderEnds
  <2>2. CASE Goes(c, "end")
    <3> DEFINE t == call[c].result
    <3>1. /\ call[c].op \in Operations /\ t \in {"started"} \cup Terminal
          /\ Writes(c, call[c].op, t)
          /\ status[call[c].op] = "executing"
      BY <1>7, <2>2, OpPresent, TerminalUnknown, ResultReported, EndsFacts,
         GoesFacts DEF Finalize
    <3>2. /\ txn'[c] # None /\ txn'[c].op = call[c].op /\ txn'[c].type = t
          /\ status' = status /\ \A w \in Writers \ {c} : txn'[w] = txn[w]
      BY <3>1, WritesFacts
    <3>3. Transacting(c)'
      BY <2>2, <3>1, <3>2, GoesFacts DEF Transacting
    <3>4. \A d \in Calls \ {c} : Transacting(d)'
      BY <2>2, <3>2, GoesFacts DEF Transactions, Transacting
    <3>5. ReaderEnds'
      BY <3>2 DEF Transactions, ReaderEnds
    <3> QED
      BY <3>3, <3>4, <3>5 DEF Transactions
  <2> QED
    BY <1>7, <2>1, <2>2 DEF Finalize
<1>8. ASSUME NEW c \in Calls, FinalizeFails(c)
      PROVE  Transactions'
  BY <1>8, EndsFacts DEF FinalizeFails, Transactions, Transacting, ReaderEnds, Writers, Open
<1>9. ASSUME NEW c \in Calls, FinalizeCommit(c)
      PROVE  Transactions'
  <2>1. Commits(c) /\ txn[c] # None
    BY <1>9 DEF FinalizeCommit, Transactions, Transacting
  <2>2. \A d \in Calls \ {c} : Transacting(d)'
    BY <1>9, <2>1, CommitsFacts, OthersUntouched, EndsFacts DEF FinalizeCommit,
       Transactions, Transacting
  <2>3. Transacting(c)'
    BY <1>9, <2>1, CommitsFacts, EndsFacts DEF FinalizeCommit, Transactions, Transacting
  <2>4. ReaderEnds'
    BY <1>9, <2>1, CommitsFacts, OthersUntouched DEF Transactions, ReaderEnds
  <2> QED
    BY <2>2, <2>3, <2>4 DEF Transactions
<1>10. ASSUME NEW c \in Calls, Crash(c)
      PROVE  Transactions'
  BY <1>10, RollsBackFacts, EndsFacts DEF Crash, Transactions, Transacting, ReaderEnds,
     Writers, Open
<1>11. ASSUME NEW o \in Operations, Age(o)
      PROVE  Transactions'
  BY <1>11 DEF Age, Transactions, Transacting, ReaderEnds, Writers, Open
<1>12. ASSUME NEW o \in Operations, Declare(o)
      PROVE  Transactions'
  BY <1>12, WritesFacts, TerminalUnknown DEF Declare, MayWrite, Transactions, Transacting,
     ReaderEnds, Writers, Open
<1>13. ASSUME Poll
      PROVE  Transactions'
  BY <1>13 DEF Poll, Transactions, Transacting, ReaderEnds, Writers, Open
<1>14. ASSUME Declared
      PROVE  Transactions'
  <2>1. \A d \in Calls : Transacting(d)'
    BY <1>14, CommitsFacts, OthersUntouched DEF Declared, Transactions, Transacting
  <2>2. ReaderEnds'
    BY <1>14, CommitsFacts DEF Declared, ReaderEnds
  <2> QED
    BY <2>1, <2>2 DEF Transactions
<1>15. ASSUME Page
      PROVE  Transactions'
  BY <1>15 DEF Page, Transactions, Transacting, ReaderEnds, Writers, Open
<1>16. ASSUME PollFails
      PROVE  Transactions'
  BY <1>16, RollsBackFacts DEF PollFails, Transactions, Transacting, ReaderEnds, Writers,
     Open
<1>17. CASE UNCHANGED vars
  BY <1>17 DEF vars, Transactions, Transacting, ReaderEnds, Writers, Open
<1> QED
  BY <1>1, <1>2, <1>3, <1>4, <1>5, <1>6, <1>7, <1>8, <1>9, <1>10, <1>11, <1>12, <1>13,
     <1>14, <1>15, <1>16, <1>17 DEF Next

LEMMA OwnersNext ==
    ASSUME TypeOK, Transactions, Owners, Outcomes, [Next]_vars
    PROVE  Owners'
<1> USE AuditAssumption, NoneIsNoEvent DEF tables, view, Writers
<1>1. ASSUME NEW c \in Calls, NEW o \in Operations, Request(c, o)
      PROVE  Owners'
  BY <1>1, EndsFacts, RequestFacts DEF Request, Owners, Transactions, Transacting, Writers,
     Open
<1>2. ASSUME NEW c \in Calls, NEW r \in {"succeeded", "failed"}, RunTool(c, r)
      PROVE  Owners'
  BY <1>2, RunFacts DEF RunTool, Owners, Transactions, Transacting, Writers, Open
<1>3. ASSUME NEW c \in Calls, Insert(c)
      PROVE  Owners'
  BY <1>3, WritesFacts, GoesFacts, EndsFacts, OpPresent
  DEF Insert, MayWrite, Owners, Outcomes, Transactions, Transacting, Writers, Open
<1>4. ASSUME NEW c \in Calls, InsertFails(c)
      PROVE  Owners'
  BY <1>4, EndsFacts DEF InsertFails, Owners, Transactions, Transacting, Writers, Open
<1>5. ASSUME NEW c \in Calls, Commit(c)
      PROVE  Owners'
  BY <1>5, CommitsFacts, GoesFacts DEF Commit, Owners, Transactions, Transacting, Writers,
     Open
<1>6. ASSUME NEW c \in Calls, CommitFails(c)
      PROVE  Owners'
  BY <1>6, CommitsFacts, RollsBackFacts, EndsFacts DEF CommitFails, Owners, Transactions,
     Transacting, Writers, Open
<1>7. ASSUME NEW c \in Calls, Finalize(c)
      PROVE  Owners'
  BY <1>7, WritesFacts, GoesFacts, EndsFacts, ResultReported, OpPresent DEF Finalize,
     MayWrite, Owners, Transactions, Transacting, Writers, Open
<1>8. ASSUME NEW c \in Calls, FinalizeFails(c)
      PROVE  Owners'
  BY <1>8, EndsFacts DEF FinalizeFails, Owners, Transactions, Transacting, Writers, Open
<1>9. ASSUME NEW c \in Calls, FinalizeCommit(c)
      PROVE  Owners'
  BY <1>9, CommitsFacts, EndsFacts DEF FinalizeCommit, Owners, Transactions, Transacting,
     Writers, Open
<1>10. ASSUME NEW c \in Calls, Crash(c)
      PROVE  Owners'
  BY <1>10, RollsBackFacts, EndsFacts DEF Crash, Owners, Transactions, Transacting,
     Writers, Open
<1>11. ASSUME NEW o \in Operations, Age(o)
      PROVE  Owners'
  BY <1>11 DEF Age, Owners, Transactions, Transacting, Writers, Open
<1>12. ASSUME NEW o \in Operations, Declare(o)
      PROVE  Owners'
  BY <1>12, WritesFacts, TerminalUnknown DEF Declare, MayWrite, Owners, Transactions,
     Transacting, Writers, Open
<1>13. ASSUME Poll
      PROVE  Owners'
  BY <1>13 DEF Poll, Owners, Transactions, Transacting, Writers, Open
<1>14. ASSUME Declared
      PROVE  Owners'
  BY <1>14, CommitsFacts DEF Declared, Owners, Transactions, Transacting, Writers, Open
<1>15. ASSUME Page
      PROVE  Owners'
  BY <1>15 DEF Page, Owners, Transactions, Transacting, Writers, Open
<1>16. ASSUME PollFails
      PROVE  Owners'
  BY <1>16, RollsBackFacts DEF PollFails, Owners, Transactions, Transacting, Writers, Open
<1>17. CASE UNCHANGED vars
  BY <1>17 DEF vars, Owners, Transactions, Transacting, Writers, Open
<1> QED
  BY <1>1, <1>2, <1>3, <1>4, <1>5, <1>6, <1>7, <1>8, <1>9, <1>10, <1>11, <1>12, <1>13,
     <1>14, <1>15, <1>16, <1>17 DEF Next

LEMMA OutcomesNext ==
    ASSUME TypeOK, Transactions, Owners, Outcomes, [Next]_vars
    PROVE  Outcomes'
<1> USE AuditAssumption, NoneIsNoEvent DEF tables, view, Writers
<1>1. ASSUME NEW c \in Calls, NEW o \in Operations, Request(c, o)
      PROVE  Outcomes'
  BY <1>1, EndsFacts, RequestFacts DEF Request, Outcomes, Owners, Transactions,
     Transacting, Writers, TypeOK
<1>2. ASSUME NEW c \in Calls, NEW r \in {"succeeded", "failed"}, RunTool(c, r)
      PROVE  Outcomes'
  BY <1>2, RunFacts DEF RunTool, Outcomes, Owners, Transactions, Transacting, Writers,
     TypeOK
<1>3. ASSUME NEW c \in Calls, Insert(c)
      PROVE  Outcomes'
  BY <1>3, WritesFacts, GoesFacts, EndsFacts, OpPresent DEF Insert, MayWrite, Outcomes,
     Owners, Transactions, Transacting, Writers, TypeOK
<1>4. ASSUME NEW c \in Calls, InsertFails(c)
      PROVE  Outcomes'
  BY <1>4, EndsFacts DEF InsertFails, Outcomes, Owners, Transactions, Transacting, Writers,
     TypeOK
<1>5. ASSUME NEW c \in Calls, Commit(c)
      PROVE  Outcomes'
  BY <1>5, CommitsFacts, GoesFacts DEF Commit, Outcomes, Owners, Transactions, Transacting,
     Writers, TypeOK
<1>6. ASSUME NEW c \in Calls, CommitFails(c)
      PROVE  Outcomes'
  BY <1>6, CommitsFacts, RollsBackFacts, EndsFacts DEF CommitFails, Outcomes, Owners,
     Transactions, Transacting, Writers, TypeOK
<1>7. ASSUME NEW c \in Calls, Finalize(c)
      PROVE  Outcomes'
  BY <1>7, WritesFacts, GoesFacts, EndsFacts, ResultReported, OpPresent DEF Finalize,
     MayWrite, Outcomes, Owners, Transactions, Transacting, Writers, TypeOK
<1>8. ASSUME NEW c \in Calls, FinalizeFails(c)
      PROVE  Outcomes'
  BY <1>8, EndsFacts DEF FinalizeFails, Outcomes, Owners, Transactions, Transacting,
     Writers, TypeOK
<1>9. ASSUME NEW c \in Calls, FinalizeCommit(c)
      PROVE  Outcomes'
  BY <1>9, CommitsFacts, EndsFacts DEF FinalizeCommit, Outcomes, Owners, Transactions,
     Transacting, Writers, TypeOK
<1>10. ASSUME NEW c \in Calls, Crash(c)
      PROVE  Outcomes'
  BY <1>10, RollsBackFacts, EndsFacts DEF Crash, Outcomes, Owners, Transactions,
     Transacting, Writers, TypeOK
<1>11. ASSUME NEW o \in Operations, Age(o)
      PROVE  Outcomes'
  BY <1>11 DEF Age, Outcomes, Owners, Transactions, Transacting, Writers, TypeOK
<1>12. ASSUME NEW o \in Operations, Declare(o)
      PROVE  Outcomes'
  BY <1>12, WritesFacts, TerminalUnknown DEF Declare, MayWrite, Outcomes, Owners,
     Transactions, Transacting, Writers, TypeOK
<1>13. ASSUME Poll
      PROVE  Outcomes'
  BY <1>13 DEF Poll, Outcomes, Owners, Transactions, Transacting, Writers, TypeOK
<1>14. ASSUME Declared
      PROVE  Outcomes'
  BY <1>14, CommitsFacts DEF Declared, Outcomes, Owners, Transactions, Transacting,
     Writers, TypeOK
<1>15. ASSUME Page
      PROVE  Outcomes'
  BY <1>15 DEF Page, Outcomes, Owners, Transactions, Transacting, Writers, TypeOK
<1>16. ASSUME PollFails
      PROVE  Outcomes'
  BY <1>16, RollsBackFacts DEF PollFails, Outcomes, Owners, Transactions, Transacting,
     Writers, TypeOK
<1>17. CASE UNCHANGED vars
  BY <1>17 DEF vars, Outcomes, Owners, Transactions, Transacting, Writers, TypeOK
<1> QED
  BY <1>1, <1>2, <1>3, <1>4, <1>5, <1>6, <1>7, <1>8, <1>9, <1>10, <1>11, <1>12, <1>13,
     <1>14, <1>15, <1>16, <1>17 DEF Next

\* The events of open transactions have numbers as ids.
LEMMA OpenIds ==
    ASSUME TypeOK
    PROVE  \A w \in Open : w \in Writers /\ txn[w] \in Event /\ txn[w].id \in Nat
  BY OpenEvents, EventShape DEF Open

LEMMA FeedIds == ASSUME TypeOK PROVE \A e \in feed : e \in Event /\ e.id \in Nat
  BY EventShape DEF TypeOK

LEMMA SameIds == ASSUME Ids, UNCHANGED tables PROVE Ids'
  BY DEF Ids, tables, Open

LEMMA WritesIds ==
    ASSUME TypeOK, Ids, NEW w \in Writers, NEW o \in Operations,
           NEW t \in {"started"} \cup Terminal, Writes(w, o, t)
    PROVE  Ids'
<1>1. /\ txn'[w] # None /\ txn'[w].id = lastId + 1
      /\ \A v \in Writers \ {w} : txn'[v] = txn[v]
      /\ lastId' = lastId + 1 /\ feed' = feed
  BY WritesFacts
<1>2. \A v \in Open' \ {w} : v \in Open /\ txn'[v] = txn[v]
  BY <1>1 DEF Open
<1>3. lastId \in Nat
  BY DEF TypeOK
<1>4. \A v \in Open' : /\ txn'[v].id \in Nat /\ txn'[v].id <= lastId'
                       /\ v # w => txn'[v].id <= lastId
  BY <1>1, <1>2, <1>3, OpenIds DEF Ids
<1>5. \A e \in feed : e.id \in Nat /\ e.id <= lastId
  BY FeedIds DEF Ids
<1>6. \A v \in Open', e \in feed' : e.id # txn'[v].id
  BY <1>1, <1>2, <1>3, <1>5 DEF Ids
<1>7. \A v, x \in Open' : v # x => txn'[v].id # txn'[x].id
  BY <1>1, <1>2, <1>3, <1>4 DEF Ids
<1>8. IsFiniteSet(feed') /\ \A e \in feed' : e.id <= lastId'
  BY <1>1, <1>3, <1>5 DEF Ids
<1> QED
  BY <1>4, <1>6, <1>7, <1>8 DEF Ids

LEMMA CommitsIds ==
    ASSUME TypeOK, Ids, NEW w \in Writers, txn[w] # None, Commits(w)
    PROVE  Ids'
<1>1. /\ txn'[w] = None /\ \A v \in Writers \ {w} : txn'[v] = txn[v]
      /\ feed' = feed \cup {txn[w]} /\ lastId' = lastId
  BY CommitsFacts
<1>2. IsFiniteSet(feed')
  BY <1>1, FS_AddElement DEF Ids
<1>3. w \in Open /\ \A v \in Open' : v \in Open \ {w} /\ txn'[v] = txn[v]
  BY <1>1 DEF Open
<1> QED
  BY <1>1, <1>2, <1>3 DEF Ids

LEMMA RollsBackIds ==
    ASSUME TypeOK, Ids, NEW w \in Writers, RollsBack(w)
    PROVE  Ids'
<1>1. /\ txn'[w] = None /\ \A v \in Writers \ {w} : txn'[v] = txn[v]
      /\ feed' = feed /\ lastId' = lastId
  BY RollsBackFacts
<1>2. \A v \in Open' : v \in Open /\ txn'[v] = txn[v]
  BY <1>1 DEF Open
<1> QED
  BY <1>1, <1>2 DEF Ids

LEMMA IdsNext ==
    ASSUME TypeOK, Transactions, Outcomes, Ids, [Next]_vars
    PROVE  Ids'
<1>1. ASSUME NEW c \in Calls, NEW o \in Operations, Request(c, o)
      PROVE  Ids'
  BY <1>1, SameIds DEF Request
<1>2. ASSUME NEW c \in Calls, NEW r \in {"succeeded", "failed"}, RunTool(c, r)
      PROVE  Ids'
  BY <1>2, SameIds DEF RunTool
<1>3. ASSUME NEW c \in Calls, Insert(c)
      PROVE  Ids'
  BY <1>3, SameIds, WritesIds, OpPresent, TerminalUnknown DEF Insert, Writers
<1>4. ASSUME NEW c \in Calls, InsertFails(c)
      PROVE  Ids'
  BY <1>4, SameIds DEF InsertFails
<1>5. ASSUME NEW c \in Calls, Commit(c)
      PROVE  Ids'
  BY <1>5, CommitsIds DEF Commit, Transactions, Transacting, Writers
<1>6. ASSUME NEW c \in Calls, CommitFails(c)
      PROVE  Ids'
  BY <1>6, CommitsIds, RollsBackIds DEF CommitFails, Transactions, Transacting, Writers
<1>7. ASSUME NEW c \in Calls, Finalize(c)
      PROVE  Ids'
  BY <1>7, SameIds, WritesIds, OpPresent, ResultReported DEF Finalize, Writers
<1>8. ASSUME NEW c \in Calls, FinalizeFails(c)
      PROVE  Ids'
  BY <1>8, SameIds DEF FinalizeFails
<1>9. ASSUME NEW c \in Calls, FinalizeCommit(c)
      PROVE  Ids'
  BY <1>9, CommitsIds DEF FinalizeCommit, Transactions, Transacting, Writers
<1>10. ASSUME NEW c \in Calls, Crash(c)
      PROVE  Ids'
  BY <1>10, RollsBackIds DEF Crash, Writers
<1>11. ASSUME NEW o \in Operations, Age(o)
      PROVE  Ids'
  BY <1>11 DEF Age, Ids, Open
<1>12. ASSUME NEW o \in Operations, Declare(o)
      PROVE  Ids'
  BY <1>12, SameIds, WritesIds, TerminalUnknown DEF Declare, Writers
<1>13. ASSUME Poll
      PROVE  Ids'
  BY <1>13, SameIds DEF Poll
<1>14. ASSUME Declared
      PROVE  Ids'
  BY <1>14, CommitsIds DEF Declared, Writers
<1>15. ASSUME Page
      PROVE  Ids'
  BY <1>15, SameIds DEF Page
<1>16. ASSUME PollFails
      PROVE  Ids'
  BY <1>16, RollsBackIds DEF PollFails, Writers
<1>17. CASE UNCHANGED vars
  BY <1>17, SameIds DEF vars
<1> QED
  BY <1>1, <1>2, <1>3, <1>4, <1>5, <1>6, <1>7, <1>8, <1>9, <1>10, <1>11, <1>12, <1>13,
     <1>14, <1>15, <1>16, <1>17 DEF Next

LEMMA SameBehind ==
    ASSUME Behind, UNCHANGED <<tables, database, cursor, late>> PROVE Behind'
  BY DEF Behind, tables, Open

LEMMA WritesBehind ==
    ASSUME TypeOK, Behind, NEW w \in Writers, NEW o \in Operations,
           NEW t \in {"started"} \cup Terminal, MayWrite(w, o), Writes(w, o, t),
           UNCHANGED <<database, cursor, late>>
    PROVE  Behind'
<1>1. /\ txn'[w] # None /\ txn'[w].id = lastId + 1
      /\ \A v \in Writers \ {w} : txn'[v] = txn[v]
      /\ lastId' = lastId + 1
  BY WritesFacts
<1>2. \A v \in Open' \ {w} : v \in Open /\ txn'[v] = txn[v]
  BY <1>1 DEF Open
<1>3. lastId \in Nat /\ cursor \in Nat /\ cursor <= lastId
  BY DEF TypeOK, Behind
<1>4. cursor' <= lastId' /\ ~(txn'[w].id <= cursor')
  BY <1>1, <1>3
<1>5. ASSUME database = "sqlite", NEW v \in Open', NEW x \in Open'
      PROVE  v = x /\ txn'[v].id = lastId'
  <2>1. Open \ {w} = {}
    BY <1>5 DEF MayWrite
  <2>2. v = w /\ x = w
    BY <1>2, <2>1
  <2> QED
    BY <1>1, <2>2
<1>6. \A v \in Open' : txn'[v].id <= cursor' => database = "mysql" /\ txn'[v].id \in late
  BY <1>2, <1>4 DEF Behind
<1> QED
  BY <1>4, <1>5, <1>6 DEF Behind

LEMMA CommitsBehind ==
    ASSUME TypeOK, Behind, NEW w \in Writers, txn[w] # None, Commits(w),
           UNCHANGED <<database, cursor, late>>
    PROVE  Behind'
<1>1. /\ txn'[w] = None /\ \A v \in Writers \ {w} : txn'[v] = txn[v]
      /\ lastId' = lastId
  BY CommitsFacts
<1>2. \A v \in Open' : v \in Open /\ txn'[v] = txn[v]
  BY <1>1 DEF Open
<1> QED
  BY <1>1, <1>2 DEF Behind

LEMMA RollsBackBehind ==
    ASSUME TypeOK, Behind, NEW w \in Writers, RollsBack(w),
           UNCHANGED <<database, cursor, late>>
    PROVE  Behind'
<1>1. /\ txn'[w] = None /\ \A v \in Writers \ {w} : txn'[v] = txn[v]
      /\ lastId' = lastId
  BY RollsBackFacts
<1>2. \A v \in Open' : v \in Open /\ txn'[v] = txn[v]
  BY <1>1 DEF Open
<1> QED
  BY <1>1, <1>2 DEF Behind

\* The cursor does not pass the last id, and on SQLite no open transaction.
LEMMA PageBehind == ASSUME TypeOK, Ids, Behind, Page PROVE Behind'
<1>1. /\ cursor' = NextCursor /\ lastId' = lastId /\ txn' = txn /\ database' = database
      /\ late' = late \cup {i \in {txn[w].id : w \in Open} : i <= cursor'}
  BY DEF Page, tables
<1>2. Open' = Open
  BY <1>1 DEF Open
<1>3. cursor' = cursor \/ \E e \in feed : cursor' = e.id
  BY <1>1, CursorMoves, PageIsNew
<1>4. cursor' <= lastId' /\ cursor' \in Nat
  BY <1>1, <1>3, CursorMoves DEF Ids, Behind
<1>5. ASSUME NEW w \in Open', txn'[w].id <= cursor'
      PROVE  database' = "mysql" /\ txn'[w].id \in late'
  <2>1. w \in Open /\ txn[w].id \in Nat /\ txn[w].id <= cursor'
    BY <1>1, <1>2, <1>5, OpenIds
  <2>2. txn[w].id \in late'
    BY <1>1, <2>1
  <2>3. CASE txn[w].id <= cursor
    BY <1>1, <2>1, <2>2, <2>3 DEF Behind
  <2>4. CASE ~(txn[w].id <= cursor)
    <3>1. PICK e \in feed : cursor' = e.id
      BY <1>3, <2>1, <2>4
    <3>2. e.id # txn[w].id /\ e.id <= lastId
      BY <2>1 DEF Ids
    <3>3. txn[w].id # lastId
      BY <1>4, <2>1, <3>1, <3>2 DEF TypeOK
    <3>4. database # "sqlite"
      BY <2>1, <3>3 DEF Behind
    <3> QED
      BY <1>1, <2>2, <3>4 DEF TypeOK
  <2> QED
    BY <2>3, <2>4
<1> QED
  BY <1>1, <1>2, <1>4, <1>5 DEF Behind

LEMMA BehindNext ==
    ASSUME TypeOK, Transactions, Outcomes, Ids, Behind, [Next]_vars
    PROVE  Behind'
<1>1. ASSUME NEW c \in Calls, NEW o \in Operations, Request(c, o)
      PROVE  Behind'
  BY <1>1, SameBehind DEF Request, view
<1>2. ASSUME NEW c \in Calls, NEW r \in {"succeeded", "failed"}, RunTool(c, r)
      PROVE  Behind'
  BY <1>2, SameBehind DEF RunTool, view
<1>3. ASSUME NEW c \in Calls, Insert(c)
      PROVE  Behind'
  BY <1>3, SameBehind, WritesBehind, OpPresent, TerminalUnknown DEF Insert, Writers, view
<1>4. ASSUME NEW c \in Calls, InsertFails(c)
      PROVE  Behind'
  BY <1>4, SameBehind DEF InsertFails, view
<1>5. ASSUME NEW c \in Calls, Commit(c)
      PROVE  Behind'
  BY <1>5, CommitsBehind DEF Commit, Transactions, Transacting, Writers, view
<1>6. ASSUME NEW c \in Calls, CommitFails(c)
      PROVE  Behind'
  BY <1>6, CommitsBehind, RollsBackBehind DEF CommitFails, Transactions, Transacting,
     Writers, view
<1>7. ASSUME NEW c \in Calls, Finalize(c)
      PROVE  Behind'
  BY <1>7, SameBehind, WritesBehind, OpPresent, ResultReported DEF Finalize, Writers, view
<1>8. ASSUME NEW c \in Calls, FinalizeFails(c)
      PROVE  Behind'
  BY <1>8, SameBehind DEF FinalizeFails, view
<1>9. ASSUME NEW c \in Calls, FinalizeCommit(c)
      PROVE  Behind'
  BY <1>9, CommitsBehind DEF FinalizeCommit, Transactions, Transacting, Writers, view
<1>10. ASSUME NEW c \in Calls, Crash(c)
      PROVE  Behind'
  BY <1>10, RollsBackBehind DEF Crash, Writers, view
<1>11. ASSUME NEW o \in Operations, Age(o)
      PROVE  Behind'
  BY <1>11 DEF Age, Behind, Open, view
<1>12. ASSUME NEW o \in Operations, Declare(o)
      PROVE  Behind'
  BY <1>12, SameBehind, WritesBehind, TerminalUnknown DEF Declare, Writers
<1>13. ASSUME Poll
      PROVE  Behind'
  BY <1>13, SameBehind DEF Poll
<1>14. ASSUME Declared
      PROVE  Behind'
  BY <1>14, CommitsBehind DEF Declared, Writers
<1>15. ASSUME Page
      PROVE  Behind'
  BY <1>15, PageBehind
<1>16. ASSUME PollFails
      PROVE  Behind'
  BY <1>16, RollsBackBehind DEF PollFails, Writers
<1>17. CASE UNCHANGED vars
  BY <1>17, SameBehind DEF vars, view
<1> QED
  BY <1>1, <1>2, <1>3, <1>4, <1>5, <1>6, <1>7, <1>8, <1>9, <1>10, <1>11, <1>12, <1>13,
     <1>14, <1>15, <1>16, <1>17 DEF Next

-----------------------------------------------------------------------------
(* The events the consumer is given.                                       *)

LEMMA SameFeed ==
    ASSUME NothingSkipped, UNCHANGED <<feed, database, cursor, got, late>>
    PROVE  NothingSkipped'
  BY DEF NothingSkipped

\* What is committed behind the cursor was open when the cursor passed it.
LEMMA CommitsFeed ==
    ASSUME TypeOK, Behind, NothingSkipped, NEW w \in Writers, txn[w] # None, Commits(w),
           UNCHANGED <<database, cursor, got, late>>
    PROVE  NothingSkipped'
<1>1. feed' = feed \cup {txn[w]} /\ w \in Open
  BY CommitsFacts DEF Open
<1> QED
  BY <1>1 DEF Behind, NothingSkipped

\* An event between the old cursor and the new one is on the page.
LEMMA PageFeed == ASSUME TypeOK, Ids, NothingSkipped, Page PROVE NothingSkipped'
<1>1. /\ cursor' = NextCursor /\ feed' = feed /\ database' = database
      /\ got' = got \cup {e.id : e \in PageAfter(cursor)} /\ late \subseteq late'
  BY DEF Page, tables
<1> SUFFICES ASSUME NEW e \in feed, e.id <= cursor', ~(e.id <= cursor)
             PROVE  e \in PageAfter(cursor)
  BY <1>1 DEF NothingSkipped
<1>2. e.id \in Nat /\ cursor \in Nat /\ e.id > cursor
  BY FeedIds DEF TypeOK
<1>3. PICK l \in PageAfter(cursor) : cursor' = l.id
  BY <1>1, CursorMoves
<1> DEFINE newer == {f \in feed : f.id > cursor}
           Before(k) == {f \in newer : f.id < k}
<1>4. l \in newer /\ l.id \in Nat /\ Cardinality(Before(l.id)) < Limit
  BY <1>3, FeedIds DEF PageAfter
<1>5. Before(e.id) \subseteq Before(l.id)
  BY <1>2, <1>3, <1>4, FeedIds
<1>6. IsFiniteSet(Before(l.id))
  BY FS_Subset DEF Ids
<1>7. /\ Cardinality(Before(e.id)) \in Nat /\ Cardinality(Before(l.id)) \in Nat
      /\ Cardinality(Before(e.id)) <= Cardinality(Before(l.id))
  <2> HIDE DEF Before
  <2> QED
    BY <1>5, <1>6, FS_Subset, FS_CardinalityType
<1>8. Cardinality(Before(e.id)) < Limit
  <2> HIDE DEF Before
  <2> QED
    BY <1>4, <1>7, AuditAssumption
<1>9. e \in newer
  BY <1>2
<1> QED
  BY <1>8, <1>9 DEF PageAfter

LEMMA NothingSkippedNext ==
    ASSUME TypeOK, Transactions, Ids, Behind, NothingSkipped, [Next]_vars
    PROVE  NothingSkipped'
<1>1. ASSUME NEW c \in Calls, NEW o \in Operations, Request(c, o)
      PROVE  NothingSkipped'
  BY <1>1, SameFeed DEF Request, tables, view
<1>2. ASSUME NEW c \in Calls, NEW r \in {"succeeded", "failed"}, RunTool(c, r)
      PROVE  NothingSkipped'
  BY <1>2, SameFeed DEF RunTool, tables, view
<1>3. ASSUME NEW c \in Calls, Insert(c)
      PROVE  NothingSkipped'
  BY <1>3, SameFeed DEF Insert, Writes, tables, view
<1>4. ASSUME NEW c \in Calls, InsertFails(c)
      PROVE  NothingSkipped'
  BY <1>4, SameFeed DEF InsertFails, tables, view
<1>5. ASSUME NEW c \in Calls, Commit(c)
      PROVE  NothingSkipped'
  BY <1>5, CommitsFeed DEF Commit, view, Transactions, Transacting, Writers
<1>6. ASSUME NEW c \in Calls, CommitFails(c)
      PROVE  NothingSkipped'
  BY <1>6, CommitsFeed, SameFeed DEF CommitFails, RollsBack, view, Transactions,
     Transacting, Writers
<1>7. ASSUME NEW c \in Calls, Finalize(c)
      PROVE  NothingSkipped'
  BY <1>7, SameFeed DEF Finalize, Writes, tables, view
<1>8. ASSUME NEW c \in Calls, FinalizeFails(c)
      PROVE  NothingSkipped'
  BY <1>8, SameFeed DEF FinalizeFails, tables, view
<1>9. ASSUME NEW c \in Calls, FinalizeCommit(c)
      PROVE  NothingSkipped'
  BY <1>9, CommitsFeed DEF FinalizeCommit, view, Transactions, Transacting, Writers
<1>10. ASSUME NEW c \in Calls, Crash(c)
      PROVE  NothingSkipped'
  BY <1>10, SameFeed DEF Crash, RollsBack, view
<1>11. ASSUME NEW o \in Operations, Age(o)
      PROVE  NothingSkipped'
  BY <1>11, SameFeed DEF Age, view
<1>12. ASSUME NEW o \in Operations, Declare(o)
      PROVE  NothingSkipped'
  BY <1>12, SameFeed DEF Declare, Writes, tables
<1>13. ASSUME Poll
      PROVE  NothingSkipped'
  BY <1>13, SameFeed DEF Poll, tables
<1>14. ASSUME Declared
      PROVE  NothingSkipped'
  BY <1>14, CommitsFeed DEF Declared, Writers
<1>15. ASSUME Page
      PROVE  NothingSkipped'
  BY <1>15, PageFeed
<1>16. ASSUME PollFails
      PROVE  NothingSkipped'
  BY <1>16, SameFeed DEF PollFails, RollsBack
<1>17. CASE UNCHANGED vars
  BY <1>17, SameFeed DEF vars, tables, view
<1> QED
  BY <1>1, <1>2, <1>3, <1>4, <1>5, <1>6, <1>7, <1>8, <1>9, <1>10, <1>11, <1>12, <1>13,
     <1>14, <1>15, <1>16, <1>17 DEF Next

LEMMA IInvInit == Init => IInv
<1> SUFFICES ASSUME Init PROVE IInv
  OBVIOUS
<1>1. Open = {}
  BY DEF Init, Open
<1>2. Transactions
  BY AuditAssumption DEF Init, Transactions, Transacting, ReaderEnds, NoCall, Writers
<1>3. Owners /\ Outcomes
  BY DEF Init, Owners, Outcomes, NoCall
<1>4. IsFiniteSet(feed)
  BY FS_EmptySet DEF Init
<1>5. Ids
  BY <1>1, <1>4 DEF Init, Ids
<1>6. Behind /\ NothingSkipped
  BY <1>1 DEF Init, Behind, NothingSkipped
<1> QED
  BY TypeInit, <1>2, <1>3, <1>5, <1>6 DEF IInv

LEMMA Invariant == Spec => []IInv
<1>1. IInv /\ [Next]_vars => IInv'
  BY TypeNext, TransactionsNext, OwnersNext, OutcomesNext, IdsNext, BehindNext,
     NothingSkippedNext DEF IInv
<1> QED
  BY <1>1, IInvInit, PTL DEF Spec

\* The variables of the audit keep their types.
THEOREM TypeCorrect == Spec => []TypeOK
<1>1. IInv => TypeOK
  BY DEF IInv
<1> QED
  BY <1>1, Invariant, PTL

\* The consumer is given every event its cursor has passed, but for those MySQL
\* commits behind it (list_events, next_cursor).
THEOREM NothingSkippedCorrect == Spec => []NothingSkipped
<1>1. IInv => NothingSkipped
  BY DEF IInv
<1> QED
  BY <1>1, Invariant, PTL

-----------------------------------------------------------------------------
(* The trail                                                               *)

\* How many events of a type there are for an operation.
Count(o, t) == Cardinality({e \in feed : e.op = o /\ e.type = t})

\* The events of AuditTrail.
Counts == [o \in Operations |-> [t \in {"started"} \cup Terminal |-> Count(o, t)]]

LEMMA SameCounts == ASSUME feed' = feed PROVE Counts' = Counts
  BY DEF Counts, Count

LEMMA Stutter == ASSUME UNCHANGED <<status, outcome, feed>> PROVE UNCHANGED Trail!vars
  BY SameCounts DEF Trail!vars, Counts, Count

LEMMA CommitsCounts ==
    ASSUME TypeOK, Ids, NEW w \in Writers, txn[w] # None, Commits(w)
    PROVE  Counts' = [Counts EXCEPT ![txn[w].op][txn[w].type] = @ + 1]
<1>1. PICK x : x = txn[w]
  OBVIOUS
<1>2. x.op \in Operations /\ x.type \in {"started"} \cup Terminal
  BY <1>1, OpenEvents, EventShape
<1>3. feed' = feed \cup {x} /\ x \notin feed /\ IsFiniteSet(feed)
  BY <1>1, CommitsFacts DEF Ids, Open
<1>4. ASSUME NEW o \in Operations, NEW t \in {"started"} \cup Terminal
      PROVE  Count(o, t)' = IF o = x.op /\ t = x.type THEN Count(o, t) + 1 ELSE Count(o, t)
  <2> DEFINE old == {e \in feed : e.op = o /\ e.type = t}
             new == {e \in feed' : e.op = o /\ e.type = t}
  <2>1. CASE o = x.op /\ t = x.type
    <3>1. new = old \cup {x} /\ x \notin old
      BY <1>3, <2>1
    <3>2. IsFiniteSet(old)
      BY <1>3, FS_Subset
    <3> HIDE DEF old, new
    <3>3. Cardinality(new) = Cardinality(old) + 1
      BY <3>1, <3>2, FS_AddElement
    <3> QED
      BY <2>1, <3>3 DEF Count, old, new
  <2>2. CASE ~(o = x.op /\ t = x.type)
    <3>1. new = old
      BY <1>3, <2>2
    <3> QED
      BY <2>2, <3>1 DEF Count
  <2> QED
    BY <2>1, <2>2
<1>5. Counts' = [o \in Operations |-> [t \in {"started"} \cup Terminal |->
                    IF o = x.op /\ t = x.type THEN Count(o, t) + 1 ELSE Count(o, t)]]
  BY <1>4 DEF Counts
<1>6. [Counts EXCEPT ![x.op][x.type] = @ + 1] =
         [o \in Operations |-> [t \in {"started"} \cup Terminal |->
             IF o = x.op /\ t = x.type THEN Count(o, t) + 1 ELSE Count(o, t)]]
  BY <1>2 DEF Counts
<1> QED
  BY <1>1, <1>5, <1>6

\* The commit of a start is a start of AuditTrail, that of an end an end.
LEMMA CommitStarts ==
    ASSUME TypeOK, Ids, NEW w \in Writers, txn[w] # None, Commits(w),
           txn[w].type = "started", status[txn[w].op] = "absent", UNCHANGED outcome
    PROVE  Trail!Next
<1>1. txn[w].op \in Operations
  BY OpenEvents, EventShape
<1>2. Counts' = [Counts EXCEPT ![txn[w].op]["started"] = @ + 1]
  BY CommitsCounts
<1>3. status' = [status EXCEPT ![txn[w].op] = "executing"]
  BY DEF Commits
<1>4. Trail!Start(txn[w].op)
  BY <1>2, <1>3 DEF Trail!Start, Counts, Count
<1> QED
  BY <1>1, <1>4 DEF Trail!Next

LEMMA CommitEnds ==
    ASSUME TypeOK, Ids, NEW w \in Writers, txn[w] # None, Commits(w),
           txn[w].type \in {outcome[txn[w].op], "unknown"}, txn[w].type \in Terminal,
           status[txn[w].op] = "executing", UNCHANGED outcome
    PROVE  Trail!Next
<1>1. txn[w].op \in Operations
  BY OpenEvents, EventShape
<1>2. Counts' = [Counts EXCEPT ![txn[w].op][txn[w].type] = @ + 1]
  BY CommitsCounts
<1>3. status' = [status EXCEPT ![txn[w].op] = txn[w].type]
  BY DEF Commits, Terminal
<1>4. Trail!End(txn[w].op, txn[w].type)
  BY <1>2, <1>3 DEF Trail!End, Counts, Count
<1> QED
  BY <1>1, <1>4 DEF Trail!Next, Trail!Terminal, Terminal

LEMMA RefinementNext ==
    ASSUME IInv, [Next]_vars
    PROVE  [Trail!Next]_Trail!vars
<1> USE DEF IInv
<1>1. ASSUME NEW c \in Calls, NEW o \in Operations, Request(c, o)
      PROVE  [Trail!Next]_Trail!vars
  BY <1>1, Stutter DEF Request, tables
<1>2. ASSUME NEW c \in Calls, NEW r \in {"succeeded", "failed"}, RunTool(c, r)
      PROVE  [Trail!Next]_Trail!vars
  <2>1. call[c].op \in Operations
    BY <1>2, OpPresent DEF RunTool
  <2>2. Trail!Run(call[c].op, r)
    BY <1>2, SameCounts DEF RunTool, Trail!Run, Counts, Count, Outcomes, tables
  <2> QED
    BY <2>1, <2>2 DEF Trail!Next
<1>3. ASSUME NEW c \in Calls, Insert(c)
      PROVE  [Trail!Next]_Trail!vars
  BY <1>3, Stutter DEF Insert, Writes, tables
<1>4. ASSUME NEW c \in Calls, InsertFails(c)
      PROVE  [Trail!Next]_Trail!vars
  BY <1>4, Stutter DEF InsertFails, tables
<1>5. ASSUME NEW c \in Calls, Commit(c)
      PROVE  [Trail!Next]_Trail!vars
  BY <1>5, CommitStarts DEF Commit, Transactions, Transacting, Writers
<1>6. ASSUME NEW c \in Calls, CommitFails(c)
      PROVE  [Trail!Next]_Trail!vars
  BY <1>6, CommitStarts, Stutter DEF CommitFails, RollsBack, Transactions, Transacting,
     Writers
<1>7. ASSUME NEW c \in Calls, Finalize(c)
      PROVE  [Trail!Next]_Trail!vars
  BY <1>7, Stutter DEF Finalize, Writes, tables
<1>8. ASSUME NEW c \in Calls, FinalizeFails(c)
      PROVE  [Trail!Next]_Trail!vars
  BY <1>8, Stutter DEF FinalizeFails, tables
<1>9. ASSUME NEW c \in Calls, FinalizeCommit(c)
      PROVE  [Trail!Next]_Trail!vars
  <2>1. txn[c] # None /\ txn[c].op = call[c].op /\ status[txn[c].op] = "executing"
    BY <1>9 DEF FinalizeCommit, Transactions, Transacting
  <2>2. txn[c].type = outcome[txn[c].op] /\ txn[c].type \in Terminal
    <3>1. call[c].result \in {"none", "succeeded", "failed"}
      BY DEF TypeOK, Call
    <3> QED
      BY <1>9, <2>1, <3>1 DEF FinalizeCommit, Transactions, Transacting, Outcomes, Terminal
  <2> QED
    BY <1>9, <2>1, <2>2, CommitEnds DEF FinalizeCommit, Writers
<1>10. ASSUME NEW c \in Calls, Crash(c)
      PROVE  [Trail!Next]_Trail!vars
  BY <1>10, Stutter DEF Crash, RollsBack
<1>11. ASSUME NEW o \in Operations, Age(o)
      PROVE  [Trail!Next]_Trail!vars
  BY <1>11, Stutter DEF Age
<1>12. ASSUME NEW o \in Operations, Declare(o)
      PROVE  [Trail!Next]_Trail!vars
  BY <1>12, Stutter DEF Declare, Writes, tables
<1>13. ASSUME Poll
      PROVE  [Trail!Next]_Trail!vars
  BY <1>13, Stutter DEF Poll, tables
<1>14. ASSUME Declared
      PROVE  [Trail!Next]_Trail!vars
  BY <1>14, CommitEnds DEF Declared, Transactions, ReaderEnds, Terminal, Writers
<1>15. ASSUME Page
      PROVE  [Trail!Next]_Trail!vars
  BY <1>15, Stutter DEF Page, tables
<1>16. ASSUME PollFails
      PROVE  [Trail!Next]_Trail!vars
  BY <1>16, Stutter DEF PollFails, RollsBack
<1>17. CASE UNCHANGED vars
  BY <1>17, Stutter DEF vars, tables
<1> QED
  BY <1>1, <1>2, <1>3, <1>4, <1>5, <1>6, <1>7, <1>8, <1>9, <1>10, <1>11, <1>12, <1>13,
     <1>14, <1>15, <1>16, <1>17 DEF Next

\* The audit keeps the trail of AuditTrail: a tool runs once at most, after its
\* start is recorded, and its end is recorded once and is true (begin_operation,
\* finalize_operation, materialize_stale_unknown).
THEOREM Refinement == Spec => KeepsTrail
<1>1. Init => Trail!Init
  <2> SUFFICES ASSUME Init PROVE Trail!Init
    OBVIOUS
  <2>1. \A o \in Operations, t \in {"started"} \cup Terminal : Count(o, t) = 0
    <3>1. \A o, t : {e \in feed : e.op = o /\ e.type = t} = {}
      BY DEF Init
    <3> QED
      BY <3>1, FS_EmptySet DEF Count
  <2>2. Counts = [o \in Operations |-> [t \in Trail!Types |-> 0]]
    BY <2>1 DEF Counts, Trail!Types, Trail!Terminal, Terminal
  <2> QED
    BY <2>2 DEF Init, Trail!Init, Counts, Count
<1>2. IInv /\ [Next]_vars => [Trail!Next]_Trail!vars
  BY RefinementNext
<1> QED
  BY <1>1, <1>2, Invariant, PTL DEF Spec, KeepsTrail, Trail!Spec

-----------------------------------------------------------------------------
(***************************************************************************)
(* What the promise of AuditTrail means for who reads the events           *)
(***************************************************************************)

\* Two events of an operation are its start and its one end; an end has a start, and
\* one that is not "unknown" says what the tool did.
TrailTrue ==
    /\ \A e, f \in feed :
          e.op = f.op /\ e # f => \E x \in {e, f} : x.type = "started"
                                                    /\ \E y \in {e, f} : y.type \in Terminal
    /\ \A e \in feed :
          /\ \E f \in feed : f.op = e.op /\ f.type = "started"
          /\ e.type \in {"succeeded", "failed"} => outcome[e.op] = e.type

\* How the numbers of AuditTrail follow from the status of an operation.
Tallied ==
    \A o \in Operations :
        /\ status[o] \in {"absent", "executing"} \cup Terminal
        /\ Counts[o]["started"] = IF status[o] = "absent" THEN 0 ELSE 1
        /\ \A t \in Terminal : Counts[o][t] = IF status[o] = t THEN 1 ELSE 0
        /\ status[o] \in {"succeeded", "failed"} => status[o] = outcome[o]

\* Only the promise is used: every step of AuditTrail keeps the tally.
LEMMA TrailTallies ==
    ASSUME TypeOK, Tallied, [Trail!Next]_Trail!vars
    PROVE  Tallied'
<1> DEFINE Types == {"started"} \cup Terminal
<1>1. /\ status \in [Operations -> {"absent", "executing"} \cup Terminal]
      /\ outcome \in [Operations -> {"none", "succeeded", "failed"}]
      /\ DOMAIN Counts = Operations /\ \A o \in Operations : DOMAIN Counts[o] = Types
  BY DEF TypeOK, Counts
<1>2. ASSUME NEW o \in Operations, Trail!Start(o) PROVE Tallied'
  <2>1. /\ status[o] = "absent" /\ status' = [status EXCEPT ![o] = "executing"]
        /\ Counts' = [Counts EXCEPT ![o]["started"] = @ + 1] /\ outcome' = outcome
    BY <1>2 DEF Trail!Start, Counts, Count
  <2>2. /\ Counts'[o]["started"] = Counts[o]["started"] + 1
        /\ \A t \in Terminal : Counts'[o][t] = Counts[o][t]
        /\ \A d \in Operations \ {o} : Counts'[d] = Counts[d]
    BY <1>1, <2>1 DEF Terminal
  <2> QED
    BY <1>1, <2>1, <2>2 DEF Tallied, Terminal
<1>3. ASSUME NEW o \in Operations, NEW r \in {"succeeded", "failed"}, Trail!Run(o, r)
      PROVE  Tallied'
  <2>1. /\ outcome[o] = "none" /\ outcome' = [outcome EXCEPT ![o] = r]
        /\ status' = status /\ Counts' = Counts
    BY <1>3 DEF Trail!Run, Counts, Count
  <2> QED
    BY <1>1, <2>1 DEF Tallied, Terminal
<1>4. ASSUME NEW o \in Operations, NEW t \in Trail!Terminal, Trail!End(o, t)
      PROVE  Tallied'
  <2>1. /\ status[o] = "executing" /\ t \in {outcome[o], "unknown"} /\ t \in Terminal
        /\ status' = [status EXCEPT ![o] = t]
        /\ Counts' = [Counts EXCEPT ![o][t] = @ + 1] /\ outcome' = outcome
    BY <1>4 DEF Trail!End, Trail!Terminal, Terminal, Counts, Count
  <2>2. /\ Counts'[o][t] = Counts[o][t] + 1
        /\ \A u \in Types \ {t} : Counts'[o][u] = Counts[o][u]
        /\ \A d \in Operations \ {o} : Counts'[d] = Counts[d]
    BY <1>1, <2>1
  <2> QED
    BY <1>1, <2>1, <2>2 DEF Tallied, Terminal
<1>5. CASE UNCHANGED Trail!vars
  <2>1. status' = status /\ outcome' = outcome /\ Counts' = Counts
    BY <1>5 DEF Trail!vars, Counts, Count
  <2> QED
    BY <2>1 DEF Tallied
<1> QED
  BY <1>2, <1>3, <1>4, <1>5 DEF Trail!Next

LEMMA AlwaysTallied == Spec => []Tallied
<1>1. Init => Tallied
  <2> SUFFICES ASSUME Init PROVE Tallied
    OBVIOUS
  <2>1. \A o, t : {e \in feed : e.op = o /\ e.type = t} = {}
    BY DEF Init
  <2>2. \A o \in Operations, t \in {"started"} \cup Terminal : Counts[o][t] = 0
    BY <2>1, FS_EmptySet DEF Counts, Count
  <2> QED
    BY <2>2 DEF Init, Tallied, Terminal
<1>2. TypeOK /\ Tallied /\ [Trail!Next]_Trail!vars => Tallied'
  BY TrailTallies
<1>3. Trail!Spec => [][Trail!Next]_Trail!vars
  BY PTL DEF Trail!Spec
<1> QED
  BY <1>1, <1>2, <1>3, Refinement, TypeCorrect, PTL DEF Spec, KeepsTrail

\* Whoever reads the events of an operation finds one start and at most one end, and
\* what it says is true (begin_operation, finalize_operation, list_events in
\* rainskills_audit_repo.py).
THEOREM TrailTrueCorrect == Spec => []TrailTrue
<1>1. ASSUME TypeOK, Ids, Tallied PROVE TrailTrue
  <2> DEFINE Of(o, t) == {e \in feed : e.op = o /\ e.type = t}
  <2>1. \A o, t : IsFiniteSet(Of(o, t))
    BY <1>1, FS_Subset DEF Ids
  <2>2. ASSUME NEW o \in Operations, NEW t \in {"started"} \cup Terminal,
               Counts[o][t] \in {0, 1}
        PROVE  \A e, f \in Of(o, t) : e = f
    <3>1. Cardinality(Of(o, t)) \in {0, 1}
      BY <2>2 DEF Counts, Count
    <3> HIDE DEF Of
    <3> QED
      BY <2>1, <3>1, FS_EmptySet, FS_Singleton
  <2>3. ASSUME NEW o \in Operations, NEW t \in {"started"} \cup Terminal
        PROVE  Counts[o][t] = 0 <=> Of(o, t) = {}
    <3>1. Counts[o][t] = Cardinality(Of(o, t))
      BY DEF Counts, Count
    <3> HIDE DEF Of
    <3> QED
      BY <2>1, <3>1, FS_EmptySet
  <2>4. ASSUME NEW e \in feed
        PROVE  /\ e.op \in Operations /\ e.type \in {"started"} \cup Terminal
               /\ e \in Of(e.op, e.type)
               /\ status[e.op] # "absent"
               /\ e.type \in Terminal => status[e.op] = e.type
    <3>1. e.op \in Operations /\ e.type \in {"started"} \cup Terminal
      BY <1>1, FeedIds, EventShape
    <3>2. Counts[e.op][e.type] # 0
      BY <2>3, <3>1
    <3> QED
      BY <1>1, <3>1, <3>2 DEF Tallied, Terminal
  <2>5. ASSUME NEW e \in feed, NEW f \in feed, e.op = f.op, e # f
        PROVE  \E x \in {e, f} : x.type = "started" /\ \E y \in {e, f} : y.type \in Terminal
    <3>1. e.type # f.type
      <4>1. Counts[e.op][e.type] \in {0, 1}
        BY <1>1, <2>4 DEF Tallied
      <4>2. \A x, y \in Of(e.op, e.type) : x = y
        BY <2>2, <2>4, <4>1
      <4>3. e.type = f.type => f \in Of(e.op, e.type)
        BY <2>5
      <4>4. e \in Of(e.op, e.type)
        OBVIOUS
      <4> HIDE DEF Of
      <4> QED
        BY <2>5, <4>2, <4>3, <4>4
    <3> QED
      BY <2>4, <2>5, <3>1
  <2>6. ASSUME NEW e \in feed PROVE \E f \in feed : f.op = e.op /\ f.type = "started"
    <3>1. Counts[e.op]["started"] # 0
      BY <1>1, <2>4 DEF Tallied
    <3> QED
      BY <2>3, <2>4, <3>1
  <2>7. ASSUME NEW e \in feed, e.type \in {"succeeded", "failed"}
        PROVE  outcome[e.op] = e.type
    BY <1>1, <2>4, <2>7 DEF Tallied, Terminal
  <2> QED
    BY <2>5, <2>6, <2>7 DEF TrailTrue
<1>2. IInv => TypeOK /\ Ids
  BY DEF IInv
<1> QED
  BY <1>1, <1>2, Invariant, AlwaysTallied, PTL
===============================================================================
