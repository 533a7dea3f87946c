---------------------------- MODULE OperationAudit ----------------------------
(***************************************************************************)
(* The audit of the operations an AI client asks for                       *)
(* (console/services/rainskills_audit_service.py, its repository, and the  *)
(* views mcp_query.py and internal_rainskills_audit.py).                   *)
(*                                                                         *)
(* A call carries the identity of a confirmed operation, and may be sent   *)
(* again.  It records the start of the operation, runs the tool, and       *)
(* records the end.  A consumer pages through the events with a cursor;    *)
(* before a page is read, operations that started long ago and have not    *)
(* ended are recorded as unknown.                                          *)
(*                                                                         *)
(* A transaction locks the row of an operation and inserts one event, whose*)
(* id is drawn then and which others see when the transaction commits.     *)
(* SQLite, the default, lets one transaction write at a time; MySQL lets   *)
(* transactions that write different rows run side by side.  A call whose  *)
(* arguments differ from those recorded is refused like one that repeats   *)
(* them, and the contents of the events are left out.                      *)
(***************************************************************************)
EXTENDS Naturals, FiniteSets

CONSTANTS
    Calls,          \* tool calls
    Operations,     \* identities of operations
    Reader,         \* the view that serves the events
    Limit,          \* events on a page
    StaleLimit,     \* operations that one poll ends as unknown (100 in the code)
    None,
    MaxFaults       \* bound: database errors, lost answers and workers that die

ASSUME AuditAssumption ==
    /\ Reader \notin Calls /\ None \notin Operations
    /\ Limit \in Nat \ {0} /\ StaleLimit \in Nat \ {0} /\ MaxFaults \in Nat

VARIABLES
    database,   \* "sqlite" or "mysql"
    status,     \* the row of every operation
    feed,       \* the events that are committed
    lastId,     \* the last id an event got
    txn,        \* the event an open transaction has inserted
    call,       \* where each call is, its operation and what its tool did
    aged,       \* executing since more than RAINSKILLS_AUDIT_UNKNOWN_AFTER_SECONDS
    stale,      \* those the view has found executing and has to end
    serving,    \* the view is answering
    cursor,     \* the last id the consumer knows
    faults,
    outcome,    \* history: what the tool of every operation did
    got,        \* history: the ids the consumer was given
    late        \* history: ids not committed when a page behind them was read

tables == <<status, feed, lastId, txn, aged>>
view == <<stale, serving, cursor>>
vars == <<database, tables, call, view, faults, outcome, got, late>>

Terminal == {"succeeded", "failed", "unknown"}
Writers == Calls \cup {Reader}
Event == [id : Nat, op : Operations, type : {"started"} \cup Terminal]

ASSUME NoneIsNoEvent == None \notin Event

Call == [pc     : {"idle", "insert", "commit", "run", "finalize", "end", "done"},
         op     : Operations \cup {None},
         result : {"none", "succeeded", "failed"}]

NoCall == [pc |-> "idle", op |-> None, result |-> "none"]

Open == {w \in Writers : txn[w] # None}

TypeOK ==
    /\ database \in {"sqlite", "mysql"}
    /\ status \in [Operations -> {"absent", "executing"} \cup Terminal]
    /\ feed \subseteq Event /\ lastId \in Nat
    /\ txn \in [Writers -> Event \cup {None}]
    /\ call \in [Calls -> Call]
    /\ aged \subseteq {o \in Operations : status[o] = "executing"} /\ stale \subseteq Operations
    /\ serving \in BOOLEAN /\ cursor \in Nat
    /\ faults \in 0 .. MaxFaults
    /\ outcome \in [Operations -> {"none", "succeeded", "failed"}]
    /\ got \subseteq Nat /\ late \subseteq Nat
    \* no two open transactions have written the same operation
    /\ \A v, w \in Open : v # w => txn[v].op # txn[w].op

Init ==
    /\ database \in {"sqlite", "mysql"}
    /\ status = [o \in Operations |-> "absent"]
    /\ feed = {} /\ lastId = 0
    /\ txn = [w \in Writers |-> None]
    /\ call = [c \in Calls |-> NoCall]
    /\ aged = {} /\ stale = {} /\ serving = FALSE /\ cursor = 0
    /\ faults = 0
    /\ outcome = [o \in Operations |-> "none"]
    /\ got = {} /\ late = {}

-----------------------------------------------------------------------------
(* Transactions.                                                           *)

\* A mutant of MayWrite: the row is read without select_for_update.
MayWriteUnlocked(w, o) == database = "sqlite" => Open \ {w} = {}

\* A writer gets to the row of operation o: nobody else has written it, and on
\* SQLite nobody else writes at all.
MayWrite(w, o) ==
    /\ \A x \in Open \ {w} : txn[x].op # o
    /\ database = "sqlite" => Open \ {w} = {}

\* The writer has changed the row and inserted the event, for itself so far.
Writes(w, o, t) ==
    /\ lastId' = lastId + 1
    /\ txn' = [txn EXCEPT ![w] = [id |-> lastId + 1, op |-> o, type |-> t]]
    /\ UNCHANGED <<status, feed, aged>>

Commits(w) ==
    /\ LET e == txn[w]
       IN  /\ status' = [status EXCEPT ![e.op] =
                             IF e.type = "started" THEN "executing" ELSE e.type]
           /\ feed' = feed \cup {e}
           /\ aged' = aged \ {e.op}
    /\ txn' = [txn EXCEPT ![w] = None]
    /\ UNCHANGED lastId

RollsBack(w) ==
    /\ txn' = [txn EXCEPT ![w] = None]
    /\ UNCHANGED <<status, feed, lastId, aged>>

Fault == faults < MaxFaults /\ faults' = faults + 1

Goes(c, where) == call' = [call EXCEPT ![c].pc = where]

Ends(c) == call' = [call EXCEPT ![c] = [NoCall EXCEPT !.pc = "done"]]

-----------------------------------------------------------------------------
(* A tool call: begin, the tool, finalize_success or finalize_failure.     *)

\* begin looks for the operation first, and refuses what is recorded.
Request(c, o) ==
    /\ call[c].pc = "idle"
    /\ IF status[o] = "absent"
       THEN call' = [call EXCEPT ![c] = [pc |-> "insert", op |-> o, result |-> "none"]]
       ELSE Ends(c)
    /\ UNCHANGED <<database, tables, view, faults, outcome, got, late>>

\* begin_operation: the row is looked for again, and inserted with its event.
Insert(c) ==
    /\ call[c].pc = "insert"
    /\ MayWrite(c, call[c].op)
    /\ IF status[call[c].op] = "absent"
       THEN Writes(c, call[c].op, "started") /\ Goes(c, "commit")
       ELSE Ends(c) /\ UNCHANGED tables
    /\ UNCHANGED <<database, view, faults, outcome, got, late>>

\* The database raises, be it that two calls insert the same operation: the tool
\* is not run (audit_unavailable).
InsertFails(c) ==
    /\ call[c].pc = "insert"
    /\ \/ ~MayWrite(c, call[c].op) /\ UNCHANGED faults
       \/ Fault
    /\ Ends(c)
    /\ UNCHANGED <<database, tables, view, outcome, got, late>>

Commit(c) ==
    /\ call[c].pc = "commit"
    /\ Commits(c)
    /\ Goes(c, "run")
    /\ UNCHANGED <<database, view, faults, outcome, got, late>>

\* The commit is not acknowledged: it may have happened, the tool is not run.
CommitFails(c) ==
    /\ call[c].pc = "commit"
    /\ Fault
    /\ Commits(c) \/ RollsBack(c)
    /\ Ends(c)
    /\ UNCHANGED <<database, view, outcome, got, late>>

RunTool(c, r) ==
    /\ call[c].pc = "run"
    /\ call' = [call EXCEPT ![c] = [pc |-> "finalize", op |-> @.op, result |-> r]]
    /\ outcome' = [outcome EXCEPT ![call[c].op] = r]
    /\ UNCHANGED <<database, tables, view, faults, got, late>>

\* A mutant of Finalize: the end is written whatever is recorded.
FinalizeAgain(c) ==
    /\ call[c].pc = "finalize"
    /\ MayWrite(c, call[c].op)
    /\ Writes(c, call[c].op, call[c].result) /\ Goes(c, "end")
    /\ UNCHANGED <<database, view, faults, outcome, got, late>>

\* finalize_operation: an operation that has ended stays as it is.
Finalize(c) ==
    /\ call[c].pc = "finalize"
    /\ MayWrite(c, call[c].op)
    /\ IF status[call[c].op] = "executing"
       THEN Writes(c, call[c].op, call[c].result) /\ Goes(c, "end")
       ELSE Ends(c) /\ UNCHANGED tables
    /\ UNCHANGED <<database, view, faults, outcome, got, late>>

\* The database raises.  A lock is waited for a few times, then the error is
\* logged and the call goes on.
FinalizeFails(c) ==
    /\ call[c].pc = "finalize"
    /\ Fault
    /\ Ends(c) \/ UNCHANGED call
    /\ UNCHANGED <<database, tables, view, outcome, got, late>>

FinalizeCommit(c) ==
    /\ call[c].pc = "end"
    /\ Commits(c)
    /\ Ends(c)
    /\ UNCHANGED <<database, view, faults, outcome, got, late>>

\* The worker dies: the database rolls its transaction back.
Crash(c) ==
    /\ call[c].pc \notin {"idle", "done"}
    /\ Fault
    /\ RollsBack(c)
    /\ Ends(c)
    /\ UNCHANGED <<database, view, outcome, got, late>>

-----------------------------------------------------------------------------
(* The feed of events.                                                     *)

Age(o) ==
    /\ status[o] = "executing" /\ o \notin aged
    /\ aged' = aged \cup {o}
    /\ UNCHANGED <<status, feed, lastId, txn, database, call, view, faults, outcome, got, late>>

\* A mutant of Poll: what has not ended is left alone.
PollOnly ==
    /\ ~serving
    /\ serving' = TRUE
    /\ UNCHANGED <<database, tables, call, stale, cursor, faults, outcome, got, late>>

\* The consumer asks for a page: stale operations are looked for, StaleLimit of
\* them at most.  Which come first, the order of their rows, is left open.
Poll ==
    /\ ~serving
    /\ serving' = TRUE
    /\ stale' \in SUBSET aged
    /\ Cardinality(stale') <= StaleLimit
    /\ stale' # aged => Cardinality(stale') = StaleLimit
    /\ UNCHANGED <<database, tables, call, cursor, faults, outcome, got, late>>

\* Each of them ends as unknown, in a transaction of its own, unless it has ended
\* by now.
Declare(o) ==
    /\ o \in stale /\ txn[Reader] = None
    /\ MayWrite(Reader, o)
    /\ IF status[o] = "executing"
       THEN Writes(Reader, o, "unknown") /\ UNCHANGED stale
       ELSE stale' = stale \ {o} /\ UNCHANGED tables
    /\ UNCHANGED <<database, call, serving, cursor, faults, outcome, got, late>>

Declared ==
    /\ txn[Reader] # None
    /\ Commits(Reader)
    /\ stale' = stale \ {txn[Reader].op}
    /\ UNCHANGED <<database, call, serving, cursor, faults, outcome, got, late>>

\* The page after the cursor: the first events in the order of their ids.
PageAfter(k) ==
    LET newer == {e \in feed : e.id > k}
    IN  {e \in newer : Cardinality({f \in newer : f.id < e.id}) < Limit}

\* A mutant of NextCursor: the cursor is that of the latest event.
LatestCursor ==
    IF feed = {} THEN cursor ELSE (CHOOSE e \in feed : \A f \in feed : f.id <= e.id).id

\* The cursor of the answer is that of the last event of the page.
NextCursor ==
    IF PageAfter(cursor) = {} THEN cursor
    ELSE (CHOOSE e \in PageAfter(cursor) : \A f \in PageAfter(cursor) : f.id <= e.id).id

Page ==
    /\ serving /\ stale = {}
    /\ serving' = FALSE
    /\ got' = got \cup {e.id : e \in PageAfter(cursor)}
    /\ cursor' = NextCursor
    /\ late' = late \cup {i \in {txn[w].id : w \in Open} : i <= cursor'}
    /\ UNCHANGED <<database, tables, call, stale, faults, outcome>>

\* The view raises or its answer is lost: the consumer asks again from its cursor.
PollFails ==
    /\ serving
    /\ Fault
    /\ serving' = FALSE /\ stale' = {}
    /\ RollsBack(Reader)
    /\ UNCHANGED <<database, call, cursor, outcome, got, late>>

Next ==
    \/ \E c \in Calls :
          \/ \E o \in Operations : Request(c, o)
          \/ \E r \in {"succeeded", "failed"} : RunTool(c, r)
          \/ Insert(c) \/ InsertFails(c) \/ Commit(c) \/ CommitFails(c)
          \/ Finalize(c) \/ FinalizeFails(c) \/ FinalizeCommit(c) \/ Crash(c)
    \/ \E o \in Operations : Age(o) \/ Declare(o)
    \/ Poll \/ Declared \/ Page \/ PollFails

Spec == Init /\ [][Next]_vars

\* The consumer keeps polling and the view keeps working, what has been committed
\* to the database ends one way or another, and time passes.  Nothing is assumed
\* of the tools: a call may hang or die.
Fairness ==
    /\ WF_vars(Poll) /\ WF_vars(Declared) /\ WF_vars(Page)
    /\ \A o \in Operations : WF_vars(Age(o)) /\ WF_vars(Declare(o))
    /\ \A c \in Calls : WF_vars(Commit(c)) /\ WF_vars(FinalizeCommit(c))

FairSpec == Spec /\ Fairness

-----------------------------------------------------------------------------
\* The consumer is given every event its cursor has passed, unless the event was
\* written before the page was read and committed after, which only MySQL allows
\* (list_events and next_cursor, internal_rainskills_audit.py:72).
NothingSkipped ==
    \A e \in feed :
        e.id <= cursor => \/ e.id \in got
                          \/ database = "mysql" /\ e.id \in late

Trail == INSTANCE AuditTrail
    WITH events <- [o \in Operations |-> [t \in {"started"} \cup Terminal |->
                        Cardinality({e \in feed : e.op = o /\ e.type = t})]]

\* However often a call is repeated, the tool runs at most once for an operation
\* and not before its start is recorded, and its end is recorded once and agrees
\* with what the tool did ("A successful Tool must never be replayed
\* automatically", rainskills_audit_service.py:358).
KeepsTrail == Trail!Spec

\* An operation that was started does not stay open: its end is recorded and, on
\* SQLite, the consumer is told, even if the worker that ran it has died
\* (materialize_stale_unknown, rainskills_audit_repo.py:133).
EventuallyTold ==
    \A o \in Operations :
        status[o] = "executing" ~>
            \E e \in feed : /\ e.op = o /\ e.type \in Terminal
                            /\ database = "sqlite" => e.id \in got
===============================================================================
