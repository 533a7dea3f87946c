-------------------------- MODULE DeploymentTracking --------------------------
(***************************************************************************)
(* Tracking and reporting of the deployments an AI client starts           *)
(* (console/services/rainskills_deployment_service.py and its repository). *)
(*                                                                         *)
(* A tool call creates a tracker, a row of the database, runs the tool and *)
(* binds the events of the deployment to the tracker, or drops it, or marks*)
(* it as failed.  A thread then reports the attempt, waits for the events  *)
(* and reports how it ended; the row goes once that is delivered.  Every   *)
(* console process runs at most W such threads, and a sweeper that starts  *)
(* them for the trackers it finds.  The processes share the rows and know  *)
(* nothing of each other's threads, and a process may be replaced at any   *)
(* time.                                                                   *)
(*                                                                         *)
(* A step is what a thread does between two uses of the database, the      *)
(* region or the report server; it works with the copy of the row it has   *)
(* loaded.  The texts of a report are left out.                            *)
(***************************************************************************)
EXTENDS Naturals, Sequences, FiniteSets

CONSTANTS
    Order,          \* the attempts in the order of their keys
    Events,         \* the events of a deployment
    Processes,      \* console processes
    W,              \* MAX_REPORT_WORKERS
    Outage,         \* the report server never answers; see Sweep
    MaxFaults,      \* bound: calls that fail or whose answer is lost
    MaxRestarts     \* bound: processes that are replaced

Attempts == {Order[i] : i \in DOMAIN Order}

ASSUME TrackingAssumption ==
    /\ Order \in Seq(Attempts) /\ Cardinality(Attempts) = Len(Order)
    /\ IsFiniteSet(Events) /\ IsFiniteSet(Processes)
    /\ W \in Nat \ {0} /\ Outage \in BOOLEAN
    /\ MaxFaults \in Nat /\ MaxRestarts \in Nat

VARIABLES
    row,        \* the trackers
    call,       \* the tool call of every attempt
    event,      \* at the region: the events of every deployment
    closed,     \* attempts whose POLL_WINDOW_SECONDS are over
    expired,    \* attempts whose MAX_RETENTION_SECONDS are over
    work,       \* the threads of every process, one for a key
    queue,      \* what the sweeper of a process still has to look at
    offset,     \* _sweep_offset
    reports,    \* at the report server: what was reported of every attempt
    faults, restarts,
    cause,      \* history: why a tracker is gone
    shared      \* history: attempts that two processes have watched at once

outside == <<event, closed, expired>>
counters == <<faults, restarts>>
vars == <<row, call, outside, work, queue, offset, reports, counters, cause, shared>>

Final == {"success", "failure", "timeout"}

Row == [state  : {"none", "awaiting", "bound", "gone"},
        status : Final \cup {"accepted"},       \* report_phase is final unless accepted
        events : SUBSET Events]

NoRow == [state |-> "none", status |-> "accepted", events |-> {}]

Thread == [pc     : {"off", "load", "dispatch", "check", "settle", "report"},
           copy   : Row,
           sent   : BOOLEAN,            \* dispatch_attempted
           sweeps : 0 .. 1]             \* history: sweeps since it was started

Off == [pc |-> "off", copy |-> NoRow, sent |-> FALSE, sweeps |-> 0]

Exists(a) == row[a].state \in {"awaiting", "bound"}

Bound(a) == {e \in Events : event[a][e] # "none"}

Running(p) == {a \in Attempts : work[p][a].pc # "off"}

TypeOK ==
    /\ row \in [Attempts -> Row]
    /\ call \in [Attempts -> {"idle", "tool", "done"}]
    /\ event \in [Attempts -> [Events -> Final \cup {"none", "running"}]]
    /\ closed \subseteq Attempts /\ expired \subseteq closed
    /\ work \in [Processes -> [Attempts -> Thread]]
    /\ queue \in [Processes -> Seq(Attempts)]
    /\ offset \in [Processes -> 0 .. Len(Order)]
    /\ reports \in [Attempts -> SUBSET (Final \cup {"dispatch"})]
    /\ faults \in 0 .. MaxFaults /\ restarts \in 0 .. MaxRestarts
    /\ cause \in [Attempts -> {"none", "discarded", "delivered", "expired"}]
    /\ shared \subseteq Attempts
    /\ \A p \in Processes : Cardinality(Running(p)) <= W
    /\ \A p \in Processes, a \in Attempts :
          LET t == work[p][a]
          IN  /\ t.pc \in {"dispatch", "check"} =>
                    t.copy.state = "bound" /\ t.copy.status = "accepted"
              /\ t.pc \in {"settle", "report"} => t.copy.status \in Final

Init ==
    /\ row = [a \in Attempts |-> NoRow]
    /\ call = [a \in Attempts |-> "idle"]
    /\ event = [a \in Attempts |-> [e \in Events |-> "none"]]
    /\ closed = {} /\ expired = {}
    /\ work = [p \in Processes |-> [a \in Attempts |-> Off]]
    /\ queue = [p \in Processes |-> <<>>]
    /\ offset = [p \in Processes |-> 0]
    /\ reports = [a \in Attempts |-> {}]
    /\ faults = 0 /\ restarts = 0
    /\ cause = [a \in Attempts |-> "none"]
    /\ shared = {}

-----------------------------------------------------------------------------
(* Rows and threads.                                                       *)

\* delete_payload removes the row, if it is still there.
Delete(a, why) ==
    IF Exists(a)
    THEN /\ row' = [row EXCEPT ![a] = [NoRow EXCEPT !.state = "gone"]]
         /\ cause' = [cause EXCEPT ![a] = why]
    ELSE UNCHANGED <<row, cause>>

\* Starts a thread for a in process p, unless it has one or W is reached.
Start(p, a) ==
    IF a \in Running(p) \/ Cardinality(Running(p)) >= W
    THEN UNCHANGED <<work, shared>>
    ELSE /\ work' = [work EXCEPT ![p][a] = [Off EXCEPT !.pc = "load"]]
         /\ shared' = IF \E q \in Processes : a \in Running(q) THEN shared \cup {a} ELSE shared

Stops(p, a) == work' = [work EXCEPT ![p][a] = Off]

Goes(p, a, where, copy) ==
    work' = [work EXCEPT ![p][a] = [pc |-> where, copy |-> copy, sent |-> @.sent, sweeps |-> 0]]

Fault == faults < MaxFaults /\ faults' = faults + 1 /\ UNCHANGED restarts

\* A report is tried three times: it is acknowledged, or it is not and may have
\* arrived all the same.
Posted(a, what) ==
    /\ ~Outage
    /\ reports' = [reports EXCEPT ![a] = @ \cup {what}]
    /\ UNCHANGED counters

Unposted(p, a, what) ==
    IF Outage
    THEN work[p][a].sweeps = 1 /\ UNCHANGED <<reports, counters>>
    ELSE /\ Fault
         /\ \/ reports' = [reports EXCEPT ![a] = @ \cup {what}]
            \/ UNCHANGED reports

-----------------------------------------------------------------------------
(* The tool call.                                                          *)

Begin(a) ==
    /\ call[a] = "idle"
    /\ call' = [call EXCEPT ![a] = "tool"]
    /\ row' = [row EXCEPT ![a].state = "awaiting"]
    /\ UNCHANGED <<outside, work, queue, offset, reports, counters, cause, shared>>

\* The result names the events of the deployment, possibly none.
Bind(p, a) ==
    /\ call[a] = "tool"
    /\ call' = [call EXCEPT ![a] = "done"]
    /\ IF Exists(a)
       THEN /\ \E E \in SUBSET Events :
                  /\ row' = [row EXCEPT ![a] = [state |-> "bound", status |-> "accepted",
                                                events |-> E]]
                  /\ event' = [event EXCEPT ![a] = [e \in Events |->
                                   IF e \in E THEN "running" ELSE "none"]]
            /\ Start(p, a)
       ELSE UNCHANGED <<row, event, work, shared>>
    /\ UNCHANGED <<closed, expired, queue, offset, reports, counters, cause>>

\* The tool turns out not to have deployed anything.
Discard(a) ==
    /\ call[a] = "tool"
    /\ call' = [call EXCEPT ![a] = "done"]
    /\ IF row[a].state = "awaiting" THEN Delete(a, "discarded") ELSE UNCHANGED <<row, cause>>
    /\ UNCHANGED <<outside, work, queue, offset, reports, counters, shared>>

MarkFailure(p, a) ==
    /\ call[a] = "tool"
    /\ call' = [call EXCEPT ![a] = "done"]
    /\ IF Exists(a)
       THEN row' = [row EXCEPT ![a].status = "failure"] /\ Start(p, a)
       ELSE UNCHANGED <<row, work, shared>>
    /\ UNCHANGED <<outside, queue, offset, reports, counters, cause>>

\* The worker of the call dies, or binding the result raises, which is logged.
CallDies(a) ==
    /\ call[a] = "tool"
    /\ Fault
    /\ call' = [call EXCEPT ![a] = "done"]
    /\ UNCHANGED <<row, outside, work, queue, offset, reports, cause, shared>>

-----------------------------------------------------------------------------
(* The thread: _poll_by_key.                                               *)

\* A mutant of Load: a final result is looked for again.
LoadAgain(p, a) ==
    /\ work[p][a].pc = "load"
    /\ IF row[a].state # "bound"
       THEN Stops(p, a)
       ELSE Goes(p, a, IF work[p][a].sent THEN "check" ELSE "dispatch", row[a])
    /\ UNCHANGED <<row, call, outside, queue, offset, reports, counters, cause, shared>>

Load(p, a) ==
    /\ work[p][a].pc = "load"
    /\ LET final == row[a].status \in Final
       IN  IF Exists(a) /\ (final \/ row[a].state = "bound")
           THEN Goes(p, a, IF final THEN "report"
                           ELSE IF work[p][a].sent THEN "check" ELSE "dispatch", row[a])
           ELSE Stops(p, a)
    /\ UNCHANGED <<row, call, outside, queue, offset, reports, counters, cause, shared>>

\* A mutant of Dispatch: without events the row goes, delivered or not.
DispatchDrops(p, a) ==
    /\ work[p][a].pc = "dispatch"
    /\ Posted(a, "dispatch") \/ Unposted(p, a, "dispatch")
    /\ IF work[p][a].copy.events = {}
       THEN Delete(a, "delivered") /\ Stops(p, a)
       ELSE /\ work' = [work EXCEPT ![p][a] = [pc |-> "check", copy |-> @.copy, sent |-> TRUE,
                                               sweeps |-> @.sweeps]]
            /\ UNCHANGED <<row, cause>>
    /\ UNCHANGED <<call, outside, queue, offset, shared>>

\* The attempt is reported once by every thread.  Without events that was all.
Dispatch(p, a) ==
    /\ work[p][a].pc = "dispatch"
    /\ \/ /\ Posted(a, "dispatch")
          /\ IF work[p][a].copy.events = {} THEN Delete(a, "delivered")
             ELSE UNCHANGED <<row, cause>>
       \/ Unposted(p, a, "dispatch") /\ UNCHANGED <<row, cause>>
    /\ IF work[p][a].copy.events = {}
       THEN Stops(p, a)
       ELSE work' = [work EXCEPT ![p][a] = [pc |-> "check", copy |-> @.copy, sent |-> TRUE,
                                            sweeps |-> @.sweeps]]
    /\ UNCHANGED <<call, outside, queue, offset, shared>>

\* A mutant of Evaluated: it does not matter whether all events are listed.
EvaluatedAny(a, listed, expected) ==
    LET st == {event[a][e] : e \in listed}
    IN  IF "failure" \in st THEN "failure"
        ELSE IF "timeout" \in st THEN "timeout"
        ELSE IF st = {"success"} THEN "success" ELSE "accepted"

\* What the list of events that the region returns says of the attempt; it need
\* not hold all of them.
Evaluated(a, listed, expected) ==
    LET st == {event[a][e] : e \in listed}
    IN  IF "failure" \in st THEN "failure"
        ELSE IF "timeout" \in st THEN "timeout"
        ELSE IF expected \subseteq listed /\ st = {"success"} THEN "success" ELSE "accepted"

\* A mutant of Check: whatever the events say, it is the result.
CheckSettles(p, a) ==
    /\ work[p][a].pc = "check"
    /\ LET copy == work[p][a].copy
           Settles(s) == Goes(p, a, "settle", [copy EXCEPT !.status = s])
       IN  IF a \in closed
           THEN Settles("timeout") /\ UNCHANGED counters
           ELSE \/ \E listed \in SUBSET copy.events :
                      Settles(Evaluated(a, listed, copy.events)) /\ UNCHANGED counters
                \/ Fault /\ Goes(p, a, "load", NoRow)
    /\ UNCHANGED <<row, call, outside, queue, offset, reports, cause, shared>>

\* The window is over, the region does not answer, or its answer is evaluated.
Check(p, a) ==
    /\ work[p][a].pc = "check"
    /\ LET copy == work[p][a].copy
           Settles(s) == Goes(p, a, "settle", [copy EXCEPT !.status = s])
           Again == Goes(p, a, "load", NoRow)
       IN  IF a \in closed
           THEN Settles("timeout") /\ UNCHANGED counters
           ELSE \/ \E listed \in SUBSET copy.events :
                      LET s == Evaluated(a, listed, copy.events)
                      IN  (IF s = "accepted" THEN Again ELSE Settles(s)) /\ UNCHANGED counters
                \/ Fault /\ Again
    /\ UNCHANGED <<row, call, outside, queue, offset, reports, cause, shared>>

\* A mutant of Settle: the row is made again when it is gone.
SettleUpserts(p, a) ==
    /\ work[p][a].pc = "settle"
    /\ row' = [row EXCEPT ![a] = work[p][a].copy]
    /\ Goes(p, a, "report", work[p][a].copy)
    /\ UNCHANGED <<call, outside, queue, offset, reports, counters, cause, shared>>

\* _set_final writes the thread's copy.  A row that is gone is not made again: the
\* save raises and ends the thread.
Settle(p, a) ==
    /\ work[p][a].pc = "settle"
    /\ IF Exists(a)
       THEN /\ row' = [row EXCEPT ![a] = work[p][a].copy]
            /\ Goes(p, a, "report", work[p][a].copy)
       ELSE Stops(p, a) /\ UNCHANGED row
    /\ UNCHANGED <<call, outside, queue, offset, reports, counters, cause, shared>>

\* A mutant of Report: the row goes whether the report is delivered or not.
ReportOnce(p, a) ==
    /\ work[p][a].pc = "report"
    /\ LET s == work[p][a].copy.status
       IN  Posted(a, s) \/ Unposted(p, a, s)
    /\ Delete(a, "delivered")
    /\ Stops(p, a)
    /\ UNCHANGED <<call, outside, queue, offset, shared>>

Report(p, a) ==
    /\ work[p][a].pc = "report"
    /\ LET s == work[p][a].copy.status
       IN  \/ Posted(a, s) /\ Delete(a, "delivered")
           \/ Unposted(p, a, s) /\ UNCHANGED <<row, cause>>
    /\ Stops(p, a)
    /\ UNCHANGED <<call, outside, queue, offset, shared>>

-----------------------------------------------------------------------------
(* The sweeper.                                                            *)

\* What a loop over s that skips whatever is not in S looks at.
Kept(s, S) ==
    LET kept[i \in 0 .. Len(s)] ==
            IF i = 0 THEN <<>>
            ELSE IF s[i] \in S THEN Append(kept[i - 1], s[i]) ELSE kept[i - 1]
    IN  kept[Len(s)]

\* The trackers by key, from the offset on and then from the start.
Tracked == Kept(Order, {a \in Attempts : Exists(a)})

Rotated(s, k) == SubSeq(s, k + 1, Len(s)) \o SubSeq(s, 1, k)

Waits(a) == a \in expired \/ row[a].state = "bound" \/ row[a].status \in Final

Waiting == {a \in Attempts : Waits(a)}

Posting(p) == {a \in Attempts : work[p][a].pc \in {"load", "dispatch", "report"}}

\* A mutant of Sweep: a tracker with a result is not looked at again.
SweepOpen(p) ==
    LET tracked == Tracked
        k == offset[p] % Len(tracked)
        open == {a \in Attempts :
                    a \in expired \/ (row[a].state = "bound" /\ row[a].status = "accepted")}
    IN  /\ queue[p] = <<>> /\ tracked # <<>>
        /\ queue' = [queue EXCEPT ![p] = Kept(Rotated(tracked, k), open)]
        /\ offset' = [offset EXCEPT ![p] = (k + W) % Len(tracked)]
        /\ UNCHANGED <<row, call, outside, work, reports, counters, cause, shared>>

\* A report that is not answered takes 17 seconds (three times 5, and twice 1), a
\* sweep comes every 15: during an outage a thread is still there at the sweep
\* after the one that started it, and gone at the one after that.
Sweep(p) ==
    LET tracked == Tracked
        k == offset[p] % Len(tracked)
    IN  /\ queue[p] = <<>>
        /\ UNCHANGED <<row, call, outside, reports, counters, cause, shared>>
        /\ tracked # <<>>
        /\ Outage => \A a \in Posting(p) : work[p][a].pc # "load" /\ work[p][a].sweeps = 0
        /\ work' = IF Outage
                   THEN [work EXCEPT ![p] = [a \in Attempts |->
                            IF a \in Posting(p) THEN [@[a] EXCEPT !.sweeps = 1] ELSE @[a]]]
                   ELSE work
        /\ offset' = [offset EXCEPT ![p] = (k + W) % Len(tracked)]
        /\ queue' = [queue EXCEPT ![p] = Kept(Rotated(tracked, k), Waiting)]

SweepOne(p) ==
    /\ queue[p] # <<>>
    /\ LET a == Head(queue[p])
       IN  IF a \in expired
           THEN Delete(a, "expired") /\ UNCHANGED <<work, shared>>
           ELSE Start(p, a) /\ UNCHANGED <<row, cause>>
    /\ queue' = [queue EXCEPT ![p] = Tail(@)]
    /\ UNCHANGED <<call, outside, offset, reports, counters>>

-----------------------------------------------------------------------------
(* The rest of the world.                                                  *)

\* An event ends.  What happens after the tracker is gone makes no difference.
Happens(a, e, s) ==
    /\ Exists(a) /\ event[a][e] = "running"
    /\ event' = [event EXCEPT ![a][e] = s]
    /\ UNCHANGED <<row, call, closed, expired, work, queue, offset, reports, counters, cause, shared>>

\* Twenty minutes after a tracker was made, and seven days.
Close(a) ==
    /\ Exists(a) /\ a \notin closed
    /\ closed' = closed \cup {a}
    /\ UNCHANGED <<row, call, event, expired, work, queue, offset, reports, counters, cause, shared>>

Expire(a) ==
    /\ Exists(a) /\ a \in closed \ expired
    /\ expired' = expired \cup {a}
    /\ UNCHANGED <<row, call, event, closed, work, queue, offset, reports, counters, cause, shared>>

\* A process is replaced: its threads and its sweeper are lost.
Restart(p) ==
    /\ restarts < MaxRestarts /\ restarts' = restarts + 1
    /\ work' = [work EXCEPT ![p] = [a \in Attempts |-> Off]]
    /\ queue' = [queue EXCEPT ![p] = <<>>]
    /\ offset' = [offset EXCEPT ![p] = 0]
    /\ UNCHANGED <<row, call, outside, reports, faults, cause, shared>>

Next ==
    \/ \E a \in Attempts :
          \/ Begin(a) \/ Discard(a) \/ CallDies(a) \/ Close(a) \/ Expire(a)
          \/ \E e \in Events, s \in Final : Happens(a, e, s)
          \/ \E p \in Processes :
                \/ Bind(p, a) \/ MarkFailure(p, a)
                \/ Load(p, a) \/ Dispatch(p, a) \/ Check(p, a) \/ Settle(p, a) \/ Report(p, a)
    \/ \E p \in Processes : Sweep(p) \/ SweepOne(p) \/ Restart(p)

Spec == Init /\ [][Next]_vars

\* Threads and sweepers go on, and twenty minutes pass.  A tool call may hang, the
\* events of a deployment need not end, and seven days may not have passed.
Fairness ==
    /\ \A p \in Processes : WF_vars(Sweep(p)) /\ WF_vars(SweepOne(p))
    /\ \A p \in Processes, a \in Attempts :
          /\ WF_vars(Load(p, a)) /\ WF_vars(Dispatch(p, a)) /\ WF_vars(Check(p, a))
          /\ WF_vars(Settle(p, a)) /\ WF_vars(Report(p, a))
    /\ \A a \in Attempts : WF_vars(Close(a))

FairSpec == Spec /\ Fairness

-----------------------------------------------------------------------------
\* What is reported is true: a success when every event the tracker is bound to
\* succeeded, a failure when the tool or an event failed, a timeout when an event
\* timed out or the time to wait was over (_evaluate_events,
\* rainskills_deployment_service.py:505).
HonestReports ==
    \A a \in Attempts :
        LET ended == {event[a][e] : e \in Bound(a)}
        IN  /\ "success" \in reports[a] => ended = {"success"}
            /\ "failure" \in reports[a] => "failure" \in ended \/ Bound(a) = {}
            /\ "timeout" \in reports[a] => "timeout" \in ended \/ a \in closed

\* However often it is reported, by whatever processes one after the other, an
\* attempt has one result.  Only two processes that watch it at once may give it
\* two, and then one of the two is a timeout: an event the region let time out, which
\* weighs more than the success the other saw, or the end of the wait (_start_worker
\* and _set_final).
OneResult ==
    \A a \in Attempts :
        Cardinality(reports[a] \cap Final) > 1 => a \in shared /\ "timeout" \in reports[a]

\* A tracker goes away only when the tool deployed nothing, when its last report is
\* delivered, or after seven days; so not with the process that watched it
\* ("The durable tracker remains available to a later sweep",
\* rainskills_deployment_service.py:430).
NothingDropped ==
    \A a \in Attempts : row[a].state = "gone" =>
        \/ cause[a] = "discarded" /\ Bound(a) = {} /\ reports[a] = {}
        \/ /\ cause[a] = "delivered"
           /\ reports[a] \cap Final # {} \/ (Bound(a) = {} /\ "dispatch" \in reports[a])
        \/ cause[a] = "expired" /\ a \in expired

\* Trackers, threads and sweepers do for the report server what AttemptReports says,
\* whatever is lost on the way: every report is true when it is sent, and an attempt
\* is given up once, with its last report, before its deployment or after seven days
\* (_poll_by_key, sweep_once).
Promised == INSTANCE AttemptReports WITH told <- reports, end <- cause

KeepsReports == Promised!Spec

\* A tracker does not come back, and a result that is written stays a result,
\* whatever a thread has loaded before.
RowsMoveOn ==
    [][\A a \in Attempts :
          /\ row[a].state = "gone" => row'[a].state = "gone"
          /\ row[a].status \in Final => row'[a].status \in Final \/ row'[a].state = "gone"]_vars

\* An attempt whose tool is through is reported to the end, unless it is too old by
\* then, although processes are replaced and reports are lost.
EventuallyReported ==
    \A a \in Attempts :
        Exists(a) /\ Waits(a) ~> cause[a] = "delivered" \/ a \in expired

\* "Failed external reports must not starve records later in the backlog"
\* (rainskills_deployment_service.py:600): a tracker that waits is attempted again
\* and again, however long the report server is out.
NoneStarves ==
    \A a \in Attempts :
        []<>(~Exists(a) \/ ~Waits(a) \/ \E p \in Processes : a \in Running(p))
===============================================================================
