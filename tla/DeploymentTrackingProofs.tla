------------------------ MODULE DeploymentTrackingProofs ------------------------
(***************************************************************************)
(* The reports of DeploymentTracking are true, an attempt has one result   *)
(* unless two processes watch it at once, no tracker is dropped and none   *)
(* comes back, for any number of attempts, events, processes and faults.   *)
(***************************************************************************)
EXTENDS DeploymentTracking, FiniteSetTheorems, SequenceTheorems, NaturalsInduction,
        WellFoundedInduction, TLAPS

\* The types of what belongs to an attempt.
Types ==
    /\ row \in [Attempts -> Row]
    /\ call \in [Attempts -> {"idle", "tool", "done"}]
    /\ event \in [Attempts -> [Events -> Final \cup {"none", "running"}]]
    /\ work \in [Processes -> [Attempts -> Thread]]
    /\ reports \in [Attempts -> SUBSET (Final \cup {"dispatch"})]
    /\ cause \in [Attempts -> {"none", "discarded", "delivered", "expired"}]

\* What can be said of an attempt with result s.
True(a, s) ==
    /\ s = "success" => /\ \E e \in Events : event[a][e] = "success"
                        /\ \A e \in Events : event[a][e] \in {"none", "success"}
    /\ s = "failure" => \/ \E e \in Events : event[a][e] = "failure"
                        \/ \A e \in Events : event[a][e] = "none"
    /\ s = "timeout" => a \in closed \/ \E e \in Events : event[a][e] = "timeout"

\* Until its tool is through, nothing is known of an attempt and nobody reports it.
Fresh(a) ==
    /\ call[a] = "idle" => row[a].state = "none"
    /\ call[a] # "done" =>
          /\ \A e \in Events : event[a][e] = "none"
          /\ reports[a] = {} /\ row[a].state # "bound" /\ row[a].status = "accepted"
          /\ \A p \in Processes : work[p][a].pc \in {"off", "load"}

\* A tracker is bound to the events of the deployment, and its result is true.
Sound(a) ==
    /\ row[a].state = "bound" => row[a].events = Bound(a)
    /\ row[a].status \in Final => True(a, row[a].status)

\* So is the copy of a thread.
Copied(p, a) ==
    /\ work[p][a].pc \in {"dispatch", "check", "settle"} =>
          work[p][a].copy.state = "bound" /\ work[p][a].copy.events = Bound(a)
    /\ work[p][a].pc \in {"dispatch", "check"} => work[p][a].copy.status = "accepted"
    /\ work[p][a].pc \in {"settle", "report"} =>
          work[p][a].copy.status \in Final /\ True(a, work[p][a].copy.status)
    /\ work[p][a].pc \notin {"off", "load"} => cause[a] # "discarded"

\* The reports of the attempt are true.
Honest(a) == \A s \in reports[a] \cap Final : True(a, s)

\* A tracker that is gone has a cause, and that cause explains it.
Explained(a) ==
    IF row[a].state = "gone"
    THEN \/ /\ cause[a] = "discarded" /\ reports[a] = {}
            /\ \A e \in Events : event[a][e] = "none"
         \/ /\ cause[a] = "delivered"
            /\ \/ reports[a] \cap Final # {}
               \/ "dispatch" \in reports[a] /\ \A e \in Events : event[a][e] = "none"
         \/ cause[a] = "expired" /\ a \in expired
    ELSE cause[a] = "none"

\* An attempt that has never been watched twice has one thread at a time, which works
\* with the tracker as it is, and the result that was reported.
Single(a) ==
    a \notin shared =>
        /\ \A p, q \in Processes : work[p][a].pc # "off" /\ work[q][a].pc # "off" => p = q
        /\ Exists(a) => reports[a] \cap Final \subseteq {row[a].status}
        /\ \E s \in Final : reports[a] \cap Final \subseteq {s}
        /\ \A p \in Processes :
              /\ work[p][a].pc \in {"dispatch", "check", "settle"} =>
                    row[a].status = "accepted" /\ reports[a] \cap Final = {}
              /\ work[p][a].pc = "report" =>
                    /\ reports[a] \cap Final \subseteq {work[p][a].copy.status}
                    /\ Exists(a) => row[a].status = work[p][a].copy.status

Good(a) == /\ Fresh(a) /\ Sound(a) /\ Honest(a) /\ Explained(a) /\ Single(a)
           /\ \A p \in Processes : Copied(p, a)

IInv == Types /\ \A a \in Attempts : Good(a)

-----------------------------------------------------------------------------
(* Threads                                                                 *)

LEMMA StatusOfRow == \A r \in Row : /\ r.status \in Final \cup {"accepted"}
                                    /\ r.state \in {"none", "awaiting", "bound", "gone"}
                                    /\ r.events \in SUBSET Events
  BY DEF Row

LEMMA RowOf == ASSUME Types, NEW a \in Attempts PROVE row[a] \in Row
  BY DEF Types

LEMMA ThreadOf ==
    ASSUME Types, NEW p \in Processes, NEW a \in Attempts
    PROVE  work[p][a] \in Thread /\ work[p][a].copy \in Row
  BY DEF Types, Thread

LEMMA OffThread == Off \in Thread /\ Off.pc = "off" /\ NoRow \in Row
                   /\ NoRow.state = "none" /\ NoRow.status = "accepted"
  BY DEF Off, Thread, NoRow, Row

\* What starting, stopping and moving a thread do to the threads.
Threads(p, a) ==
    /\ work' \in [Processes -> [Attempts -> Thread]]
    /\ \A q \in Processes, b \in Attempts :
          q # p \/ b # a => work'[q][b] = work[q][b]

LEMMA ThreadSet ==
    ASSUME Types, NEW p \in Processes, NEW a \in Attempts, NEW t \in Thread,
           work' = [work EXCEPT ![p][a] = t]
    PROVE  Threads(p, a) /\ work'[p][a] = t
<1>1. [work[p] EXCEPT ![a] = t] \in [Attempts -> Thread]
  BY DEF Types
<1>2. work' = [work EXCEPT ![p] = [work[p] EXCEPT ![a] = t]]
  OBVIOUS
<1>3. work'[p] = [work[p] EXCEPT ![a] = t] /\ \A q \in Processes \ {p} : work'[q] = work[q]
  BY <1>2 DEF Types
<1> QED
  BY <1>1, <1>2, <1>3 DEF Types, Threads

LEMMA Stopped ==
    ASSUME Types, NEW p \in Processes, NEW a \in Attempts, Stops(p, a)
    PROVE  Threads(p, a) /\ work'[p][a].pc = "off"
<1>1. PICK t : t = Off
  OBVIOUS
<1>2. t \in Thread /\ t.pc = "off" /\ work' = [work EXCEPT ![p][a] = t]
  BY <1>1, OffThread DEF Stops
<1>3. Threads(p, a) /\ work'[p][a] = t
  BY <1>2, ThreadSet
<1> QED
  BY <1>2, <1>3

LEMMA Gone ==
    ASSUME Types, NEW p \in Processes, NEW a \in Attempts,
           NEW where \in {"load", "check", "dispatch", "settle", "report"},
           NEW copy \in Row, Goes(p, a, where, copy)
    PROVE  Threads(p, a) /\ work'[p][a].pc = where /\ work'[p][a].copy = copy
<1>1. PICK t : t = [pc |-> where, copy |-> copy, sent |-> work[p][a].sent, sweeps |-> 0]
  OBVIOUS
<1>2. t \in Thread /\ t.pc = where /\ t.copy = copy
  BY <1>1, ThreadOf DEF Thread
<1>3. work' = [work EXCEPT ![p][a] = t]
  BY <1>1 DEF Goes, Types
<1> QED
  BY <1>2, <1>3, ThreadSet

LEMMA Started ==
    ASSUME Types, NEW p \in Processes, NEW a \in Attempts, Start(p, a)
    PROVE  /\ Threads(p, a)
           /\ \/ /\ UNCHANGED <<work, shared>>
              \/ /\ work[p][a].pc = "off" /\ work'[p][a].pc = "load"
                 /\ shared \subseteq shared' /\ shared' \subseteq shared \cup {a}
                 /\ a \notin shared' => \A q \in Processes : work[q][a].pc = "off"
<1>1. CASE UNCHANGED <<work, shared>>
  BY <1>1 DEF Threads, Types
<1>2. CASE ~(UNCHANGED <<work, shared>>)
  <2>1. PICK t : t = [Off EXCEPT !.pc = "load"]
    OBVIOUS
  <2>2. t = [pc |-> "load", copy |-> NoRow, sent |-> FALSE, sweeps |-> 0]
    BY <2>1 DEF Off
  <2>3. t \in Thread /\ t.pc = "load"
    BY <2>2, OffThread DEF Thread
  <2>4. /\ a \notin Running(p) /\ work' = [work EXCEPT ![p][a] = t]
        /\ shared' = IF \E q \in Processes : a \in Running(q) THEN shared \cup {a} ELSE shared
    BY <1>2, <2>1 DEF Start
  <2>5. \A q \in Processes : a \in Running(q) <=> work[q][a].pc # "off"
    BY DEF Running
  <2> QED
    BY <2>3, <2>4, <2>5, ThreadSet
<1> QED
  BY <1>1, <1>2

LEMMA Deleted ==
    ASSUME Types, NEW a \in Attempts, NEW why \in {"discarded", "delivered", "expired"},
           Delete(a, why)
    PROVE  /\ row' \in [Attempts -> Row] /\ \A b \in Attempts \ {a} : row'[b] = row[b]
           /\ cause' \in [Attempts -> {"none", "discarded", "delivered", "expired"}]
           /\ \A b \in Attempts \ {a} : cause'[b] = cause[b]
           /\ IF Exists(a)
              THEN row'[a].state = "gone" /\ row'[a].status = "accepted" /\ cause'[a] = why
              ELSE row'[a] = row[a] /\ cause'[a] = cause[a]
<1>1. PICK r : r = [NoRow EXCEPT !.state = "gone"]
  OBVIOUS
<1>2. r \in Row /\ r.state = "gone" /\ r.status = "accepted"
  BY <1>1 DEF NoRow, Row
<1>3. CASE Exists(a)
  BY <1>1, <1>2, <1>3 DEF Delete, Types
<1>4. CASE ~Exists(a)
  BY <1>4 DEF Delete, Types
<1> QED
  BY <1>3, <1>4

\* Nothing that belongs to attempt b changes but for threads that stop.
Alone(b) ==
    /\ row'[b] = row[b] /\ call'[b] = call[b] /\ event'[b] = event[b]
    /\ reports'[b] = reports[b] /\ cause'[b] = cause[b]
    /\ b \in closed => b \in closed'
    /\ b \in expired => b \in expired'
    /\ b \in shared => b \in shared'
    /\ \A p \in Processes :
          \/ work'[p][b].pc = "off"
          \/ work'[p][b].pc = work[p][b].pc /\ work'[p][b].copy = work[p][b].copy

LEMMA StaysGood == ASSUME NEW b \in Attempts, Good(b), Alone(b) PROVE Good(b)'
<1>1. Bound(b)' = Bound(b) /\ (Exists(b)' <=> Exists(b))
  BY DEF Alone, Bound, Exists
<1>2. \A s : True(b, s) => True(b, s)'
  BY DEF Alone, True
<1>3. Fresh(b)'
  BY DEF Alone, Good, Fresh
<1>4. Sound(b)' /\ Honest(b)'
  BY <1>1, <1>2 DEF Alone, Good, Sound, Honest
<1>5. Explained(b)'
  BY DEF Alone, Good, Explained
<1>6. Single(b)'
  BY <1>1 DEF Alone, Good, Single
<1>7. ASSUME NEW p \in Processes PROVE Copied(p, b)'
  BY <1>1, <1>2 DEF Alone, Good, Copied
<1> QED
  BY <1>3, <1>4, <1>5, <1>6, <1>7 DEF Good

LEMMA OneAttempt ==
    ASSUME IInv, Types', NEW a \in Attempts, Good(a)', \A b \in Attempts \ {a} : Alone(b)
    PROVE  IInv'
  BY StaysGood DEF IInv

-----------------------------------------------------------------------------
(* The tool call                                                           *)

LEMMA BeginGood == ASSUME IInv, NEW a \in Attempts, Begin(a) PROVE IInv'
<1>1. PICK r : r = [row[a] EXCEPT !.state = "awaiting"]
  OBVIOUS
<1>2. r \in Row /\ r.state = "awaiting" /\ r.status = row[a].status /\ r.events = row[a].events
  BY <1>1, RowOf DEF IInv, Row
<1>3. row' = [row EXCEPT ![a] = r] /\ call' = [call EXCEPT ![a] = "tool"] /\ call[a] = "idle"
  BY <1>1 DEF Begin
<1>4. UNCHANGED <<event, closed, expired, work, reports, cause, shared>>
  BY DEF Begin, outside
<1>5. Types'
  BY <1>2, <1>3, <1>4 DEF IInv, Types
<1>6. \A b \in Attempts \ {a} : Alone(b)
  BY <1>3, <1>4 DEF IInv, Types, Alone
<1>7. row'[a] = r /\ call'[a] = "tool" /\ Good(a)
  BY <1>3 DEF IInv, Types
<1>8. Good(a)'
  BY <1>2, <1>3, <1>4, <1>7 DEF Good, Fresh, Sound, Honest, Explained, Single, Copied, Final
<1> QED
  BY <1>5, <1>6, <1>8, OneAttempt

LEMMA BindGood ==
    ASSUME IInv, NEW p \in Processes, NEW a \in Attempts, Bind(p, a)
    PROVE  IInv'
<1>1. /\ call[a] = "tool" /\ call' = [call EXCEPT ![a] = "done"] /\ Types /\ Good(a)
      /\ UNCHANGED <<closed, expired, reports, cause>>
  BY DEF Bind, IInv
<1>2. call' \in [Attempts -> {"idle", "tool", "done"}] /\ call'[a] = "done"
      /\ \A b \in Attempts \ {a} : call'[b] = call[b]
  BY <1>1 DEF Types
<1>3. CASE ~Exists(a)
  <2>1. UNCHANGED <<row, event, work, shared>>
    BY <1>3 DEF Bind
  <2>2. Types' /\ \A b \in Attempts \ {a} : Alone(b)
    BY <1>1, <1>2, <2>1 DEF Types, Alone
  <2>3. Good(a)'
    <3>1. (\A s : True(a, s) => True(a,
    s)') /\ Bound(a)' = Bound(a) /\ (Exists(a)' <=> Exists(a))
      BY <1>1, <2>1 DEF True, Bound, Exists
    <3> QED
      BY <1>1, <1>2, <2>1, <3>1 DEF Good, Fresh, Sound, Honest, Explained, Single, Copied
  <2> QED
    BY <2>2, <2>3, OneAttempt
<1>4. CASE Exists(a)
  <2>1. PICK E \in SUBSET Events :
           /\ row' = [row EXCEPT ![a] = [state |-> "bound", status |-> "accepted",
                                         events |-> E]]
           /\ event' = [event EXCEPT ![a] = [e \in Events |->
                            IF e \in E THEN "running" ELSE "none"]]
           /\ Start(p, a)
    BY <1>4 DEF Bind
  <2>2. PICK r : r = [state |-> "bound", status |-> "accepted", events |-> E]
    OBVIOUS
  <2>3. r \in Row /\ r.state = "bound" /\ r.status = "accepted" /\ r.events = E
    BY <2>2 DEF Row
  <2>4. row' = [row EXCEPT ![a] = r]
    BY <2>1, <2>2
  <2>5. /\ row' \in [Attempts -> Row] /\ row'[a] = r
        /\ \A b \in Attempts \ {a} : row'[b] = row[b]
    BY <1>1, <2>3, <2>4 DEF Types
  <2>6. PICK f : f = [e \in Events |-> IF e \in E THEN "running" ELSE "none"]
    OBVIOUS
  <2>7. f \in [Events -> Final \cup {"none", "running"}]
    BY <2>6
  <2>8. /\ event' \in [Attempts -> [Events -> Final \cup {"none", "running"}]]
        /\ event'[a] = f /\ \A b \in Attempts \ {a} : event'[b] = event[b]
    BY <1>1, <2>1, <2>6, <2>7 DEF Types
  <2>9. Bound(a)' = E
    BY <2>6, <2>8 DEF Bound
  <2>10. Types' /\ \A b \in Attempts \ {a} : Alone(b)
    <3>1. Threads(p, a) /\ shared \subseteq shared'
      BY <1>1, <2>1, Started
    <3>2. Types'
      BY <1>1, <1>2, <2>5, <2>8, <3>1 DEF Types, Threads
    <3>3. \A b \in Attempts \ {a} : Alone(b)
      BY <1>1, <1>2, <2>5, <2>8, <3>1 DEF Alone, Threads
    <3> QED
      BY <3>2, <3>3
  <2>11. \A q \in Processes : work'[q][a].pc \in {"off", "load"}
    BY <1>1, <2>1, Started DEF Threads, Good, Fresh
  <2>12. a \notin shared' => \A q, o \in Processes :
            work'[q][a].pc # "off" /\ work'[o][a].pc # "off" => q = o
    BY <1>1, <2>1, Started DEF Threads, Good, Single
  <2>13. Fresh(a)' /\ Sound(a)' /\ Honest(a)'
    BY <1>1, <1>2, <2>3, <2>5, <2>9 DEF Good, Fresh, Sound, Honest, Final
  <2>14. Explained(a)'
    BY <1>1, <1>4, <2>3, <2>5 DEF Good, Explained, Exists
  <2>15. Single(a)'
    <3>1. reports'[a] = {} /\ \E s \in Final : TRUE
      BY <1>1 DEF Good, Fresh, Final
    <3> QED
      BY <2>11, <2>12, <3>1 DEF Single
  <2>16. \A q \in Processes : Copied(q, a)'
    BY <2>11 DEF Copied
  <2> QED
    BY <2>10, <2>13, <2>14, <2>15, <2>16, OneAttempt DEF Good
<1> QED
  BY <1>3, <1>4

LEMMA DiscardGood == ASSUME IInv, NEW a \in Attempts, Discard(a) PROVE IInv'
<1>1. /\ call[a] = "tool" /\ call' = [call EXCEPT ![a] = "done"] /\ Types /\ Good(a)
      /\ UNCHANGED <<event, closed, expired, work, reports, shared>>
  BY DEF Discard, IInv, outside
<1>2. call' \in [Attempts -> {"idle", "tool", "done"}] /\ call'[a] = "done"
      /\ \A b \in Attempts \ {a} : call'[b] = call[b]
  BY <1>1 DEF Types
<1>3. (Delete(a, "discarded") /\ row[a].state = "awaiting") \/ UNCHANGED <<row, cause>>
  BY DEF Discard
<1>4. Types' /\ \A b \in Attempts \ {a} : Alone(b)
  BY <1>1, <1>2, <1>3, Deleted DEF Types, Alone
<1>5. (\A s : True(a, s) => True(a, s)') /\ Bound(a)' = Bound(a)
  BY <1>1 DEF True, Bound
<1>6. CASE UNCHANGED <<row, cause>>
  BY <1>1, <1>2, <1>4, <1>5, <1>6, OneAttempt
  DEF Good, Fresh, Sound, Honest, Explained, Single, Copied, Exists
<1>7. CASE Delete(a, "discarded") /\ row[a].state = "awaiting"
  <2>1. row'[a].state = "gone" /\ row'[a].status = "accepted" /\ cause'[a] = "discarded"
    BY <1>1, <1>7, Deleted DEF Exists
  <2>2. Good(a)'
    BY <1>1, <1>2, <1>5, <2>1
    DEF Good, Fresh, Sound, Honest, Explained, Single, Copied, Exists, Final
  <2> QED
    BY <1>4, <2>2, OneAttempt
<1> QED
  BY <1>3, <1>6, <1>7

LEMMA MarkFailureGood ==
    ASSUME IInv, NEW p \in Processes, NEW a \in Attempts, MarkFailure(p, a)
    PROVE  IInv'
<1>1. /\ call[a] = "tool" /\ call' = [call EXCEPT ![a] = "done"] /\ Types /\ Good(a)
      /\ UNCHANGED <<event, closed, expired, reports, cause>>
  BY DEF MarkFailure, IInv, outside
<1>2. call' \in [Attempts -> {"idle", "tool", "done"}] /\ call'[a] = "done"
      /\ \A b \in Attempts \ {a} : call'[b] = call[b]
  BY <1>1 DEF Types
<1>3. (\A s : True(a, s) => True(a, s)') /\ Bound(a)' = Bound(a)
  BY <1>1 DEF True, Bound
<1>4. CASE ~Exists(a)
  <2>1. UNCHANGED <<row, work, shared>>
    BY <1>4 DEF MarkFailure
  <2>2. Types' /\ \A b \in Attempts \ {a} : Alone(b)
    BY <1>1, <1>2, <2>1 DEF Types, Alone
  <2>3. Good(a)'
    BY <1>1, <1>2, <1>3, <2>1
    DEF Good, Fresh, Sound, Honest, Explained, Single, Copied, Exists
  <2> QED
    BY <2>2, <2>3, OneAttempt
<1>5. CASE Exists(a)
  <2>1. PICK r : r = [row[a] EXCEPT !.status = "failure"]
    OBVIOUS
  <2>2. r \in Row /\ r.state = row[a].state /\ r.status = "failure" /\ r.events = row[a].events
    BY <1>1, <2>1, RowOf DEF Row, Final
  <2>3. row' = [row EXCEPT ![a] = r] /\ Start(p, a)
    BY <1>5, <2>1 DEF MarkFailure
  <2>4. /\ row' \in [Attempts -> Row] /\ row'[a] = r
        /\ \A b \in Attempts \ {a} : row'[b] = row[b]
    BY <1>1, <2>2, <2>3 DEF Types
  <2>5. Types' /\ \A b \in Attempts \ {a} : Alone(b)
    BY <1>1, <1>2, <2>3, <2>4, Started DEF Types, Alone, Threads
  <2>6. \A q \in Processes : work'[q][a].pc \in {"off", "load"}
    BY <1>1, <2>3, Started DEF Threads, Good, Fresh
  <2>7. a \notin shared' => \A q, o \in Processes :
            work'[q][a].pc # "off" /\ work'[o][a].pc # "off" => q = o
    BY <1>1, <2>3, Started DEF Threads, Good, Single
  <2>8. Fresh(a)' /\ Honest(a)'
    BY <1>1, <1>2, <1>3 DEF Good, Fresh, Honest
  <2>9. Sound(a)'
    <3>1. True(a, "failure")'
      BY <1>1 DEF Good, Fresh, True
    <3> QED
      BY <1>1, <2>2, <2>4, <3>1 DEF Good, Fresh, Sound
  <2>10. Explained(a)'
    BY <1>1, <1>5, <2>2, <2>4 DEF Good, Explained, Exists
  <2>11. Single(a)'
    <3>1. reports'[a] = {} /\ \E s \in Final : TRUE
      BY <1>1 DEF Good, Fresh, Final
    <3> QED
      BY <2>6, <2>7, <3>1 DEF Single
  <2>12. \A q \in Processes : Copied(q, a)'
    BY <2>6 DEF Copied
  <2> QED
    BY <2>5, <2>8, <2>9, <2>10, <2>11, <2>12, OneAttempt DEF Good
<1> QED
  BY <1>4, <1>5

LEMMA CallDiesGood == ASSUME IInv, NEW a \in Attempts, CallDies(a) PROVE IInv'
<1>1. /\ call' = [call EXCEPT ![a] = "done"] /\ Types /\ Good(a)
      /\ UNCHANGED <<row, event, closed, expired, work, reports, cause, shared>>
  BY DEF CallDies, IInv, outside
<1>2. call' \in [Attempts -> {"idle", "tool", "done"}] /\ call'[a] = "done"
      /\ \A b \in Attempts \ {a} : call'[b] = call[b]
  BY <1>1 DEF Types
<1>3. Types' /\ \A b \in Attempts \ {a} : Alone(b)
  BY <1>1, <1>2 DEF Types, Alone
<1>4. (\A s : True(a, s) => True(a, s)') /\ Bound(a)' = Bound(a)
  BY <1>1 DEF True, Bound
<1>5. Good(a)'
  BY <1>1, <1>2, <1>4 DEF Good, Fresh, Sound, Honest, Explained, Single, Copied, Exists
<1> QED
  BY <1>3, <1>5, OneAttempt

-----------------------------------------------------------------------------
(* The thread                                                              *)

\* The other attempts are left alone when only a thread of a, its row and its reports
\* change.
LEMMA ThreadAlone ==
    ASSUME IInv, NEW p \in Processes, NEW a \in Attempts, Threads(p, a),
           UNCHANGED <<call, event, closed, expired, shared>>,
           row' \in [Attempts -> Row], \A b \in Attempts \ {a} : row'[b] = row[b],
           reports' \in [Attempts -> SUBSET (Final \cup {"dispatch"})],
           \A b \in Attempts \ {a} : reports'[b] = reports[b],
           cause' \in [Attempts -> {"none", "discarded", "delivered", "expired"}],
           \A b \in Attempts \ {a} : cause'[b] = cause[b]
    PROVE  /\ Types' /\ \A b \in Attempts \ {a} : Alone(b)
           /\ (\A s : True(a, s) => True(a, s)') /\ Bound(a)' = Bound(a)
<1>1. Types'
  BY DEF IInv, Types, Threads
<1>2. \A b \in Attempts \ {a} : Alone(b)
  BY DEF Alone, Threads
<1>3. (\A s : True(a, s) => True(a, s)') /\ Bound(a)' = Bound(a)
  BY DEF True, Bound
<1> QED
  BY <1>1, <1>2, <1>3

LEMMA LoadGood ==
    ASSUME IInv, NEW p \in Processes, NEW a \in Attempts, Load(p, a)
    PROVE  IInv'
<1>1. /\ work[p][a].pc = "load" /\ Types /\ Good(a) /\ row[a] \in Row
      /\ UNCHANGED <<row, call, event, closed, expired, reports, cause, shared>>
  BY RowOf DEF Load, IInv, outside
<1>2. Threads(p, a) /\
        \/ work'[p][a].pc = "off"
        \/ /\ Exists(a) /\ work'[p][a].copy = row[a]
           /\ \/ row[a].status \in Final /\ work'[p][a].pc = "report"
              \/ /\ row[a].state = "bound" /\ row[a].status \notin Final
                 /\ work'[p][a].pc \in {"check", "dispatch"}
  <2>1. CASE Stops(p, a)
    BY <1>1, <2>1, Stopped
  <2>2. CASE Exists(a) /\ row[a].status \in Final /\ Goes(p, a, "report", row[a])
    BY <1>1, <2>2, Gone
  <2>3. CASE Exists(a) /\ row[a].status \notin Final /\ row[a].state = "bound"
             /\ Goes(p, a, "check", row[a])
    BY <1>1, <2>3, Gone
  <2>4. CASE Exists(a) /\ row[a].status \notin Final /\ row[a].state = "bound"
             /\ Goes(p, a, "dispatch", row[a])
    BY <1>1, <2>4, Gone
  <2> QED
    BY <2>1, <2>2, <2>3, <2>4 DEF Load
<1>3. /\ Types' /\ \A b \in Attempts \ {a} : Alone(b)
      /\ (\A s : True(a, s) => True(a, s)') /\ Bound(a)' = Bound(a)
  BY <1>1, <1>2, ThreadAlone DEF Types
<1>4. \A q \in Processes \ {p} : work'[q][a] = work[q][a]
  BY <1>2 DEF Threads
<1>5. call[a] = "done" \/ work'[p][a].pc = "off"
  BY <1>1, <1>2 DEF Good, Fresh, Final
<1>6. Fresh(a)' /\ Sound(a)' /\ Honest(a)' /\ Explained(a)'
  BY <1>1, <1>3, <1>4, <1>5 DEF Good, Fresh, Sound, Honest, Explained
<1>7. row[a].status \in Final \/ row[a].status = "accepted"
  BY <1>1, StatusOfRow
<1>8. Single(a)'
  <2>1. Exists(a)' <=> Exists(a)
    BY <1>1 DEF Exists
  <2>2. a \notin shared => \A q, o \in Processes :
            work'[q][a].pc # "off" /\ work'[o][a].pc # "off" => q = o
    BY <1>1, <1>4 DEF Good, Single
  <2>3. a \notin shared /\ work'[p][a].pc \in {"dispatch", "check", "settle"} =>
            row[a].status = "accepted" /\ reports[a] \cap Final = {}
    BY <1>1, <1>2, <1>7 DEF Good, Single, Final
  <2>4. a \notin shared /\ work'[p][a].pc = "report" =>
            reports[a] \cap Final \subseteq {row[a].status} /\ work'[p][a].copy = row[a]
    BY <1>1, <1>2 DEF Good, Single
  <2> QED
    BY <1>1, <1>4, <2>1, <2>2, <2>3, <2>4 DEF Good, Single
<1>9. Copied(p, a)'
  <2>1. work'[p][a].pc \notin {"off", "load"} => cause[a] # "discarded"
    BY <1>1, <1>2 DEF Good, Explained, Exists
  <2> QED
    BY <1>1, <1>2, <1>3, <1>7, <2>1 DEF Good, Sound, Copied, Final
<1>10. \A q \in Processes \ {p} : Copied(q, a)'
  BY <1>1, <1>3, <1>4 DEF Good, Copied
<1> QED
  BY <1>3, <1>6, <1>8, <1>9, <1>10, OneAttempt DEF Good

\* A report that is sent, whether it arrives or not.
LEMMA Reported ==
    ASSUME Types, NEW p \in Processes, NEW a \in Attempts,
           NEW s \in Final \cup {"dispatch"}, Posted(a, s) \/ Unposted(p, a, s)
    PROVE  /\ reports' \in [Attempts -> SUBSET (Final \cup {"dispatch"})]
           /\ \A b \in Attempts \ {a} : reports'[b] = reports[b]
           /\ reports'[a] = reports[a] \cup {s} \/ reports'[a] = reports[a]
           /\ Posted(a, s) => reports'[a] = reports[a] \cup {s}
  BY DEF Posted, Unposted, Types

LEMMA DispatchGood ==
    ASSUME IInv, NEW p \in Processes, NEW a \in Attempts, Dispatch(p, a)
    PROVE  IInv'
<1>1. /\ work[p][a].pc = "dispatch" /\ Types /\ Good(a)
      /\ UNCHANGED <<call, event, closed, expired, shared>>
  BY DEF Dispatch, IInv, outside
<1> DEFINE copy == work[p][a].copy
<1>2. /\ reports' \in [Attempts -> SUBSET (Final \cup {"dispatch"})]
      /\ \A b \in Attempts \ {a} : reports'[b] = reports[b]
      /\ reports'[a] = reports[a] \cup {"dispatch"} \/ reports'[a] = reports[a]
      /\ Posted(a, "dispatch") => reports'[a] = reports[a] \cup {"dispatch"}
  BY <1>1, Reported DEF Dispatch
<1>3. reports'[a] \cap Final = reports[a] \cap Final
  BY <1>2 DEF Final
<1>4. /\ Threads(p, a)
      /\ \/ work'[p][a].pc = "off"
         \/ /\ work'[p][a].pc = "check" /\ work'[p][a].copy = copy
  <2>1. CASE Stops(p, a)
    BY <1>1, <2>1, Stopped
  <2>2. CASE ~Stops(p, a)
    <3>1. PICK t : t = [pc |-> "check", copy |-> copy, sent |-> TRUE,
                        sweeps |-> work[p][a].sweeps]
      OBVIOUS
    <3>2. t \in Thread /\ t.pc = "check" /\ t.copy = copy
      BY <1>1, <3>1, ThreadOf DEF Thread
    <3>3. work' = [work EXCEPT ![p][a] = t]
      BY <1>1, <2>2, <3>1 DEF Dispatch, Types
    <3> QED
      BY <1>1, <3>2, <3>3, ThreadSet
  <2> QED
    BY <2>1, <2>2
<1>5. \/ Posted(a, "dispatch") /\ copy.events = {} /\ Delete(a, "delivered")
      \/ UNCHANGED <<row, cause>>
  BY DEF Dispatch
<1>6. /\ row' \in [Attempts -> Row] /\ \A b \in Attempts \ {a} : row'[b] = row[b]
      /\ cause' \in [Attempts -> {"none", "discarded", "delivered", "expired"}]
      /\ \A b \in Attempts \ {a} : cause'[b] = cause[b]
      /\ \/ row'[a] = row[a] /\ cause'[a] = cause[a]
         \/ /\ row'[a].state = "gone" /\ row'[a].status = "accepted" /\ Exists(a)
            /\ cause'[a] = "delivered" /\ copy.events = {}
            /\ reports'[a] = reports[a] \cup {"dispatch"}
  BY <1>1, <1>2, <1>5, Deleted DEF Types
<1>7. /\ Types' /\ \A b \in Attempts \ {a} : Alone(b)
      /\ (\A s : True(a, s) => True(a, s)') /\ Bound(a)' = Bound(a)
  BY <1>1, <1>2, <1>4, <1>6, ThreadAlone
<1>8. \A q \in Processes \ {p} : work'[q][a] = work[q][a]
  BY <1>4 DEF Threads
<1>9. call[a] = "done"
  BY <1>1 DEF Good, Fresh
<1>10. Fresh(a)' /\ Sound(a)' /\ Honest(a)'
  BY <1>1, <1>3, <1>6, <1>7, <1>9 DEF Good, Fresh, Sound, Honest, Final
<1>11. Explained(a)'
  <2>1. copy.events = {} => \A e \in Events : event[a][e] = "none"
    BY <1>1 DEF Good, Copied, Bound
  <2>2. cause[a] # "discarded"
    BY <1>1 DEF Good, Copied
  <2> QED
    BY <1>1, <1>2, <1>3, <1>6, <2>1, <2>2 DEF Good, Explained
<1>12. Single(a)'
  BY <1>1, <1>3, <1>4, <1>6, <1>8 DEF Good, Single, Exists, Final
<1>13. Copied(p, a)'
  BY <1>1, <1>4, <1>6, <1>7 DEF Good, Copied
<1>14. \A q \in Processes \ {p} : Copied(q, a)'
  BY <1>1, <1>6, <1>7, <1>8 DEF Good, Copied
<1> QED
  BY <1>7, <1>10, <1>11, <1>12, <1>13, <1>14, OneAttempt DEF Good

\* What the region's list says of an attempt is true.
LEMMA EvaluatedTrue ==
    ASSUME Types, NEW a \in Attempts, NEW listed \in SUBSET Bound(a)
    PROVE  /\ Evaluated(a, listed, Bound(a)) \in Final \cup {"accepted"}
           /\ True(a, Evaluated(a, listed, Bound(a)))
<1> DEFINE st == {event[a][e] : e \in listed}
           s == Evaluated(a, listed, Bound(a))
<1>1. s = IF "failure" \in st THEN "failure"
          ELSE IF "timeout" \in st THEN "timeout"
          ELSE IF Bound(a) \subseteq listed /\ st = {"success"} THEN "success" ELSE "accepted"
  BY DEF Evaluated
<1>2. \A v \in st : \E e \in Events : event[a][e] = v
  BY DEF Bound
<1>3. ASSUME Bound(a) \subseteq listed, st = {"success"} PROVE True(a, "success")
  <2>1. \E e \in Events : event[a][e] = "success"
    BY <1>2, <1>3
  <2>2. \A e \in Events : event[a][e] \in {"none", "success"}
    <3> SUFFICES ASSUME NEW e \in Events, event[a][e] # "none" PROVE event[a][e] = "success"
      OBVIOUS
    <3>1. e \in listed
      BY <1>3 DEF Bound
    <3>2. event[a][e] \in st
      BY <3>1
    <3> QED
      BY <1>3, <3>2
  <2> QED
    BY <2>1, <2>2 DEF True
<1> HIDE DEF st, s
<1>4. "failure" \in st => True(a, "failure")
  BY <1>2 DEF True
<1>5. "timeout" \in st => True(a, "timeout")
  BY <1>2 DEF True
<1>6. True(a, "accepted")
  BY DEF True
<1>7. s \in Final \cup {"accepted"} /\ True(a, s)
  BY <1>1, <1>3, <1>4, <1>5, <1>6 DEF Final
<1> QED
  BY <1>7 DEF s

LEMMA CheckGood ==
    ASSUME IInv, NEW p \in Processes, NEW a \in Attempts, Check(p, a)
    PROVE  IInv'
<1> DEFINE copy == work[p][a].copy
<1>1. /\ work[p][a].pc = "check" /\ Types /\ Good(a) /\ copy \in Row
      /\ UNCHANGED <<row, call, event, closed, expired, reports, cause, shared>>
  BY ThreadOf DEF Check, IInv, outside
<1>2. copy.state = "bound" /\ copy.events = Bound(a) /\ copy.status = "accepted"
  BY <1>1 DEF Good, Copied
<1>3. Goes(p, a, "load", NoRow)
      \/ \E s \in Final : True(a, s) /\ Goes(p, a, "settle", [copy EXCEPT !.status = s])
  <2>1. CASE a \in closed
    <3>1. True(a, "timeout")
      BY <2>1 DEF True
    <3> QED
      BY <1>1, <2>1, <3>1 DEF Check, Final
  <2>2. CASE Goes(p, a, "load", NoRow)
    BY <2>2
  <2>3. CASE \E listed \in SUBSET copy.events :
                LET s == Evaluated(a, listed, copy.events)
                IN  s # "accepted" /\ Goes(p, a, "settle", [copy EXCEPT !.status = s])
    <3>1. PICK listed \in SUBSET Bound(a) :
             LET s == Evaluated(a, listed, Bound(a))
             IN  s # "accepted" /\ Goes(p, a, "settle", [copy EXCEPT !.status = s])
      BY <1>2, <2>3
    <3> DEFINE s == Evaluated(a, listed, Bound(a))
    <3>2. s \in Final /\ True(a, s)
      BY <1>1, <3>1, EvaluatedTrue
    <3> QED
      BY <3>1, <3>2
  <2> QED
    BY <2>1, <2>2, <2>3 DEF Check
<1>4. /\ Threads(p, a)
      /\ \/ work'[p][a].pc = "load"
         \/ /\ work'[p][a].pc = "settle"
            /\ work'[p][a].copy.state = "bound" /\ work'[p][a].copy.events = Bound(a)
            /\ work'[p][a].copy.status \in Final /\ True(a, work'[p][a].copy.status)
  <2>1. CASE Goes(p, a, "load", NoRow)
    BY <1>1, <2>1, Gone, OffThread
  <2>2. CASE \E s \in Final : True(a, s) /\ Goes(p, a, "settle", [copy EXCEPT !.status = s])
    <3>1. PICK s \in Final : True(a, s) /\ Goes(p, a, "settle", [copy EXCEPT !.status = s])
      BY <2>2
    <3>2. PICK r : r = [copy EXCEPT !.status = s]
      OBVIOUS
    <3>3. r \in Row /\ r.state = "bound" /\ r.events = Bound(a) /\ r.status = s
      BY <1>1, <1>2, <3>2 DEF Row
    <3>4. Threads(p, a) /\ work'[p][a].pc = "settle" /\ work'[p][a].copy = r
      BY <1>1, <3>1, <3>2, <3>3, Gone
    <3> QED
      BY <3>1, <3>3, <3>4
  <2> QED
    BY <1>3, <2>1, <2>2
<1>5. /\ Types' /\ \A b \in Attempts \ {a} : Alone(b)
      /\ (\A s : True(a, s) => True(a, s)') /\ Bound(a)' = Bound(a)
  BY <1>1, <1>4, ThreadAlone DEF Types
<1>6. \A q \in Processes \ {p} : work'[q][a] = work[q][a]
  BY <1>4 DEF Threads
<1>7. call[a] = "done"
  BY <1>1 DEF Good, Fresh
<1>8. Fresh(a)' /\ Sound(a)' /\ Honest(a)' /\ Explained(a)'
  BY <1>1, <1>5, <1>7 DEF Good, Fresh, Sound, Honest, Explained
<1>9. Single(a)'
  BY <1>1, <1>4, <1>6 DEF Good, Single, Exists
<1>10. Copied(p, a)'
  <2>1. True(a, work'[p][a].copy.status) => True(a, work[p][a].copy.status)'
    BY <1>1 DEF True
  <2> QED
    BY <1>1, <1>4, <1>5, <2>1 DEF Good, Copied
<1>11. \A q \in Processes \ {p} : Copied(q, a)'
  BY <1>1, <1>5, <1>6 DEF Good, Copied
<1> QED
  BY <1>5, <1>8, <1>9, <1>10, <1>11, OneAttempt DEF Good

LEMMA SettleGood ==
    ASSUME IInv, NEW p \in Processes, NEW a \in Attempts, Settle(p, a)
    PROVE  IInv'
<1>1. /\ work[p][a].pc = "settle" /\ Types /\ Good(a) /\ work[p][a].copy \in Row
      /\ UNCHANGED <<call, event, closed, expired, reports, cause, shared>>
  BY ThreadOf DEF Settle, IInv, outside
<1>2. PICK r : r = work[p][a].copy
  OBVIOUS
<1>3. /\ r \in Row /\ r.state = "bound" /\ r.events = Bound(a) /\ r.status \in Final
      /\ True(a, r.status) /\ cause[a] # "discarded"
  BY <1>1, <1>2 DEF Good, Copied
<1>4. /\ row' \in [Attempts -> Row] /\ \A b \in Attempts \ {a} : row'[b] = row[b]
      /\ Threads(p, a)
      /\ \/ /\ Exists(a) /\ row'[a] = r
            /\ work'[p][a].pc = "report" /\ work'[p][a].copy = r
         \/ ~Exists(a) /\ row'[a] = row[a] /\ work'[p][a].pc = "off"
  <2>1. CASE Exists(a)
    <3>1. row' = [row EXCEPT ![a] = r] /\ Goes(p, a, "report", r)
      BY <1>2, <2>1 DEF Settle
    <3>2. /\ row' \in [Attempts -> Row] /\ row'[a] = r
          /\ \A b \in Attempts \ {a} : row'[b] = row[b]
      BY <1>1, <1>3, <3>1 DEF Types
    <3> QED
      BY <1>1, <1>3, <2>1, <3>1, <3>2, Gone
  <2>2. CASE ~Exists(a)
    BY <1>1, <2>2, Stopped DEF Settle, Types
  <2> QED
    BY <2>1, <2>2
<1>5. /\ Types' /\ \A b \in Attempts \ {a} : Alone(b)
      /\ (\A s : True(a, s) => True(a, s)') /\ Bound(a)' = Bound(a)
  BY <1>1, <1>4, ThreadAlone DEF Types
<1>6. \A q \in Processes \ {p} : work'[q][a] = work[q][a]
  BY <1>4 DEF Threads
<1>7. call[a] = "done"
  BY <1>1 DEF Good, Fresh
<1>8. Fresh(a)' /\ Honest(a)'
  BY <1>1, <1>5, <1>7 DEF Good, Fresh, Honest
<1>9. Sound(a)'
  BY <1>1, <1>3, <1>4, <1>5 DEF Good, Sound
<1>10. Explained(a)'
  BY <1>1, <1>3, <1>4 DEF Good, Explained, Exists
<1>11. Single(a)'
  <2>1. a \notin shared => reports[a] \cap Final = {}
    BY <1>1 DEF Good, Single
  <2>2. a \notin shared => \A q \in Processes \ {p} : work[q][a].pc = "off"
    BY <1>1 DEF Good, Single
  <2>3. \E s \in Final : TRUE
    BY <1>3
  <2>4. a \notin shared' =>
           /\ reports'[a] \cap Final = {} /\ \A q \in Processes \ {p} : work'[q][a].pc = "off"
           /\ work'[p][a].pc \in {"report", "off"}
           /\ work'[p][a].pc = "report" => row'[a].status = work'[p][a].copy.status
    BY <1>1, <1>4, <1>6, <2>1, <2>2
  <2> QED
    BY <2>3, <2>4 DEF Single
<1>12. Copied(p, a)'
  BY <1>1, <1>3, <1>4, <1>5 DEF Good, Copied
<1>13. \A q \in Processes \ {p} : Copied(q, a)'
  BY <1>1, <1>5, <1>6 DEF Good, Copied
<1> QED
  BY <1>5, <1>8, <1>9, <1>10, <1>11, <1>12, <1>13, OneAttempt DEF Good

LEMMA ReportGood ==
    ASSUME IInv, NEW p \in Processes, NEW a \in Attempts, Report(p, a)
    PROVE  IInv'
<1>1. /\ work[p][a].pc = "report" /\ Types /\ Good(a)
      /\ UNCHANGED <<call, event, closed, expired, shared>>
  BY DEF Report, IInv, outside
<1>2. PICK s : s = work[p][a].copy.status
  OBVIOUS
<1>3. s \in Final /\ True(a, s) /\ cause[a] # "discarded"
  BY <1>1, <1>2 DEF Good, Copied
<1>4. /\ reports' \in [Attempts -> SUBSET (Final \cup {"dispatch"})]
      /\ \A b \in Attempts \ {a} : reports'[b] = reports[b]
      /\ reports'[a] = reports[a] \cup {s} \/ reports'[a] = reports[a]
      /\ Posted(a, s) => reports'[a] = reports[a] \cup {s}
  BY <1>1, <1>2, <1>3, Reported DEF Report
<1>5. Threads(p, a) /\ work'[p][a].pc = "off"
  BY <1>1, Stopped DEF Report
<1>6. /\ row' \in [Attempts -> Row] /\ \A b \in Attempts \ {a} : row'[b] = row[b]
      /\ cause' \in [Attempts -> {"none", "discarded", "delivered", "expired"}]
      /\ \A b \in Attempts \ {a} : cause'[b] = cause[b]
      /\ \/ row'[a] = row[a] /\ cause'[a] = cause[a]
         \/ /\ row'[a].state = "gone" /\ row'[a].status = "accepted" /\ Exists(a)
            /\ cause'[a] = "delivered" /\ s \in reports'[a]
  <2>1. CASE UNCHANGED <<row, cause>>
    BY <1>1, <2>1 DEF Types
  <2>2. CASE Posted(a, s) /\ Delete(a, "delivered")
    BY <1>1, <1>4, <2>2, Deleted
  <2> QED
    BY <1>2, <2>1, <2>2 DEF Report
<1>7. /\ Types' /\ \A b \in Attempts \ {a} : Alone(b)
      /\ (\A t : True(a, t) => True(a, t)') /\ Bound(a)' = Bound(a)
  BY <1>1, <1>4, <1>5, <1>6, ThreadAlone
<1>8. \A q \in Processes \ {p} : work'[q][a] = work[q][a]
  BY <1>5 DEF Threads
<1>9. call[a] = "done"
  BY <1>1 DEF Good, Fresh
<1>10. Fresh(a)' /\ Sound(a)' /\ Honest(a)'
  BY <1>1, <1>3, <1>4, <1>6, <1>7, <1>9 DEF Good, Fresh, Sound, Honest, Final
<1>11. Explained(a)'
  BY <1>1, <1>3, <1>4, <1>6 DEF Good, Explained
<1>12. Single(a)'
  <2>1. a \notin shared => \A q \in Processes \ {p} : work[q][a].pc = "off"
    BY <1>1 DEF Good, Single
  <2>2. a \notin shared =>
           reports[a] \cap Final \subseteq {s} /\ (Exists(a) => row[a].status = s)
    BY <1>1, <1>2 DEF Good, Single
  <2>3. a \notin shared' =>
           /\ \A q \in Processes : work'[q][a].pc = "off"
           /\ reports'[a] \cap Final \subseteq {s}
           /\ Exists(a)' => row'[a].status = s
    BY <1>1, <1>4, <1>5, <1>6, <1>8, <2>1, <2>2 DEF Exists
  <2> QED
    BY <1>3, <2>3 DEF Single
<1>13. Copied(p, a)'
  BY <1>5 DEF Copied
<1>14. \A q \in Processes \ {p} : Copied(q, a)'
  BY <1>1, <1>6, <1>7, <1>8 DEF Good, Copied
<1> QED
  BY <1>7, <1>10, <1>11, <1>12, <1>13, <1>14, OneAttempt DEF Good

-----------------------------------------------------------------------------
(* The sweeper and the rest of the world                                   *)

\* A sweep counts itself in the threads and leaves them otherwise as they are.
LEMMA SweptThreads ==
    ASSUME IInv, NEW p \in Processes, Sweep(p)
    PROVE  /\ work' \in [Processes -> [Attempts -> Thread]]
           /\ \A q \in Processes, b \in Attempts :
                 work'[q][b].pc = work[q][b].pc /\ work'[q][b].copy = work[q][b].copy
<1>0. Types
  BY DEF IInv
<1>1. CASE work' = work
  BY <1>0, <1>1 DEF Types
<1>2. CASE work' # work
  <2>1. PICK g : g = [b \in Attempts |-> IF b \in Posting(p)
                          THEN [work[p][b] EXCEPT !.sweeps = 1] ELSE work[p][b]]
    OBVIOUS
  <2>2. work' = [work EXCEPT ![p] = g]
    BY <1>2, <2>1 DEF Sweep
  <2>3. ASSUME NEW b \in Attempts
        PROVE  g[b] \in Thread /\ g[b].pc = work[p][b].pc /\ g[b].copy = work[p][b].copy
    <3>1. work[p][b] \in Thread
      BY <1>0, ThreadOf
    <3>2. PICK t : t = [work[p][b] EXCEPT !.sweeps = 1]
      OBVIOUS
    <3>3. t \in Thread /\ t.pc = work[p][b].pc /\ t.copy = work[p][b].copy
      BY <3>1, <3>2 DEF Thread
    <3>4. g[b] = t \/ g[b] = work[p][b]
      BY <2>1, <3>2
    <3> QED
      BY <3>1, <3>3, <3>4
  <2>4. g \in [Attempts -> Thread]
    BY <2>1, <2>3
  <2> QED
    BY <1>0, <2>2, <2>3, <2>4 DEF Types
<1> QED
  BY <1>1, <1>2

LEMMA SweepGood == ASSUME IInv, NEW p \in Processes, Sweep(p) PROVE IInv'
<1>1. UNCHANGED <<row, call, event, closed, expired, reports, cause, shared>> /\ Types
  BY DEF Sweep, outside, IInv
<1>2. /\ work' \in [Processes -> [Attempts -> Thread]]
      /\ \A q \in Processes, b \in Attempts :
            work'[q][b].pc = work[q][b].pc /\ work'[q][b].copy = work[q][b].copy
  BY SweptThreads
<1>3. Types' /\ \A b \in Attempts : Alone(b)
  BY <1>1, <1>2 DEF Types, Alone
<1> QED
  BY <1>3, StaysGood DEF IInv

\* An attempt that is too old, or is given a thread.
LEMMA SweepOneGood == ASSUME IInv, NEW p \in Processes, SweepOne(p) PROVE IInv'
<1>1. /\ Types /\ UNCHANGED <<call, event, closed, expired, reports>>
  BY DEF SweepOne, IInv, outside
<1>2. PICK a : a = Head(queue[p])
  OBVIOUS
<1>3. \/ a \in expired /\ Delete(a, "expired") /\ UNCHANGED <<work, shared>>
      \/ Start(p, a) /\ UNCHANGED <<row, cause>>
  BY <1>2 DEF SweepOne
<1>4. CASE a \notin Attempts
  <2>1. /\ work' \in [Processes -> [Attempts -> Thread]]
        /\ \A q \in Processes, b \in Attempts : work'[q][b] = work[q][b]
    <3>1. CASE work' = work
      BY <1>1, <3>1 DEF Types
    <3>2. CASE work' # work
      <4>1. PICK t : t = [Off EXCEPT !.pc = "load"]
        OBVIOUS
      <4>2. work' = [work EXCEPT ![p] = [work[p] EXCEPT ![a] = t]]
        BY <1>3, <3>2, <4>1 DEF Start
      <4>3. [work[p] EXCEPT ![a] = t] = work[p]
        BY <1>1, <1>4 DEF Types
      <4> QED
        BY <1>1, <4>2, <4>3 DEF Types
    <3> QED
      BY <3>1, <3>2
  <2>2. \/ row' = row /\ cause' = cause
        \/ \E x, y : row' = [row EXCEPT ![a] = x] /\ cause' = [cause EXCEPT ![a] = y]
    BY <1>3 DEF Delete
  <2>3. row' = row /\ cause' = cause
    BY <1>1, <1>4, <2>2 DEF Types
  <2>4. shared \subseteq shared'
    BY <1>3 DEF Start
  <2>5. Types' /\ \A b \in Attempts : Alone(b)
    BY <1>1, <2>1, <2>3, <2>4 DEF Types, Alone
  <2> QED
    BY <2>5, StaysGood DEF IInv
<1>5. CASE a \in Attempts
  <2>1. (\A s : True(a, s) => True(a, s)') /\ Bound(a)' = Bound(a) /\ Good(a)
    BY <1>1, <1>5 DEF True, Bound, IInv
  <2>2. CASE a \in expired /\ Delete(a, "expired") /\ UNCHANGED <<work, shared>>
    <3>1. Types' /\ \A b \in Attempts \ {a} : Alone(b)
      BY <1>1, <1>5, <2>2, Deleted DEF Types, Alone
    <3>2. CASE Exists(a)
      <4>1. row'[a].state = "gone" /\ row'[a].status = "accepted" /\ cause'[a] = "expired"
        BY <1>1, <1>5, <2>2, <3>2, Deleted
      <4>2. call[a] # "idle"
        BY <2>1, <3>2 DEF Good, Fresh, Exists
      <4>3. Fresh(a)' /\ Sound(a)' /\ Honest(a)' /\ Explained(a)'
        BY <1>1, <2>1, <2>2, <4>1, <4>2 DEF Good, Fresh, Sound, Honest, Explained, Final
      <4>4. Single(a)'
        BY <1>1, <2>1, <2>2, <4>1 DEF Good, Single, Exists
      <4>5. \A q \in Processes : Copied(q, a)'
        BY <1>1, <2>1, <2>2, <4>1 DEF Good, Copied
      <4> QED
        BY <1>5, <3>1, <4>3, <4>4, <4>5, OneAttempt DEF Good
    <3>3. CASE ~Exists(a)
      <4>1. Alone(a)
        BY <1>1, <1>5, <2>2, <3>3, Deleted DEF Alone
      <4> QED
        BY <1>5, <2>1, <3>1, <4>1, StaysGood, OneAttempt
    <3> QED
      BY <3>2, <3>3
  <2>3. CASE Start(p, a) /\ UNCHANGED <<row, cause>>
    <3>1. Types' /\ \A b \in Attempts \ {a} : Alone(b)
      BY <1>1, <1>5, <2>3, Started DEF Types, Alone, Threads
    <3>2. CASE UNCHANGED <<work, shared>>
      <4>1. Alone(a)
        BY <1>1, <2>3, <3>2 DEF Alone
      <4> QED
        BY <1>5, <2>1, <3>1, <4>1, StaysGood, OneAttempt
    <3>3. CASE ~UNCHANGED <<work, shared>>
      <4>1. /\ work'[p][a].pc = "load" /\ shared \subseteq shared'
            /\ \A q \in Processes \ {p} : work'[q][a] = work[q][a]
            /\ a \notin shared' => \A q \in Processes : work[q][a].pc = "off"
        BY <1>1, <1>5, <2>3, <3>3, Started DEF Threads
      <4>2. Fresh(a)' /\ Sound(a)' /\ Honest(a)' /\ Explained(a)'
        BY <1>1, <2>1, <2>3, <4>1 DEF Good, Fresh, Sound, Honest, Explained
      <4>3. Single(a)'
        <5>1. Exists(a)' <=> Exists(a)
          BY <2>3 DEF Exists
        <5> QED
          BY <1>1, <2>1, <2>3, <4>1, <5>1 DEF Good, Single
      <4>4. \A q \in Processes : Copied(q, a)'
        BY <1>1, <2>1, <2>3, <4>1 DEF Good, Copied
      <4> QED
        BY <1>5, <3>1, <4>2, <4>3, <4>4, OneAttempt DEF Good
    <3> QED
      BY <3>2, <3>3
  <2> QED
    BY <1>3, <2>2, <2>3
<1> QED
  BY <1>4, <1>5

LEMMA HappensGood ==
    ASSUME IInv, NEW a \in Attempts, NEW e \in Events, NEW s \in Final, Happens(a, e, s)
    PROVE  IInv'
<1>1. /\ event[a][e] = "running" /\ Types /\ Good(a)
      /\ UNCHANGED <<row, call, closed, expired, work, reports, cause, shared>>
  BY DEF Happens, IInv
<1>2. PICK f : f = [event[a] EXCEPT ![e] = s]
  OBVIOUS
<1>3. /\ f \in [Events -> Final \cup {"none", "running"}]
      /\ f[e] = s /\ \A d \in Events \ {e} : f[d] = event[a][d]
  BY <1>1, <1>2 DEF Types
<1>4. event' = [event EXCEPT ![a] = f]
  BY <1>2 DEF Happens
<1>5. /\ event' \in [Attempts -> [Events -> Final \cup {"none", "running"}]]
      /\ event'[a] = f /\ \A b \in Attempts \ {a} : event'[b] = event[b]
  BY <1>1, <1>3, <1>4 DEF Types
<1>6. Types' /\ \A b \in Attempts \ {a} : Alone(b)
  BY <1>1, <1>5 DEF Types, Alone
<1>7. Bound(a)' = Bound(a) /\ (Exists(a)' <=> Exists(a))
  BY <1>1, <1>3, <1>5 DEF Bound, Exists, Final
<1>8. ASSUME NEW x \in Final, True(a, x) PROVE True(a, x)'
  <2>1. \A d \in Events : event[a][d] # "running" => event'[a][d] = event[a][d]
    BY <1>1, <1>3, <1>5
  <2>2. x # "success"
    BY <1>1, <1>8 DEF True
  <2>3. ~(\A d \in Events : event[a][d] = "none")
    BY <1>1
  <2> QED
    BY <1>1, <1>8, <2>1, <2>2, <2>3 DEF True
<1>9. call[a] = "done" /\ ~(\A d \in Events : event[a][d] = "none")
  BY <1>1 DEF Good, Fresh, Types
<1>10. Fresh(a)' /\ Sound(a)' /\ Honest(a)' /\ Explained(a)' /\ Single(a)'
  BY <1>1, <1>7, <1>8, <1>9 DEF Good, Fresh, Sound, Honest, Explained, Single
<1>11. \A q \in Processes : Copied(q, a)'
  BY <1>1, <1>7, <1>8 DEF Good, Copied
<1> QED
  BY <1>6, <1>10, <1>11, OneAttempt DEF Good

LEMMA NextGood == ASSUME IInv, [Next]_vars PROVE IInv'
<1>1. ASSUME NEW a \in Attempts, Close(a) \/ Expire(a) PROVE IInv'
  <2>1. Types' /\ \A b \in Attempts : Alone(b)
    BY <1>1 DEF Close, Expire, IInv, Types, Alone
  <2> QED
    BY <2>1, StaysGood DEF IInv
<1>2. ASSUME NEW p \in Processes, Restart(p) PROVE IInv'
  <2>1. UNCHANGED <<row, call, event, closed, expired, reports, cause, shared>> /\ Types
    BY <1>2 DEF Restart, outside, IInv
  <2>2. PICK g : g = [a \in Attempts |-> Off]
    OBVIOUS
  <2>3. g \in [Attempts -> Thread] /\ \A a \in Attempts : g[a].pc = "off"
    BY <2>2, OffThread
  <2>4. work' = [work EXCEPT ![p] = g]
    BY <1>2, <2>2 DEF Restart
  <2>5. Types' /\ \A b \in Attempts : Alone(b)
    BY <2>1, <2>3, <2>4 DEF Types, Alone
  <2> QED
    BY <2>5, StaysGood DEF IInv
<1>3. CASE UNCHANGED vars
  <2>1. Types' /\ \A b \in Attempts : Alone(b)
    BY <1>3 DEF vars, outside, IInv, Types, Alone
  <2> QED
    BY <2>1, StaysGood DEF IInv
<1> QED
  BY <1>1, <1>2, <1>3, BeginGood, BindGood, DiscardGood, MarkFailureGood, CallDiesGood,
     LoadGood, DispatchGood, CheckGood, SettleGood, ReportGood, SweepGood, SweepOneGood,
     HappensGood DEF Next

LEMMA InitGood == Init => IInv
<1> SUFFICES ASSUME Init PROVE IInv
  OBVIOUS
<1>1. Types
  BY OffThread DEF Init, Types, Final
<1>2. ASSUME NEW a \in Attempts PROVE Good(a)
  <2>1. /\ row[a] = NoRow /\ call[a] = "idle" /\ reports[a] = {} /\ cause[a] = "none"
        /\ \A e \in Events : event[a][e] = "none"
        /\ \A p \in Processes : work[p][a] = Off
    BY <1>2 DEF Init
  <2>2. \E s \in Final : TRUE
    BY DEF Final
  <2> QED
    BY <2>1, <2>2, OffThread
    DEF Good, Fresh, Sound, Honest, Explained, Single, Copied, Exists, Final
<1> QED
  BY <1>1, <1>2 DEF IInv

LEMMA Invariant == Spec => []IInv
  BY InitGood, NextGood, PTL DEF Spec

-----------------------------------------------------------------------------
(* The properties                                                          *)

LEMMA TrueSays ==
    ASSUME NEW a \in Attempts, NEW s \in Final, True(a, s)
    PROVE  LET ended == {event[a][e] : e \in Bound(a)}
           IN  /\ s = "success" => ended = {"success"}
               /\ s = "failure" => "failure" \in ended \/ Bound(a) = {}
               /\ s = "timeout" => "timeout" \in ended \/ a \in closed
<1>1. ASSUME NEW v, v # "none", \E e \in Events : event[a][e] = v
      PROVE  v \in {event[a][e] : e \in Bound(a)}
  BY <1>1 DEF Bound
<1>2. s = "success" => \A e \in Bound(a) : event[a][e] = "success"
  BY DEF True, Bound
<1>3. s = "success" => {event[a][e] : e \in Bound(a)} = {"success"}
  BY <1>1, <1>2 DEF True
<1>4. (\A e \in Events : event[a][e] = "none") => Bound(a) = {}
  BY DEF Bound
<1> QED
  BY <1>1, <1>3, <1>4 DEF True

\* What is reported of an attempt is true (_evaluate_events).
THEOREM HonestReportsCorrect == Spec => []HonestReports
<1>1. IInv => HonestReports
  BY TrueSays DEF IInv, Good, Honest, HonestReports, Final
<1> QED
  BY <1>1, Invariant, PTL

\* An attempt has one result, unless two processes watch it at once (_start_worker,
\* _set_final).
THEOREM OneResultCorrect == Spec => []OneResult
<1>1. ASSUME IInv, NEW a \in Attempts, Cardinality(reports[a] \cap Final) > 1
      PROVE  a \in shared /\ "timeout" \in reports[a]
  <2>1. ASSUME NEW s, reports[a] \cap Final \subseteq {s} PROVE FALSE
    <3>1. IsFiniteSet({s}) /\ Cardinality({s}) = 1
      BY FS_Singleton
    <3>2. /\ Cardinality(reports[a] \cap Final) \in Nat
          /\ Cardinality(reports[a] \cap Final) <= 1
      BY <2>1, <3>1, FS_Subset, FS_CardinalityType
    <3> QED
      BY <1>1, <3>2
  <2>2. a \in shared
    BY <1>1, <2>1 DEF IInv, Good, Single
  <2>3. ASSUME "timeout" \notin reports[a] PROVE FALSE
    <3>1. "success" \in reports[a] /\ "failure" \in reports[a]
      BY <2>1, <2>3 DEF Final
    <3>2. True(a, "success") /\ True(a, "failure")
      BY <1>1, <3>1 DEF IInv, Good, Honest, Final
    <3> QED
      BY <3>2 DEF True
  <2> QED
    BY <2>2, <2>3
<1>2. IInv => OneResult
  BY <1>1 DEF OneResult
<1> QED
  BY <1>2, Invariant, PTL

\* A tracker goes away for one of three reasons, and is not forgotten otherwise
\* (safe_bind_tool_result, _report_final, sweep_once).
THEOREM NothingDroppedCorrect == Spec => []NothingDropped
<1>1. ASSUME IInv, NEW a \in Attempts, row[a].state = "gone"
      PROVE  \/ cause[a] = "discarded" /\ Bound(a) = {} /\ reports[a] = {}
             \/ /\ cause[a] = "delivered"
                /\ reports[a] \cap Final # {} \/ (Bound(a) = {} /\ "dispatch" \in reports[a])
             \/ cause[a] = "expired" /\ a \in expired
  <2>1. (\A e \in Events : event[a][e] = "none") => Bound(a) = {}
    BY DEF Bound
  <2> QED
    BY <1>1, <2>1 DEF IInv, Good, Explained
<1>2. IInv => NothingDropped
  BY <1>1 DEF NothingDropped
<1> QED
  BY <1>2, Invariant, PTL

\* A tracker does not come back and a result stays a result (_set_final).
THEOREM RowsMoveOnCorrect == Spec => RowsMoveOn
<1> DEFINE Moves(a) ==
              /\ row[a].state = "gone" => row'[a].state = "gone"
              /\ row[a].status \in Final => row'[a].status \in Final \/ row'[a].state = "gone"
<1>1. ASSUME IInv, [Next]_vars, NEW b \in Attempts PROVE Moves(b)
  <2>1. CASE UNCHANGED row
    BY <2>1
  <2>2. ASSUME NEW a \in Attempts, NEW r \in Row, row' = [row EXCEPT ![a] = r],
               row[a].state # "gone" \/ r.state = "gone",
               row[a].status \notin Final \/ r.status \in Final \/ r.state = "gone"
        PROVE  Moves(b)
    BY <1>1, <2>2 DEF IInv, Types
  <2> HIDE DEF Moves
  <2>3. ASSUME NEW a \in Attempts, NEW why, Delete(a, why) PROVE Moves(b)
    <3>1. PICK r : r = [NoRow EXCEPT !.state = "gone"]
      OBVIOUS
    <3>2. r \in Row /\ r.state = "gone"
      BY <3>1 DEF NoRow, Row
    <3> QED
      BY <2>1, <2>2, <2>3, <3>1, <3>2 DEF Delete
  <2>4. ASSUME NEW a \in Attempts, Begin(a) PROVE Moves(b)
    <3>1. PICK r : r = [row[a] EXCEPT !.state = "awaiting"]
      OBVIOUS
    <3>2. r \in Row /\ r.status = row[a].status
      BY <1>1, <3>1, RowOf DEF IInv, Row
    <3>3. row[a].state = "none"
      BY <1>1, <2>4 DEF Begin, IInv, Good, Fresh
    <3> QED
      BY <2>2, <2>4, <3>1, <3>2, <3>3 DEF Begin
  <2>5. ASSUME NEW p \in Processes, NEW a \in Attempts, Bind(p, a) PROVE Moves(b)
    <3>1. CASE ~Exists(a)
      BY <2>1, <2>5, <3>1 DEF Bind
    <3>2. CASE Exists(a)
      <4>1. PICK E \in SUBSET Events :
               row' = [row EXCEPT ![a] = [state |-> "bound", status |-> "accepted",
                                          events |-> E]]
        BY <2>5, <3>2 DEF Bind
      <4>2. PICK r : r = [state |-> "bound", status |-> "accepted", events |-> E]
        OBVIOUS
      <4>3. r \in Row
        BY <4>2 DEF Row
      <4>4. row[a].state # "gone" /\ row[a].status \notin Final
        BY <1>1, <2>5, <3>2 DEF Bind, IInv, Good, Fresh, Exists, Final
      <4> QED
        BY <2>2, <4>1, <4>2, <4>3, <4>4
    <3> QED
      BY <3>1, <3>2
  <2>6. ASSUME NEW p \in Processes, NEW a \in Attempts, MarkFailure(p, a) PROVE Moves(b)
    <3>1. CASE ~Exists(a)
      BY <2>1, <2>6, <3>1 DEF MarkFailure
    <3>2. CASE Exists(a)
      <4>1. PICK r : r = [row[a] EXCEPT !.status = "failure"]
        OBVIOUS
      <4>2. r \in Row /\ r.status \in Final /\ row[a].state # "gone"
        BY <1>1, <3>2, <4>1, RowOf DEF IInv, Row, Final, Exists
      <4> QED
        BY <2>2, <2>6, <3>2, <4>1, <4>2 DEF MarkFailure
    <3> QED
      BY <3>1, <3>2
  <2>7. ASSUME NEW p \in Processes, NEW a \in Attempts, Settle(p, a) PROVE Moves(b)
    <3>1. CASE ~Exists(a)
      BY <2>1, <2>7, <3>1 DEF Settle
    <3>2. CASE Exists(a)
      <4>1. PICK r : r = work[p][a].copy
        OBVIOUS
      <4>2. r \in Row /\ r.status \in Final /\ row[a].state # "gone"
        BY <1>1, <2>7, <3>2, <4>1, ThreadOf DEF Settle, IInv, Good, Copied, Exists
      <4> QED
        BY <2>2, <2>7, <3>2, <4>1, <4>2 DEF Settle
    <3> QED
      BY <3>1, <3>2
  <2>8. ASSUME NEW p \in Processes, SweepOne(p) PROVE Moves(b)
    <3>1. PICK a : a = Head(queue[p])
      OBVIOUS
    <3>2. Delete(a, "expired") \/ UNCHANGED row
      BY <2>8, <3>1 DEF SweepOne
    <3>3. CASE a \in Attempts
      BY <2>1, <2>3, <3>2, <3>3
    <3>4. CASE a \notin Attempts
      <4>1. UNCHANGED row \/ \E x : row' = [row EXCEPT ![a] = x]
        BY <3>2 DEF Delete
      <4>2. UNCHANGED row
        BY <1>1, <3>4, <4>1 DEF IInv, Types
      <4> QED
        BY <2>1, <4>2
    <3> QED
      BY <3>3, <3>4
  <2>9. ASSUME NEW a \in Attempts, Discard(a) PROVE Moves(b)
    BY <2>1, <2>3, <2>9 DEF Discard
  <2>10. ASSUME NEW p \in Processes, NEW a \in Attempts, Dispatch(p, a) \/ Report(p, a)
         PROVE  Moves(b)
    BY <2>1, <2>3, <2>10 DEF Dispatch, Report
  <2>11. ASSUME NEW a \in Attempts, CallDies(a) \/ Close(a) \/ Expire(a) PROVE Moves(b)
    BY <2>1, <2>11 DEF CallDies, Close, Expire
  <2>12. ASSUME NEW p \in Processes, NEW a \in Attempts, Load(p, a) \/ Check(p, a)
         PROVE  Moves(b)
    BY <2>1, <2>12 DEF Load, Check
  <2>13. ASSUME NEW p \in Processes, Sweep(p) \/ Restart(p) PROVE Moves(b)
    BY <2>1, <2>13 DEF Sweep, Restart
  <2>14. ASSUME NEW a \in Attempts, NEW e \in Events, NEW s \in Final, Happens(a, e, s)
         PROVE  Moves(b)
    BY <2>1, <2>14 DEF Happens
  <2>15. CASE UNCHANGED vars
    BY <2>1, <2>15 DEF vars
  <2> QED
    BY <1>1, <2>4, <2>5, <2>6, <2>7, <2>8, <2>9, <2>10, <2>11, <2>12, <2>13, <2>14, <2>15
    DEF Next
<1>2. IInv /\ [Next]_vars => [\A a \in Attempts : Moves(a)]_vars
  BY <1>1
<1> QED
  BY <1>2, Invariant, PTL DEF Spec, RowsMoveOn

-----------------------------------------------------------------------------
(* What a loop over a sequence looks at                                    *)

\* f is the table by which Kept is computed, as far as n.
Table(f, s, S, n) ==
    f = [i \in 0 .. n |-> IF i = 0 THEN <<>>
                          ELSE IF s[i] \in S THEN Append(f[i - 1], s[i]) ELSE f[i - 1]]

\* A set of numbers that is not empty has a least element.
LEMMA First ==
    ASSUME NEW T, T \subseteq Nat, T # {}
    PROVE  \E n \in T : \A m \in Nat : m < n => m \notin T
<1>1. IsWellFoundedOn(OpToRel(<, Nat), Nat)
  BY NatLessThanWellFounded
<1>2. PICK x \in T : \A y \in T : ~(<<y, x>> \in OpToRel(<, Nat))
  BY <1>1, WFMin
<1> QED
  BY <1>2 DEF OpToRel

\* There is such a table: none is the first to be missing.
LEMMA Tables ==
    ASSUME NEW s, NEW S, NEW n \in Nat
    PROVE  \E f : Table(f, s, S, n)
<1> DEFINE T == {m \in Nat : ~ \E f : Table(f, s, S, m)}
<1> SUFFICES ASSUME T # {} PROVE FALSE
  OBVIOUS
<1>1. PICK m \in T : \A k \in Nat : k < m => k \notin T
  BY First
<1>2. CASE m = 0
  <2>1. Table([i \in 0 .. 0 |-> <<>>], s, S, 0)
    BY DEF Table
  <2> QED
    BY <1>2, <2>1
<1>3. CASE m # 0
  <2>1. PICK f : Table(f, s, S, m - 1)
    BY <1>1, <1>3
  <2> DEFINE g == [i \in 0 .. m |-> IF i < m THEN f[i]
                     ELSE IF s[m] \in S THEN Append(f[m - 1], s[m]) ELSE f[m - 1]]
  <2>2. Table(g, s, S, m)
    <3>1. \A i \in 0 .. m - 1 : g[i] = f[i]
      BY <1>3
    <3>2. ASSUME NEW i \in 0 .. m
          PROVE  g[i] = IF i = 0 THEN <<>>
                        ELSE IF s[i] \in S THEN Append(g[i - 1], s[i]) ELSE g[i - 1]
      <4>1. CASE i < m
        <5>1. f[i] = IF i = 0 THEN <<>>
                        ELSE IF s[i] \in S THEN Append(f[i - 1], s[i]) ELSE f[i - 1]
          <6>1. i \in 0 .. m - 1
            BY <4>1, <1>3
          <6> QED
            BY <2>1, <6>1, Zenon DEF Table
        <5>2. i # 0 => g[i - 1] = f[i - 1]
          BY <3>1, <4>1
        <5> QED
          BY <5>1, <5>2, <3>1, <4>1
      <4>2. CASE i = m
        BY <4>2, <3>1, <1>3
      <4> QED
        BY <4>1, <4>2
    <3> QED
      BY <3>2 DEF Table
  <2> QED
    BY <2>2
<1> QED
  BY <1>2, <1>3

\* Kept satisfies its own equation.
LEMMA KeptTable ==
    ASSUME NEW S0, NEW s \in Seq(S0), NEW S
    PROVE  \E f : Table(f, s, S, Len(s)) /\ Kept(s, S) = f[Len(s)]
<1> DEFINE f == CHOOSE g : Table(g, s, S, Len(s))
<1>1. Table(f, s, S, Len(s))
  BY Tables
<1>2. Kept(s, S) = f[Len(s)]
  BY DEF Kept, Table
<1> QED
  BY <1>1, <1>2


LEMMA Appended ==
    ASSUME NEW S0, NEW s \in Seq(S0), NEW x \in S0
    PROVE  /\ Append(s, x) \in Seq(S0) /\ Len(Append(s, x)) = Len(s) + 1
           /\ Range(Append(s, x)) = Range(s) \cup {x}
<1>1. Append(s, x) \in Seq(S0) /\ Len(Append(s, x)) = Len(s) + 1 /\ Len(s) \in Nat
  OBVIOUS
<1>2. \A i \in 1 .. Len(s) : Append(s, x)[i] = s[i]
  OBVIOUS
<1>3. Append(s, x)[Len(s) + 1] = x
  OBVIOUS
<1>4. 1 .. (Len(s) + 1) = (1 .. Len(s)) \cup {Len(s) + 1}
  BY <1>1
<1>5. Range(Append(s, x)) = Range(s) \cup {x}
  <2>1. ASSUME NEW y \in Range(Append(s, x)) PROVE y \in Range(s) \cup {x}
    BY <1>1, <1>2, <1>3, <1>4 DEF Range
  <2>2. ASSUME NEW y \in Range(s) PROVE y \in Range(Append(s, x))
    BY <1>1, <1>2, <1>4 DEF Range
  <2>3. x \in Range(Append(s, x))
    BY <1>1, <1>3, <1>4 DEF Range
  <2> QED
    BY <2>1, <2>2, <2>3
<1> QED
  BY <1>1, <1>5

\* What is kept of s are its elements in S.
LEMMA KeptSeq ==
    ASSUME NEW S0, NEW s \in Seq(S0), NEW S
    PROVE  /\ Kept(s, S) \in Seq(S0) /\ Len(Kept(s, S)) <= Len(s)
           /\ Range(Kept(s, S)) = Range(s) \cap S
<1>1. PICK f : Table(f, s, S, Len(s)) /\ Kept(s, S) = f[Len(s)]
  BY KeptTable
<1>2. \A i \in 0 .. Len(s) : f[i] = IF i = 0 THEN <<>>
                        ELSE IF s[i] \in S THEN Append(f[i - 1], s[i]) ELSE f[i - 1]
  BY <1>1, Zenon DEF Table
<1> DEFINE Part(i) == {s[j] : j \in 1 .. i}
           T == {i \in 0 .. Len(s) :
                    ~(f[i] \in Seq(S0) /\ Len(f[i]) <= i /\ Range(f[i]) = Part(i) \cap S)}
<1>3. Len(s) \in Nat
  OBVIOUS
<1>4. T = {}
  <2> SUFFICES ASSUME T # {} PROVE FALSE
    OBVIOUS
  <2>0. T \subseteq Nat
    BY <1>3
  <2>1. PICK i \in T : \A k \in Nat : k < i => k \notin T
    BY <2>0, First
  <2>2. CASE i = 0
    <3>1. 0 \in 0 .. Len(s)
      BY <1>3
    <3>2. f[0] = <<>>
      BY <1>2, <3>1
    <3>3. <<>> \in Seq(S0) /\ Len(<<>>) = 0 /\ Range(<<>>) = {} /\ Part(0) = {}
      BY DEF Range
    <3>4. f[0] \in Seq(S0) /\ Len(f[0]) <= 0 /\ Range(f[0]) = Part(0) \cap S
      BY <3>2, <3>3
    <3> QED
      BY <2>2, <3>4
  <2>3. CASE i # 0
    <3>1. i - 1 \in 0 .. Len(s) /\ i - 1 \notin T /\ i \in 1 .. Len(s)
      <4>1. i \in 0 .. Len(s)
        OBVIOUS
      <4> HIDE DEF T
      <4>2. i - 1 \in Nat /\ i - 1 < i
        BY <1>3, <2>3, <4>1
      <4> QED
        BY <1>3, <2>1, <2>3, <4>1, <4>2
    <3>2. /\ f[i - 1] \in Seq(S0) /\ Len(f[i - 1]) <= i - 1
          /\ Range(f[i - 1]) = Part(i - 1) \cap S
      BY <3>1
    <3>3. s[i] \in S0 /\ i \in 0 .. Len(s) /\ i \in Nat
      BY <1>3, <3>1
    <3>4. Part(i) = Part(i - 1) \cup {s[i]}
      <4>1. 1 .. i = (1 .. (i - 1)) \cup {i}
        BY <1>3, <3>1
      <4> QED
        BY <4>1
    <3> HIDE DEF Part
    <3>5. CASE s[i] \in S
      <4>1. f[i] = Append(f[i - 1], s[i])
        BY <1>2, <2>3, <3>3, <3>5
      <4>2. /\ f[i] \in Seq(S0) /\ Len(f[i]) = Len(f[i - 1]) + 1
            /\ Range(f[i]) = Range(f[i - 1]) \cup {s[i]}
        BY <3>2, <3>3, <4>1, Appended
      <4>3. Len(f[i - 1]) \in Nat
        BY <3>2
      <4>4. Len(f[i]) <= i
        BY <3>2, <3>3, <4>2, <4>3
      <4>5. Range(f[i]) = Part(i) \cap S
        BY <3>2, <3>4, <3>5, <4>2
      <4> QED
        BY <4>2, <4>4, <4>5
    <3>6. CASE s[i] \notin S
      <4>1. f[i] = f[i - 1]
        BY <1>2, <2>3, <3>3, <3>6
      <4>2. Len(f[i - 1]) \in Nat
        BY <3>2
      <4>3. Len(f[i]) <= i
        BY <3>2, <3>3, <4>1, <4>2
      <4>4. Range(f[i]) = Part(i) \cap S
        BY <3>2, <3>4, <3>6, <4>1
      <4> QED
        BY <3>2, <4>1, <4>3, <4>4
    <3> QED
      BY <3>5, <3>6
  <2> QED
    BY <2>2, <2>3
<1>5. Len(s) \in 0 .. Len(s)
  BY <1>3
<1>6. Range(s) = Part(Len(s))
  <2>1. DOMAIN s = 1 .. Len(s)
    OBVIOUS
  <2> QED
    BY <2>1, Zenon DEF Range
<1> QED
  BY <1>1, <1>4, <1>5, <1>6

\* To begin a sequence in its middle changes the order only.
LEMMA RotatedSeq ==
    ASSUME NEW S0, NEW s \in Seq(S0), NEW k \in 0 .. Len(s)
    PROVE  Rotated(s, k) \in Seq(S0) /\ Range(Rotated(s, k)) = Range(s)
<1>0. PICK n, u, v : n = Len(s) /\ u = SubSeq(s, k + 1, n) /\ v = SubSeq(s, 1, k)
  OBVIOUS
<1>1. n \in Nat /\ k \in Nat /\ k <= n
  BY <1>0
<1>2. \A i \in 1 .. n : s[i] \in S0
  BY <1>0
<1>3. u \in Seq(S0) /\ Len(u) = n - k /\ \A i \in 1 .. (n - k) : u[i] = s[k + i]
  BY <1>0, <1>1
<1>4. v \in Seq(S0) /\ Len(v) = k /\ \A i \in 1 .. k : v[i] = s[i]
  BY <1>0, <1>1
<1>5. PICK w : w = u \o v
  OBVIOUS
<1>6. /\ w \in Seq(S0) /\ Len(w) = Len(u) + Len(v)
      /\ \A i \in 1 .. Len(u) + Len(v) :
            w[i] = IF i <= Len(u) THEN u[i] ELSE v[i - Len(u)]
  BY <1>3, <1>4, <1>5, ConcatProperties, Zenon
<1>7. /\ Len(w) = n
      /\ \A i \in 1 .. (n - k) : w[i] = s[k + i]
      /\ \A i \in (n - k + 1) .. n : w[i] = s[i - (n - k)]
  <2>1. Len(w) = n /\ Len(u) = n - k /\ Len(u) + Len(v) = n
    BY <1>1, <1>3, <1>4, <1>6
  <2>2. ASSUME NEW i \in 1 .. (n - k) PROVE w[i] = s[k + i]
    <3>1. i \in 1 .. n /\ i <= n - k
      BY <1>1
    <3>2. w[i] = u[i]
      BY <1>6, <2>1, <3>1
    <3> QED
      BY <1>3, <3>2
  <2>3. ASSUME NEW i \in (n - k + 1) .. n PROVE w[i] = s[i - (n - k)]
    <3>1. i \in 1 .. n /\ ~(i <= n - k) /\ i - (n - k) \in 1 .. k
      BY <1>1
    <3>2. w[i] = v[i - (n - k)]
      BY <1>6, <2>1, <3>1
    <3> QED
      BY <1>4, <3>1, <3>2
  <2> QED
    BY <2>1, <2>2, <2>3
<1>8. ASSUME NEW i \in 1 .. n PROVE \E j \in 1 .. n : w[i] = s[j]
  <2>1. CASE i <= n - k
    BY <1>1, <1>7, <2>1
  <2>2. CASE i > n - k
    BY <1>1, <1>7, <2>2
  <2> QED
    BY <1>1, <2>1, <2>2
<1>9. ASSUME NEW i \in 1 .. n PROVE \E j \in 1 .. n : w[j] = s[i]
  <2>1. CASE i <= k
    <3>1. PICK j : j = n - k + i
      OBVIOUS
    <3>2. j \in (n - k + 1) .. n /\ j \in 1 .. n /\ j - (n - k) = i
      BY <1>1, <2>1, <3>1
    <3>3. w[j] = s[j - (n - k)]
      BY <1>7, <3>2
    <3> QED
      BY <3>2, <3>3
  <2>2. CASE i > k
    <3>1. PICK j : j = i - k
      OBVIOUS
    <3>2. j \in 1 .. (n - k) /\ j \in 1 .. n /\ k + j = i
      BY <1>1, <2>2, <3>1
    <3>3. w[j] = s[k + j]
      BY <1>7, <3>2
    <3> QED
      BY <3>2, <3>3
  <2> QED
    BY <1>1, <2>1, <2>2
<1>10. Rotated(s, k) = w
  BY <1>0, <1>5 DEF Rotated
<1>11. Range(w) = Range(s)
  <2>1. Range(w) = {w[i] : i \in 1 .. n} /\ Range(s) = {s[i] : i \in 1 .. n}
    <3>1. DOMAIN s = 1 .. Len(s)
      OBVIOUS
    <3>2. w \in Seq(S0) /\ Len(w) = n
      BY <1>6, <1>7
    <3>3. DOMAIN w = 1 .. n
      BY <3>2
    <3> QED
      BY <1>0, <3>1, <3>3, Zenon DEF Range
  <2> QED
    BY <1>8, <1>9, <2>1, Zenon
<1> QED
  BY <1>6, <1>10, <1>11

-----------------------------------------------------------------------------
(* Threads and sweepers within their bounds                                *)

\* What is not said by IInv: ages and counters, the sweepers, and how many threads a
\* process runs.
Ranges ==
    /\ closed \subseteq Attempts /\ expired \subseteq closed /\ shared \subseteq Attempts
    /\ faults \in 0 .. MaxFaults /\ restarts \in 0 .. MaxRestarts

Sweeper ==
    /\ queue \in [Processes -> Seq(Attempts)]
    /\ offset \in [Processes -> 0 .. Len(Order)]

Slots == \A p \in Processes : Cardinality(Running(p)) <= W

LEMMA AttemptsFinite == IsFiniteSet(Attempts)
<1>1. Len(Order) \in Nat /\ DOMAIN Order = 1 .. Len(Order)
  BY TrackingAssumption
<1>2. IsFiniteSet(1 .. Len(Order))
  BY <1>1, FS_Interval
<1>3. Order \in Surjection(1 .. Len(Order), Attempts)
  BY <1>1, TrackingAssumption DEF Surjection, Attempts
<1> QED
  BY <1>2, <1>3, FS_Surjection

\* A process with at most the threads it had has no more of them.
LEMMA NoMore ==
    ASSUME Slots, \A q \in Processes : Running(q)' \subseteq Running(q)
    PROVE  Slots'
<1>1. ASSUME NEW q \in Processes PROVE Cardinality(Running(q)') <= W
  <2>1. IsFiniteSet(Running(q)) /\ Running(q)' \subseteq Running(q)
    BY AttemptsFinite, FS_Subset DEF Running
  <2>2. Cardinality(Running(q)') <= Cardinality(Running(q))
    BY <2>1, FS_Subset
  <2>3. Cardinality(Running(q)) \in Nat /\ Cardinality(Running(q)') \in Nat
    BY <2>1, FS_Subset, FS_CardinalityType
  <2> QED
    BY <2>2, <2>3, TrackingAssumption DEF Slots
<1> QED
  BY <1>1 DEF Slots

LEMMA OneMore ==
    ASSUME Slots, NEW p \in Processes, NEW a, Cardinality(Running(p)) < W,
           Running(p)' \subseteq Running(p) \cup {a},
           \A q \in Processes \ {p} : Running(q)' \subseteq Running(q)
    PROVE  Slots'
<1>1. IsFiniteSet(Running(p))
  BY AttemptsFinite, FS_Subset DEF Running
<1>2. /\ IsFiniteSet(Running(p) \cup {a}) /\ Cardinality(Running(p)) \in Nat
      /\ Cardinality(Running(p) \cup {a}) <= Cardinality(Running(p)) + 1
  BY <1>1, FS_AddElement, FS_CardinalityType
<1>3. Cardinality(Running(p)') <= Cardinality(Running(p) \cup {a})
      /\ Cardinality(Running(p)') \in Nat /\ Cardinality(Running(p) \cup {a}) \in Nat
  BY <1>2, FS_Subset, FS_CardinalityType
<1>4. Cardinality(Running(p)') <= W
  BY <1>2, <1>3, TrackingAssumption
<1>5. ASSUME NEW q \in Processes \ {p} PROVE Cardinality(Running(q)') <= W
  <2>1. IsFiniteSet(Running(q)) /\ Running(q)' \subseteq Running(q)
    BY AttemptsFinite, FS_Subset DEF Running
  <2>2. Cardinality(Running(q)') <= Cardinality(Running(q))
    BY <2>1, FS_Subset
  <2>3. Cardinality(Running(q)) \in Nat /\ Cardinality(Running(q)') \in Nat
    BY <2>1, FS_Subset, FS_CardinalityType
  <2> QED
    BY <2>2, <2>3, TrackingAssumption DEF Slots
<1> QED
  BY <1>4, <1>5 DEF Slots

LEMMA StartedSlots ==
    ASSUME Types, Slots, NEW p \in Processes, NEW a \in Attempts, Start(p, a)
    PROVE  Slots'
<1>1. CASE UNCHANGED work
  BY <1>1, NoMore DEF Running
<1>2. CASE ~(UNCHANGED work)
  <2>1. Cardinality(Running(p)) < W
    <3>1. IsFiniteSet(Running(p))
      BY AttemptsFinite, FS_Subset DEF Running
    <3>2. Cardinality(Running(p)) \in Nat
      BY <3>1, FS_CardinalityType
    <3> QED
      BY <1>2, <3>2, TrackingAssumption DEF Start
  <2>2. Threads(p, a)
    BY Started
  <2>3. Running(p)' \subseteq Running(p) \cup {a}
    BY <2>2 DEF Threads, Running
  <2>4. \A q \in Processes \ {p} : Running(q)' \subseteq Running(q)
    BY <2>2 DEF Threads, Running
  <2> QED
    BY <2>1, <2>3, <2>4, OneMore
<1> QED
  BY <1>1, <1>2

\* A thread that goes on or stops.
LEMMA MovedSlots ==
    ASSUME Types, Slots, NEW p \in Processes, NEW a \in Attempts, NEW t,
           work[p][a].pc # "off", work' = [work EXCEPT ![p][a] = t]
    PROVE  Slots'
<1>1. \A q \in Processes, b \in Attempts :
         b # a \/ q # p => work'[q][b] = work[q][b]
  BY DEF Types
<1>2. a \in Running(p)
  BY DEF Running
<1>3. \A q \in Processes : Running(q)' \subseteq Running(q)
  BY <1>1, <1>2 DEF Running
<1> QED
  BY <1>3, NoMore

LEMMA SlotsKept == ASSUME IInv, Sweeper, Slots, [Next]_vars PROVE Slots'
<1>0. Types
  BY DEF IInv
<1>1. CASE UNCHANGED work
  BY <1>1, NoMore DEF Running
<1>2. ASSUME NEW p \in Processes, NEW a \in Attempts, Bind(p, a) \/ MarkFailure(p, a)
      PROVE  Slots'
  BY <1>0, <1>1, <1>2, StartedSlots DEF Bind, MarkFailure
<1>3. ASSUME NEW p \in Processes, NEW a \in Attempts,
             Load(p, a) \/ Dispatch(p, a) \/ Check(p, a) \/ Settle(p, a) \/ Report(p, a)
      PROVE  Slots'
  <2>1. work[p][a].pc # "off"
    BY <1>3 DEF Load, Dispatch, Check, Settle, Report
  <2>2. ASSUME Stops(p, a) PROVE \E t : work' = [work EXCEPT ![p][a] = t]
    BY <2>2 DEF Stops
  <2>3. ASSUME NEW where, NEW copy, Goes(p, a, where, copy)
        PROVE  \E t : work' = [work EXCEPT ![p][a] = t]
    BY <1>0, <2>3 DEF Goes, Types
  <2>4. \E t : work' = [work EXCEPT ![p][a] = t]
    <3>1. CASE Load(p, a)
      BY <2>2, <2>3, <3>1 DEF Load
    <3>2. CASE Dispatch(p, a)
      BY <1>0, <2>2, <3>2 DEF Dispatch, Types
    <3>3. CASE Check(p, a)
      BY <2>3, <3>3 DEF Check
    <3>4. CASE Settle(p, a)
      BY <2>2, <2>3, <3>4 DEF Settle
    <3>5. CASE Report(p, a)
      BY <2>2, <3>5 DEF Report
    <3> QED
      BY <1>3, <3>1, <3>2, <3>3, <3>4, <3>5
  <2> QED
    BY <1>0, <2>1, <2>4, MovedSlots
<1>4. ASSUME NEW p \in Processes, Sweep(p) PROVE Slots'
  BY <1>4, SweptThreads, NoMore DEF Running
<1>5. ASSUME NEW p \in Processes, SweepOne(p) PROVE Slots'
  <2>1. Head(queue[p]) \in Attempts
    BY <1>5 DEF SweepOne, Sweeper
  <2> QED
    BY <1>0, <1>1, <1>5, <2>1, StartedSlots DEF SweepOne
<1>6. ASSUME NEW p \in Processes, Restart(p) PROVE Slots'
  <2>1. \A q \in Processes, b \in Attempts :
           work'[q][b] = Off \/ work'[q][b] = work[q][b]
    BY <1>0, <1>6 DEF Restart, Types
  <2> QED
    BY <2>1, OffThread, NoMore DEF Running
<1>7. ASSUME NEW a \in Attempts,
             Begin(a) \/ Discard(a) \/ CallDies(a) \/ Close(a) \/ Expire(a)
             \/ \E e \in Events, s \in Final : Happens(a, e, s)
      PROVE  Slots'
  BY <1>1, <1>7 DEF Begin, Discard, CallDies, Close, Expire, Happens
<1>8. CASE UNCHANGED vars
  BY <1>1, <1>8 DEF vars
<1> QED
  BY <1>2, <1>3, <1>4, <1>5, <1>6, <1>7, <1>8 DEF Next

\* What a sweep puts into its queue: every tracker that waits and nothing else.
LEMMA SweptQueue ==
    ASSUME Sweeper, NEW p \in Processes, Sweep(p)
    PROVE  /\ Sweeper' /\ \A q \in Processes \ {p} : queue'[q] = queue[q]
           /\ Range(queue'[p]) = {a \in Attempts : Exists(a) /\ Waits(a)}
<1>1. PICK tracked, n, k : /\ tracked = Tracked /\ n = Len(tracked) /\ k = offset[p] % n
  OBVIOUS
<1>2. /\ tracked # <<>>
      /\ offset' = [offset EXCEPT ![p] = (k + W) % n]
      /\ queue' = [queue EXCEPT ![p] = Kept(Rotated(tracked, k), Waiting)]
  BY <1>1 DEF Sweep
<1>3. /\ tracked \in Seq(Attempts) /\ Len(tracked) <= Len(Order)
      /\ Range(tracked) = Range(Order) \cap {a \in Attempts : Exists(a)}
  BY <1>1, TrackingAssumption, KeptSeq DEF Tracked
<1>4. Range(Order) = Attempts
  BY TrackingAssumption DEF Range, Attempts
<1>5. n \in Nat /\ n > 0 /\ n <= Len(Order) /\ Len(Order) \in Nat
  BY <1>1, <1>2, <1>3, TrackingAssumption
<1>6. k \in 0 .. Len(tracked) /\ k \in Nat
  BY <1>1, <1>5 DEF Sweeper
<1>7. (k + W) % n \in 0 .. Len(Order)
  BY <1>5, <1>6, TrackingAssumption
<1>8. /\ Rotated(tracked, k) \in Seq(Attempts)
      /\ Range(Rotated(tracked, k)) = Range(tracked)
  BY <1>3, <1>6, RotatedSeq
<1>9. PICK line : line = Kept(Rotated(tracked, k), Waiting)
  OBVIOUS
<1>10. /\ line \in Seq(Attempts)
       /\ Range(line) = Range(tracked) \cap Waiting
  BY <1>8, <1>9, KeptSeq
<1>11. Sweeper' /\ queue'[p] = line /\ \A q \in Processes \ {p} : queue'[q] = queue[q]
  BY <1>2, <1>7, <1>9, <1>10 DEF Sweeper
<1>12. Range(line) = {a \in Attempts : Exists(a) /\ Waits(a)}
  BY <1>3, <1>4, <1>10 DEF Waiting
<1> QED
  BY <1>11, <1>12

LEMMA SweeperKept == ASSUME Sweeper, [Next]_vars PROVE Sweeper'
<1>1. CASE UNCHANGED <<queue, offset>>
  BY <1>1 DEF Sweeper
<1>2. ASSUME NEW p \in Processes, Sweep(p) PROVE Sweeper'
  BY <1>2, SweptQueue
<1>3. ASSUME NEW p \in Processes, SweepOne(p) PROVE Sweeper'
  <2>1. queue' = [queue EXCEPT ![p] = Tail(queue[p])] /\ queue[p] # <<>> /\ UNCHANGED offset
    BY <1>3 DEF SweepOne, Sweeper
  <2>2. Tail(queue[p]) \in Seq(Attempts)
    BY <2>1 DEF Sweeper
  <2> QED
    BY <2>1, <2>2 DEF Sweeper
<1>4. ASSUME NEW p \in Processes, Restart(p) PROVE Sweeper'
  <2>1. 0 \in 0 .. Len(Order) /\ <<>> \in Seq(Attempts)
    BY TrackingAssumption
  <2> QED
    BY <1>4, <2>1 DEF Restart, Sweeper
<1>5. ASSUME NEW a \in Attempts,
             Begin(a) \/ Discard(a) \/ CallDies(a) \/ Close(a) \/ Expire(a)
             \/ \E e \in Events, s \in Final : Happens(a, e, s)
      PROVE  Sweeper'
  BY <1>1, <1>5 DEF Begin, Discard, CallDies, Close, Expire, Happens
<1>6. ASSUME NEW p \in Processes, NEW a \in Attempts,
             Bind(p, a) \/ MarkFailure(p, a) \/ Load(p, a) \/ Dispatch(p, a) \/ Check(p, a)
             \/ Settle(p, a) \/ Report(p, a)
      PROVE  Sweeper'
  BY <1>1, <1>6 DEF Bind, MarkFailure, Load, Dispatch, Check, Settle, Report
<1>7. CASE UNCHANGED vars
  BY <1>1, <1>7 DEF vars
<1> QED
  BY <1>2, <1>3, <1>4, <1>5, <1>6, <1>7 DEF Next

LEMMA RangesKept == ASSUME IInv, Sweeper, Ranges, [Next]_vars PROVE Ranges'
<1>0. Types
  BY DEF IInv
<1> DEFINE Ages == UNCHANGED <<closed, expired>>
           Counts == UNCHANGED <<faults, restarts>>
           Counted == faults' \in 0 .. MaxFaults /\ UNCHANGED restarts
           Seen == shared' \subseteq Attempts
<1>1. ASSUME NEW p \in Processes, NEW a \in Attempts, Start(p, a) PROVE Seen
  BY <1>0, <1>1, Started DEF Ranges
<1>2. Fault => Counted
  BY TrackingAssumption DEF Fault, Ranges
<1>3. UNCHANGED counters => Counts
  BY DEF counters
<1>4. UNCHANGED outside => Ages
  BY DEF outside
<1>5. UNCHANGED shared => Seen
  BY DEF Ranges
<1>6. ASSUME Ages, Counts \/ Counted, Seen PROVE Ranges'
  BY <1>6 DEF Ranges
<1> HIDE DEF Ages, Counts, Counted, Seen
<1>7. ASSUME NEW a \in Attempts, Begin(a) \/ Discard(a) \/ CallDies(a) PROVE Ranges'
  BY <1>2, <1>3, <1>4, <1>5, <1>6, <1>7 DEF Begin, Discard, CallDies
<1>8. ASSUME NEW p \in Processes, NEW a \in Attempts, Bind(p, a) PROVE Ranges'
  <2>1. Ages
    BY <1>8 DEF Bind, Ages
  <2> QED
    BY <1>1, <1>3, <1>5, <1>6, <1>8, <2>1 DEF Bind
<1>9. ASSUME NEW p \in Processes, NEW a \in Attempts, MarkFailure(p, a) PROVE Ranges'
  BY <1>1, <1>3, <1>4, <1>5, <1>6, <1>9 DEF MarkFailure
<1>10. ASSUME NEW p \in Processes, NEW a \in Attempts, Load(p, a) \/ Settle(p, a)
       PROVE  Ranges'
  BY <1>3, <1>4, <1>5, <1>6, <1>10 DEF Load, Settle
<1>11. ASSUME NEW p \in Processes, NEW a \in Attempts, Check(p, a) PROVE Ranges'
  BY <1>2, <1>3, <1>4, <1>5, <1>6, <1>11 DEF Check
<1>12. ASSUME NEW p \in Processes, NEW a \in Attempts, Dispatch(p, a) \/ Report(p, a)
       PROVE  Ranges'
  <2>1. ASSUME NEW what, Posted(a, what) \/ Unposted(p, a, what) PROVE Counts \/ Counted
    BY <1>2, <1>3, <2>1 DEF Posted, Unposted
  <2>2. Ages /\ Seen
    BY <1>4, <1>5, <1>12 DEF Dispatch, Report
  <2> QED
    BY <1>6, <1>12, <2>1, <2>2 DEF Dispatch, Report
<1>13. ASSUME NEW p \in Processes, Sweep(p) PROVE Ranges'
  BY <1>3, <1>4, <1>5, <1>6, <1>13 DEF Sweep
<1>14. ASSUME NEW p \in Processes, SweepOne(p) PROVE Ranges'
  <2>1. Head(queue[p]) \in Attempts
    BY <1>14 DEF SweepOne, Sweeper
  <2> QED
    BY <1>1, <1>3, <1>4, <1>5, <1>6, <1>14, <2>1 DEF SweepOne
<1>15. ASSUME NEW a \in Attempts, Close(a) \/ Expire(a) PROVE Ranges'
  BY <1>15 DEF Close, Expire, Ranges, counters
<1>16. ASSUME NEW a \in Attempts, NEW e \in Events, NEW s \in Final, Happens(a, e, s)
       PROVE  Ranges'
  BY <1>16 DEF Happens, Ranges, counters
<1>17. ASSUME NEW p \in Processes, Restart(p) PROVE Ranges'
  BY <1>17, TrackingAssumption DEF Restart, Ranges, outside
<1>18. CASE UNCHANGED vars
  BY <1>18 DEF vars, outside, counters, Ranges
<1> QED
  BY <1>7, <1>8, <1>9, <1>10, <1>11, <1>12, <1>13, <1>14, <1>15, <1>16, <1>17, <1>18 DEF Next

LEMMA Bounded == Spec => [](IInv /\ Ranges /\ Sweeper /\ Slots)
<1>1. Init => IInv /\ Ranges /\ Sweeper /\ Slots
  <2> SUFFICES ASSUME Init PROVE Ranges /\ Sweeper /\ Slots
    BY InitGood
  <2>1. Ranges
    BY TrackingAssumption DEF Init, Ranges
  <2>2. Sweeper
    <3>1. 0 \in 0 .. Len(Order) /\ <<>> \in Seq(Attempts)
      BY TrackingAssumption
    <3> QED
      BY <3>1 DEF Init, Sweeper
  <2>3. \A p \in Processes : Running(p) = {}
    BY OffThread DEF Init, Running
  <2>4. Slots
    <3>1. Cardinality({}) = 0 /\ 0 <= W
      BY FS_EmptySet, TrackingAssumption
    <3> QED
      BY <2>3, <3>1 DEF Slots
  <2> QED
    BY <2>1, <2>2, <2>4
<1>2. IInv /\ Ranges /\ Sweeper /\ Slots /\ [Next]_vars => (IInv /\ Ranges /\ Sweeper /\ Slots)'
  BY NextGood, RangesKept, SweeperKept, SlotsKept
<1> QED
  BY <1>1, <1>2, PTL DEF Spec

\* Every part of the state has its type; no process runs more threads than
\* MAX_REPORT_WORKERS, and a thread that reports a result has one (_start_worker,
\* _poll_by_key).
THEOREM TypeCorrect == Spec => []TypeOK
<1>1. ASSUME IInv, Ranges, Sweeper, Slots PROVE TypeOK
  BY <1>1 DEF IInv, Types, Good, Copied, Ranges, Sweeper, Slots, TypeOK
<1> QED
  BY <1>1, Bounded, PTL

\* A sweep looks at every tracker that waits, wherever it starts, and at nothing else
\* (sweep_once).
THEOREM SweepsAll ==
    Spec => [][\A p \in Processes : Sweep(p) =>
                  Range(queue'[p]) = {a \in Attempts : Exists(a) /\ Waits(a)}]_vars
<1>1. IInv /\ Ranges /\ Sweeper /\ Slots /\ [Next]_vars =>
          [\A p \in Processes : Sweep(p) =>
              Range(queue'[p]) = {a \in Attempts : Exists(a) /\ Waits(a)}]_vars
  BY SweptQueue
<1> QED
  BY <1>1, Bounded, PTL DEF Spec

-----------------------------------------------------------------------------
(* Trackers, threads and sweepers implement AttemptReports                 *)

Told == <<event, closed, expired, reports, cause, shared>>

LEMMA SupportsTrue ==
    ASSUME NEW a \in Attempts, NEW s \in Final, True(a, s)
    PROVE  Promised!Supports(a, s)
  BY DEF Promised!Supports, Promised!NoEvents, True, Final

LEMMA OpenWhileThere ==
    ASSUME IInv, NEW a \in Attempts, Exists(a)
    PROVE  cause[a] = "none"
  BY DEF IInv, Good, Explained, Exists

LEMMA Watched ==
    ASSUME Types, NEW p \in Processes, NEW a \in Attempts, Start(p, a),
           UNCHANGED <<event, closed, expired, reports, cause>>
    PROVE  [Promised!Next]_(Promised!vars)
<1>1. shared' = shared \/ shared' = shared \cup {a}
  BY DEF Start
<1> QED
  BY <1>1 DEF Promised!Next, Promised!Watch, Promised!vars

LEMMA BindTold ==
    ASSUME IInv, NEW p \in Processes, NEW a \in Attempts, Bind(p, a)
    PROVE  [Promised!Next]_(Promised!vars)
<1>1. UNCHANGED <<closed, expired, reports, cause>> /\ call[a] = "tool"
  BY DEF Bind
<1>2. CASE ~Exists(a)
  BY <1>1, <1>2 DEF Bind, Promised!vars
<1>3. CASE Exists(a)
  <2>1. PICK E \in SUBSET Events :
           /\ event' = [event EXCEPT ![a] = [e \in Events |->
                            IF e \in E THEN "running" ELSE "none"]]
           /\ Start(p, a)
    BY <1>3 DEF Bind
  <2>2. PICK f : f = [e \in Events |-> IF e \in E THEN "running" ELSE "none"]
    OBVIOUS
  <2>3. f \in [Events -> {"none", "running"}] /\ event' = [event EXCEPT ![a] = f]
    BY <2>1, <2>2
  <2>4. shared' = shared \/ shared' = shared \cup {a}
    BY <2>1 DEF Start
  <2>5. reports[a] = {} /\ \A e \in Events : event[a][e] = "none"
    BY <1>1 DEF IInv, Good, Fresh
  <2>6. Promised!Deploy(a)
    BY <1>1, <1>3, <2>3, <2>4, <2>5, OpenWhileThere
    DEF Promised!Deploy, Promised!NoEvents
  <2> QED
    BY <2>6 DEF Promised!Next
<1> QED
  BY <1>2, <1>3

LEMMA DiscardTold ==
    ASSUME IInv, NEW a \in Attempts, Discard(a)
    PROVE  [Promised!Next]_(Promised!vars)
<1>1. UNCHANGED <<event, closed, expired, reports, shared>> /\ call[a] = "tool"
  BY DEF Discard, outside
<1>2. UNCHANGED cause \/ (Exists(a) /\ cause' = [cause EXCEPT ![a] = "discarded"])
  BY DEF Discard, Delete
<1>3. reports[a] = {} /\ \A e \in Events : event[a][e] = "none"
  BY <1>1 DEF IInv, Good, Fresh
<1>4. UNCHANGED cause \/ Promised!GiveUp(a)
  BY <1>1, <1>2, <1>3, OpenWhileThere DEF Promised!GiveUp, Promised!NoEvents
<1> QED
  BY <1>1, <1>4 DEF Promised!Next, Promised!vars

\* A report that arrives, with or without an acknowledgement.
LEMMA Tells ==
    ASSUME IInv, NEW a \in Attempts, NEW what \in Final \cup {"dispatch"},
           cause[a] # "discarded",
           what \in Final =>
              True(a, what) /\ (reports[a] \cap Final \subseteq {what} \/ a \in shared),
           UNCHANGED <<event, closed, expired, shared>>,
           reports' = [reports EXCEPT ![a] = @ \cup {what}],
           \/ UNCHANGED cause
           \/ /\ Exists(a) /\ cause' = [cause EXCEPT ![a] = "delivered"]
              /\ what \in Final \/ \A e \in Events : event[a][e] = "none"
    PROVE  [Promised!Next]_(Promised!vars)
<1>1. what \in Promised!Results \cup {"dispatch"}
      /\ (what \in Promised!Results <=> what \in Final) /\ Promised!Results = Final
  BY DEF Promised!Results, Final
<1>2. what \in Final => Promised!Supports(a, what)
  BY SupportsTrue
<1>3. Promised!Delivers(a, what) \/ UNCHANGED cause
  BY <1>1, OpenWhileThere DEF Promised!Delivers, Promised!NoEvents
<1>4. Promised!Tell(a, what)
  BY <1>1, <1>2, <1>3 DEF Promised!Tell
<1> QED
  BY <1>1, <1>4 DEF Promised!Next

LEMMA PostTold ==
    ASSUME IInv, NEW p \in Processes, NEW a \in Attempts, NEW what \in Final \cup {"dispatch"},
           cause[a] # "discarded",
           what \in Final =>
              True(a, what) /\ (reports[a] \cap Final \subseteq {what} \/ a \in shared),
           UNCHANGED <<event, closed, expired, shared>>,
           \/ /\ Posted(a, what)
              /\ \/ UNCHANGED cause
                 \/ /\ Delete(a, "delivered")
                    /\ what \in Final \/ \A e \in Events : event[a][e] = "none"
           \/ Unposted(p, a, what) /\ UNCHANGED cause
    PROVE  [Promised!Next]_(Promised!vars)
<1>1. \/ UNCHANGED cause
      \/ /\ Exists(a) /\ cause' = [cause EXCEPT ![a] = "delivered"]
         /\ what \in Final \/ \A e \in Events : event[a][e] = "none"
  BY DEF Delete
<1>2. reports' = [reports EXCEPT ![a] = @ \cup {what}] \/ UNCHANGED <<reports, cause>>
  BY DEF Posted, Unposted
<1>3. CASE UNCHANGED <<reports, cause>>
  BY <1>3 DEF Promised!vars
<1>4. CASE reports' = [reports EXCEPT ![a] = @ \cup {what}]
  BY <1>1, <1>4, Tells
<1> QED
  BY <1>2, <1>3, <1>4

LEMMA DispatchTold ==
    ASSUME IInv, NEW p \in Processes, NEW a \in Attempts, Dispatch(p, a)
    PROVE  [Promised!Next]_(Promised!vars)
<1>1. UNCHANGED <<event, closed, expired, shared>> /\ work[p][a].pc = "dispatch"
  BY DEF Dispatch, outside
<1>2. cause[a] # "discarded" /\ work[p][a].copy.events = Bound(a)
  BY <1>1 DEF IInv, Good, Copied
<1>3. Bound(a) = {} => \A e \in Events : event[a][e] = "none"
  BY DEF Bound
<1>4. \/ /\ Posted(a, "dispatch")
         /\ UNCHANGED cause \/ (Delete(a, "delivered") /\ Bound(a) = {})
      \/ Unposted(p, a, "dispatch") /\ UNCHANGED cause
  BY <1>2 DEF Dispatch
<1>5. "dispatch" \notin Final
  BY DEF Final
<1> QED
  BY <1>1, <1>2, <1>3, <1>4, <1>5, PostTold

LEMMA ReportTold ==
    ASSUME IInv, NEW p \in Processes, NEW a \in Attempts, Report(p, a)
    PROVE  [Promised!Next]_(Promised!vars)
<1>1. UNCHANGED <<event, closed, expired, shared>> /\ work[p][a].pc = "report"
  BY DEF Report, outside
<1>2. PICK s : s = work[p][a].copy.status
  OBVIOUS
<1>3. s \in Final /\ True(a, s) /\ cause[a] # "discarded"
  BY <1>1, <1>2 DEF IInv, Good, Copied
<1>4. reports[a] \cap Final \subseteq {s} \/ a \in shared
  BY <1>1, <1>2 DEF IInv, Good, Single
<1>5. \/ Posted(a, s) /\ Delete(a, "delivered")
      \/ Unposted(p, a, s) /\ UNCHANGED cause
  BY <1>2 DEF Report
<1> QED
  BY <1>1, <1>3, <1>4, <1>5, PostTold

LEMMA SweepOneTold ==
    ASSUME IInv, Sweeper, NEW p \in Processes, SweepOne(p)
    PROVE  [Promised!Next]_(Promised!vars)
<1>1. UNCHANGED <<event, closed, expired, reports>>
  BY DEF SweepOne, outside
<1>2. PICK a : a = Head(queue[p])
  OBVIOUS
<1>3. a \in Attempts
  BY <1>2 DEF SweepOne, Sweeper
<1>4. CASE a \in expired
  <2>1. UNCHANGED shared
        /\ (UNCHANGED cause \/ (Exists(a) /\ cause' = [cause EXCEPT ![a] = "expired"]))
    BY <1>2, <1>4 DEF SweepOne, Delete
  <2>2. UNCHANGED cause \/ Promised!GiveUp(a)
    BY <1>1, <1>3, <1>4, <2>1, OpenWhileThere DEF Promised!GiveUp
  <2> QED
    BY <1>1, <1>3, <2>1, <2>2 DEF Promised!Next, Promised!vars
<1>5. CASE a \notin expired
  BY <1>1, <1>2, <1>3, <1>5, Watched DEF SweepOne, IInv
<1> QED
  BY <1>4, <1>5

LEMMA WorldTold ==
    ASSUME IInv, NEW a \in Attempts,
           Close(a) \/ Expire(a) \/ \E e \in Events, s \in Final : Happens(a, e, s)
    PROVE  [Promised!Next]_(Promised!vars)
<1>1. CASE Close(a)
  <2>1. Promised!Ages(a)
    BY <1>1, OpenWhileThere DEF Close, Promised!Ages
  <2> QED
    BY <2>1 DEF Promised!Next
<1>2. CASE Expire(a)
  <2>1. closed' = closed \cup {a} /\ expired' = expired \cup (closed \cap {a})
    BY <1>2 DEF Expire
  <2>2. Promised!Ages(a)
    BY <1>2, <2>1, OpenWhileThere DEF Expire, Promised!Ages
  <2> QED
    BY <2>2 DEF Promised!Next
<1>3. ASSUME NEW e \in Events, NEW s \in Final, Happens(a, e, s)
      PROVE  [Promised!Next]_(Promised!vars)
  <2>1. Promised!Ends(a, e, s) /\ s \in Promised!Results
    BY <1>3, OpenWhileThere DEF Happens, Promised!Ends, Promised!Results, Final
  <2> QED
    BY <2>1 DEF Promised!Next
<1> QED
  BY <1>1, <1>2, <1>3

LEMMA StepTold == ASSUME IInv, Sweeper, [Next]_vars PROVE [Promised!Next]_(Promised!vars)
<1>1. CASE UNCHANGED Told
  BY <1>1 DEF Told, Promised!vars
<1>2. ASSUME NEW a \in Attempts, Begin(a) \/ CallDies(a) PROVE UNCHANGED Told
  BY <1>2 DEF Begin, CallDies, Told, outside
<1>3. ASSUME NEW p \in Processes, NEW a \in Attempts, MarkFailure(p, a)
      PROVE  [Promised!Next]_(Promised!vars)
  <2>1. UNCHANGED <<event, closed, expired, reports, cause>>
        /\ (Start(p, a) \/ UNCHANGED shared)
    BY <1>3 DEF MarkFailure, outside
  <2> QED
    BY <1>1, <2>1, Watched DEF IInv, Told
<1>4. ASSUME NEW p \in Processes, NEW a \in Attempts, Load(p, a) \/ Check(p, a) \/ Settle(p, a)
      PROVE  UNCHANGED Told
  BY <1>4 DEF Load, Check, Settle, Told, outside
<1>5. ASSUME NEW p \in Processes, Sweep(p) \/ Restart(p) PROVE UNCHANGED Told
  BY <1>5 DEF Sweep, Restart, Told, outside
<1>6. CASE UNCHANGED vars
  BY <1>1, <1>6 DEF vars, Told, outside
<1> QED
  BY <1>1, <1>2, <1>3, <1>4, <1>5, <1>6, BindTold, DiscardTold, DispatchTold, ReportTold,
     SweepOneTold, WorldTold DEF Next

\* Whatever is lost or replaced, and however many watch an attempt, the report server
\* sees what AttemptReports allows (_poll_by_key, _set_final, sweep_once).
THEOREM Refinement == Spec => KeepsReports
<1>1. Init => Promised!Init
  BY DEF Init, Promised!Init
<1>2. IInv /\ Sweeper /\ [Next]_vars => [Promised!Next]_(Promised!vars)
  BY StepTold
<1> QED
  BY <1>1, <1>2, Bounded, PTL DEF Spec, KeepsReports, Promised!Spec

-----------------------------------------------------------------------------
(* What the promise of AttemptReports means for the report server          *)

\* What it was told is not taken back, an attempt that is given up stays so for the
\* reason it had, and of one that was discarded nothing more is heard.
ReportsStand ==
    \A a \in Attempts :
        /\ reports[a] \subseteq reports'[a]
        /\ cause[a] # "none" => cause'[a] = cause[a]
        /\ cause[a] = "discarded" => reports'[a] = reports[a]

LEMMA PromiseStands == ASSUME Types, [Promised!Next]_(Promised!vars) PROVE ReportsStand
<1>1. DOMAIN reports = Attempts /\ DOMAIN cause = Attempts
  BY DEF Types
<1>2. ASSUME NEW a \in Attempts, NEW what, Promised!Tell(a, what) PROVE ReportsStand
  <2>1. cause[a] # "discarded" /\ reports' = [reports EXCEPT ![a] = @ \cup {what}]
    BY <1>2 DEF Promised!Tell
  <2>2. \/ cause' = cause
        \/ cause[a] = "none" /\ cause' = [cause EXCEPT ![a] = "delivered"]
    BY <1>2 DEF Promised!Tell, Promised!Delivers
  <2> QED
    BY <1>1, <2>1, <2>2 DEF ReportsStand
<1>3. ASSUME NEW a \in Attempts, Promised!GiveUp(a) PROVE ReportsStand
  <2>1. /\ cause[a] = "none" /\ reports' = reports
        /\ \E why : cause' = [cause EXCEPT ![a] = why]
    BY <1>3 DEF Promised!GiveUp
  <2> QED
    BY <1>1, <2>1 DEF ReportsStand
<1>4. ASSUME NEW a \in Attempts,
             \/ Promised!Deploy(a) \/ Promised!Ages(a) \/ Promised!Watch(a)
             \/ \E result \in Promised!Results : \E e \in Events : Promised!Ends(a, e, result)
      PROVE  ReportsStand
  <2>1. reports' = reports /\ cause' = cause
    BY <1>4 DEF Promised!Deploy, Promised!Ages, Promised!Watch, Promised!Ends
  <2> QED
    BY <2>1 DEF ReportsStand
<1>5. CASE UNCHANGED (Promised!vars)
  BY <1>5 DEF Promised!vars, ReportsStand
<1> QED
  BY <1>2, <1>3, <1>4, <1>5 DEF Promised!Next

\* Nothing the report server was told is taken back by a later thread, process or
\* sweep, and an attempt is given up once (_poll_by_key, _report_final, sweep_once).
THEOREM ReportsStandCorrect == Spec => [][ReportsStand]_vars
<1>1. IInv /\ [Promised!Next]_(Promised!vars) => ReportsStand
  BY PromiseStands DEF IInv
<1>2. Spec => [][Promised!Next]_(Promised!vars)
  BY Refinement, PTL DEF KeepsReports, Promised!Spec
<1> QED
  BY <1>1, <1>2, Bounded, PTL
=================================================================================
