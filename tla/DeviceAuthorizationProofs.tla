----------------------- MODULE DeviceAuthorizationProofs -----------------------
(***************************************************************************)
(* DeviceAuthorization keeps the promise of DeviceGrant, and its final     *)
(* answers are final, for any number of polls, browsers and users and any  *)
(* lifetime of a grant.                                                    *)
(***************************************************************************)
EXTENDS DeviceAuthorization, TLAPS

\* Polls that hold the grant: they consumed the row and have not answered.
Holds(p) == poll[p].pc \in {"issue", "undo"}

\* What requests found when they read the row; before it exists it names nobody.
Found ==
    /\ ~Exists => row.user = None
    /\ \A p \in Polls : poll[p].pc = "expire" => Exists
    /\ \A b \in Browsers : browser[b].pc \in {"inspect", "decide"} => browser[b].user \in Users

\* An approved or consumed row names a user, and so do the polls that go for
\* its token.
Approved ==
    /\ row.status \in {"approved", "consumed"} => row.user \in Users
    /\ \A p \in Polls : poll[p].pc \in {"consume", "issue", "undo"} =>
        /\ row.status \in {"approved"} \cup Settled
        /\ poll[p].user = row.user /\ row.user \in Users

\* One poll at most holds the grant, and then no token has been issued.
OneHolder ==
    /\ \A p, q \in Polls : Holds(p) /\ Holds(q) => p = q
    /\ \A p \in Polls : Holds(p) =>
        row.status = "consumed" /\ \A u \in Users : tokens[u] = 0
    /\ \A u \in Users : tokens[u] > 0 => row.status = "consumed"

\* A final answer is given only when the row is settled.
Finality ==
    /\ final => row.status \in Settled
    /\ \A p \in Polls : poll[p].late => final

IInv == TypeOK /\ Found /\ Approved /\ OneHolder /\ Finality /\ FinalIsFinal

-----------------------------------------------------------------------------
(* Types                                                                   *)

\* Requests that end leave the requests well-formed.
LEMMA AnswerShape == ASSUME TypeOK, NEW p \in Polls, NEW answer, Answer(p, answer)
                     PROVE  poll' \in [Polls -> Poll] /\ final' \in BOOLEAN
<1>1. NoPoll \in Poll
  BY DeviceAssumption DEF NoPoll, Poll, Times
<1> QED
  BY <1>1 DEF TypeOK, Answer

\* So do requests that go on.
LEMMA GotoShape == ASSUME TypeOK, NEW p \in Polls, NEW pc \in Running, Goto(p, pc)
                   PROVE  poll' \in [Polls -> Poll]
  BY DEF TypeOK, Goto, Poll

\* An answer leaves the request idle and the other requests alone.
LEMMA AnswerEffect == ASSUME TypeOK, NEW p \in Polls, NEW answer, Answer(p, answer)
                      PROVE  /\ poll'[p].pc = "idle" /\ ~poll'[p].late
                             /\ \A q \in Polls : q # p => poll'[q] = poll[q]
  BY DEF TypeOK, Answer, NoPoll

\* A request that goes on leaves the other requests alone.
LEMMA GotoEffect == ASSUME TypeOK, NEW p \in Polls, NEW pc, Goto(p, pc)
                    PROVE  /\ poll'[p].pc = pc /\ poll'[p].late = poll[p].late
                           /\ \A q \in Polls : q # p => poll'[q] = poll[q]
  BY DEF TypeOK, Goto, Poll

\* Requests of users that end or fail stay well-formed.
LEMMA BrowserShape ==
    ASSUME TypeOK, NEW b \in Browsers, NEW pc \in Deciding,
           BrowserEnds(b) \/ BrowserFails(b, pc)
    PROVE  browser' \in [Browsers -> Browser]
<1>1. NoBrowser \in Browser /\ [NoBrowser EXCEPT !.pc = pc] \in Browser
  BY DeviceAssumption DEF NoBrowser, Browser, Times
<1> QED
  BY <1>1 DEF TypeOK, BrowserEnds, BrowserFails


\* Every step keeps the shape of the state.
LEMMA TypeStep == TypeOK /\ [Next]_vars => TypeOK'
<1> SUFFICES ASSUME TypeOK, [Next]_vars PROVE TypeOK'
  OBVIOUS
<1> USE DeviceAssumption
<1>1. CASE Create
  BY <1>1 DEF Create, TypeOK, Row, Statuses, Undecided, Times
<1>2. CASE Tick
  BY <1>2 DEF Tick, TypeOK, Times
<1>3. ASSUME NEW p \in Polls, PollBegin(p) PROVE TypeOK'
  BY <1>3 DEF PollBegin, TypeOK, Poll, Running
<1>4. ASSUME NEW p \in Polls, PollUnknown(p) PROVE TypeOK'
  BY <1>4 DEF PollUnknown, NoPoll, TypeOK, Poll, Times
<1>5. ASSUME NEW p \in Polls, PollLoad(p) PROVE TypeOK'
  <2>1. poll' \in [Polls -> Poll]
    BY <1>5 DEF PollLoad, Goto, TypeOK, Poll, Running
  <2> QED
    BY <1>5, <2>1 DEF PollLoad, TypeOK
<1>6. ASSUME NEW p \in Polls, PollSettled(p) PROVE TypeOK'
  BY <1>6, AnswerShape DEF PollSettled, TypeOK
<1>7. ASSUME NEW p \in Polls, PollLate(p) PROVE TypeOK'
  <2>1. poll[p] \in Poll /\ 0 \in Times
    BY DeviceAssumption DEF TypeOK, Times
  <2>2. poll' = [poll EXCEPT ![p].pc = "expire", ![p].now = 0]
    BY <1>7 DEF PollLate
  <2>3. poll' \in [Polls -> Poll]
    BY <2>1, <2>2 DEF TypeOK, Poll, Running
  <2> QED
    BY <1>7, <2>3 DEF PollLate, TypeOK
<1>8. ASSUME NEW p \in Polls, PollExpire(p) PROVE TypeOK'
  <2>1. row' \in Row
    BY <1>8 DEF PollExpire, ExpireRow, TypeOK, Row, Statuses, Settled
  <2> QED
    BY <1>8, <2>1, AnswerShape DEF PollExpire, TypeOK
<1>9. ASSUME NEW p \in Polls, Consume(p) PROVE TypeOK'
  <2>1. row' \in Row
    BY <1>9 DEF Consume, TypeOK, Row, Statuses, Settled
  <2>2. poll' \in [Polls -> Poll] /\ final' \in BOOLEAN
    BY <1>9, AnswerShape, GotoShape DEF Consume, Running, TypeOK
  <2> QED
    BY <1>9, <2>1, <2>2 DEF Consume, TypeOK
<1>10. ASSUME NEW p \in Polls, Issue(p) PROVE TypeOK'
  <2>1. poll[p].user \in Users
    BY <1>10 DEF Issue, TypeOK
  <2>2. tokens' \in [Users -> Nat]
    BY <1>10, <2>1 DEF Issue, TypeOK
  <2> QED
    BY <1>10, <2>2, AnswerShape DEF Issue, TypeOK
<1>11. ASSUME NEW p \in Polls, IssueRefused(p) PROVE TypeOK'
  BY <1>11 DEF IssueRefused, Goto, TypeOK, Poll, Running
<1>12. ASSUME NEW p \in Polls, Undo(p) PROVE TypeOK'
  <2>1. row' \in Row
    BY <1>12 DEF Undo, TypeOK, Row, Statuses, Settled
  <2> QED
    BY <1>12, <2>1, AnswerShape DEF Undo, TypeOK
<1>13. ASSUME NEW p \in Polls, SlowDown(p) PROVE TypeOK'
  <2>1. Min(poll[p].interval + Increment, MaxInterval) \in 0 .. MaxInterval
    BY <1>13, DeviceAssumption DEF SlowDown, TypeOK, Poll, Min
  <2>2. row' \in Row
    BY <1>13, <2>1 DEF SlowDown, TypeOK, Row
  <2> QED
    BY <1>13, <2>2, AnswerShape DEF SlowDown, TypeOK
<1>14. ASSUME NEW p \in Polls, Pending(p) PROVE TypeOK'
  <2>1. row' \in Row
    BY <1>14 DEF Pending, TypeOK, Row, Poll
  <2> QED
    BY <1>14, <2>1, AnswerShape DEF Pending, TypeOK
<1>15. ASSUME NEW p \in Polls, PollCrash(p) PROVE TypeOK'
  BY <1>15 DEF PollCrash, NoPoll, TypeOK, Poll, Times
<1>16. ASSUME NEW b \in Browsers, NEW u \in Users, BrowserBegin(b, u) PROVE TypeOK'
  BY <1>16 DEF BrowserBegin, TypeOK, Browser, Deciding
<1>17. ASSUME NEW b \in Browsers, BrowserRefused(b) PROVE TypeOK'
  BY <1>17 DEF BrowserRefused, BrowserEnds, NoBrowser, TypeOK, Browser, Times
<1>18. ASSUME NEW b \in Browsers, Inspect(b) PROVE TypeOK'
  <2>1. browser' \in [Browsers -> Browser]
    <3>1. CASE browser' = [browser EXCEPT ![b].pc = "decide"]
      BY <3>1 DEF TypeOK, Browser, Deciding
    <3>2. CASE BrowserEnds(b) \/ BrowserFails(b, "expire") \/ BrowserFails(b, "fail")
      BY <3>2, BrowserShape DEF Deciding
    <3> QED
      BY <1>18, <3>1, <3>2 DEF Inspect
  <2> QED
    BY <1>18, <2>1 DEF Inspect, TypeOK
<1>19. ASSUME NEW b \in Browsers, BrowserExpire(b) PROVE TypeOK'
  <2>1. row' \in Row
    BY <1>19 DEF BrowserExpire, ExpireRow, TypeOK, Row, Statuses, Settled
  <2>2. browser' \in [Browsers -> Browser]
    BY <1>19, BrowserShape DEF BrowserExpire, Deciding
  <2> QED
    BY <1>19, <2>1, <2>2 DEF BrowserExpire, TypeOK
<1>20. ASSUME NEW b \in Browsers, InspectFails(b) PROVE TypeOK'
  <2>1. Min(row.failures + 1, FailureLimit) \in 0 .. FailureLimit
    BY DeviceAssumption DEF TypeOK, Row, Min
  <2>2. row' \in Row
    BY <1>20, <2>1 DEF InspectFails, TypeOK, Row
  <2>3. browser' \in [Browsers -> Browser]
    BY <1>20, BrowserShape DEF InspectFails, Deciding
  <2> QED
    BY <1>20, <2>2, <2>3 DEF InspectFails, TypeOK
<1>21. ASSUME NEW b \in Browsers, Decide(b) PROVE TypeOK'
  <2>0. row \in Row /\ browser[b].user \in Users \cup {None}
    BY DEF TypeOK, Browser
  <2>1. row' \in Row
    <3>1. CASE Decided(b)
      BY <2>0, <3>1 DEF Decided, Row, Statuses, Undecided, Settled
    <3>2. CASE UNCHANGED row
      BY <2>0, <3>2
    <3> QED
      BY <1>21, <3>1, <3>2 DEF Decide
  <2>2. browser' \in [Browsers -> Browser]
    BY <1>21, BrowserShape DEF Decide, Deciding
  <2> QED
    BY <1>21, <2>1, <2>2 DEF Decide, TypeOK
<1>22. ASSUME NEW u \in Users, Switch(u) PROVE TypeOK'
  BY <1>22 DEF Switch, TypeOK
<1>23. CASE UNCHANGED vars
  BY <1>23 DEF vars, TypeOK
<1> QED
  BY <1>1, <1>2, <1>3, <1>4, <1>5, <1>6, <1>7, <1>8, <1>9, <1>10, <1>11, <1>12,
     <1>13, <1>14, <1>15, <1>16, <1>17, <1>18, <1>19, <1>20, <1>21, <1>22, <1>23
  DEF Next, PollStep, BrowserStep

-----------------------------------------------------------------------------
(* The inductive invariant                                                 *)

\* No step leaves a request with a row or a user it did not find.
LEMMA FoundStep == IInv /\ [Next]_vars => Found'
<1> SUFFICES ASSUME IInv, [Next]_vars PROVE Found'
  OBVIOUS
<1> USE DEF IInv
<1>1. CASE Create
  BY <1>1 DEF Create, Found
<1>2. CASE Tick
  BY <1>2 DEF Tick, Found, Exists
<1>3. ASSUME NEW p \in Polls, PollBegin(p) PROVE Found'
  BY <1>3 DEF PollBegin, Found, Exists
<1>4. ASSUME NEW p \in Polls, PollUnknown(p) PROVE Found'
  BY <1>4 DEF PollUnknown, NoPoll, Found
<1>5. ASSUME NEW p \in Polls, PollLoad(p) PROVE Found'
  BY <1>5 DEF PollLoad, Found, Exists
<1>6. ASSUME NEW p \in Polls, PollSettled(p) PROVE Found'
  BY <1>6 DEF PollSettled, Found, Exists
<1>7. ASSUME NEW p \in Polls, PollLate(p) PROVE Found'
  BY <1>7 DEF PollLate, Found, Exists
<1>8. ASSUME NEW p \in Polls, PollExpire(p) PROVE Found'
  BY <1>8 DEF PollExpire, ExpireRow, Found, Exists
<1>9. ASSUME NEW p \in Polls, Consume(p) PROVE Found'
  BY <1>9 DEF Consume, Answer, NoPoll, TypeOK, Found, Exists, Row
<1>10. ASSUME NEW p \in Polls, Issue(p) PROVE Found'
  BY <1>10 DEF Issue, Answer, NoPoll, Found, Exists
<1>11. ASSUME NEW p \in Polls, IssueRefused(p) PROVE Found'
  BY <1>11 DEF IssueRefused, Goto, Found, Exists
<1>12. ASSUME NEW p \in Polls, Undo(p) PROVE Found'
  BY <1>12 DEF Undo, Answer, NoPoll, Found, Exists
<1>13. ASSUME NEW p \in Polls, SlowDown(p) PROVE Found'
  BY <1>13 DEF SlowDown, Answer, NoPoll, Found, Exists
<1>14. ASSUME NEW p \in Polls, Pending(p) PROVE Found'
  BY <1>14 DEF Pending, Answer, NoPoll, Found, Exists
<1>15. ASSUME NEW p \in Polls, PollCrash(p) PROVE Found'
  BY <1>15 DEF PollCrash, NoPoll, Found, Exists
<1>16. ASSUME NEW b \in Browsers, NEW u \in Users, BrowserBegin(b, u) PROVE Found'
  BY <1>16 DEF BrowserBegin, Found, Exists
<1>17. ASSUME NEW b \in Browsers, BrowserRefused(b) PROVE Found'
  BY <1>17 DEF BrowserRefused, BrowserEnds, NoBrowser, Found, Exists
<1>18. ASSUME NEW b \in Browsers, Inspect(b) PROVE Found'
  BY <1>18 DEF Inspect, BrowserFails, BrowserEnds, NoBrowser, TypeOK, Found, Exists, Browser
<1>19. ASSUME NEW b \in Browsers, BrowserExpire(b) PROVE Found'
  BY <1>19 DEF BrowserExpire, ExpireRow, BrowserFails, Found, Exists
<1>20. ASSUME NEW b \in Browsers, InspectFails(b) PROVE Found'
  BY <1>20 DEF InspectFails, BrowserEnds, NoBrowser, Found, Exists
<1>21. ASSUME NEW b \in Browsers, Decide(b) PROVE Found'
  BY <1>21 DEF Decide, Decided, BrowserEnds, NoBrowser, TypeOK, Found, Exists, Row
<1>22. ASSUME NEW u \in Users, Switch(u) PROVE Found'
  BY <1>22 DEF Switch, Found, Exists
<1>23. CASE UNCHANGED vars
  BY <1>23 DEF vars, Found, Exists
<1> QED
  BY <1>1, <1>2, <1>3, <1>4, <1>5, <1>6, <1>7, <1>8, <1>9, <1>10, <1>11, <1>12,
     <1>13, <1>14, <1>15, <1>16, <1>17, <1>18, <1>19, <1>20, <1>21, <1>22, <1>23
  DEF Next, PollStep, BrowserStep

\* Polls on their way to the token go on agreeing with the row about the user.
LEMMA ApprovedStep == IInv /\ [Next]_vars => Approved'
<1> SUFFICES ASSUME IInv, [Next]_vars PROVE Approved'
  OBVIOUS
<1> USE DEF IInv
<1>1. CASE Create
  BY <1>1 DEF Create, Approved, Settled, Exists
<1>2. CASE Tick
  BY <1>2 DEF Tick, Approved
<1>3. ASSUME NEW p \in Polls, PollBegin(p) PROVE Approved'
  BY <1>3 DEF PollBegin, Approved
<1>4. ASSUME NEW p \in Polls, PollUnknown(p) PROVE Approved'
  BY <1>4 DEF PollUnknown, NoPoll, Approved
<1>5. ASSUME NEW p \in Polls, PollLoad(p) PROVE Approved'
  BY <1>5 DEF PollLoad, Goto, TypeOK, Approved, Poll
<1>6. ASSUME NEW p \in Polls, PollSettled(p) PROVE Approved'
  BY <1>6 DEF PollSettled, Answer, NoPoll, TypeOK, Approved
<1>7. ASSUME NEW p \in Polls, PollLate(p) PROVE Approved'
  BY <1>7 DEF PollLate, TypeOK, Approved
<1>8. ASSUME NEW p \in Polls, PollExpire(p) PROVE Approved'
  BY <1>8 DEF PollExpire, ExpireRow, Answer, NoPoll, Approved, Settled
<1>9. ASSUME NEW p \in Polls, Consume(p) PROVE Approved'
  BY <1>9 DEF Consume, Goto, Answer, NoPoll, TypeOK, Approved, Running, Settled, Row, Poll
<1>10. ASSUME NEW p \in Polls, Issue(p) PROVE Approved'
  BY <1>10 DEF Issue, Answer, NoPoll, Approved
<1>11. ASSUME NEW p \in Polls, IssueRefused(p) PROVE Approved'
  BY <1>11 DEF IssueRefused, Goto, Approved
<1>12. ASSUME NEW p \in Polls, Undo(p) PROVE Approved'
  BY <1>12 DEF Undo, Answer, NoPoll, Approved, Settled
<1>13. ASSUME NEW p \in Polls, SlowDown(p) PROVE Approved'
  BY <1>13 DEF SlowDown, Answer, NoPoll, Approved
<1>14. ASSUME NEW p \in Polls, Pending(p) PROVE Approved'
  BY <1>14 DEF Pending, Answer, NoPoll, Approved
<1>15. ASSUME NEW p \in Polls, PollCrash(p) PROVE Approved'
  BY <1>15 DEF PollCrash, NoPoll, Approved
<1>16. ASSUME NEW b \in Browsers, NEW u \in Users, BrowserBegin(b, u) PROVE Approved'
  BY <1>16 DEF BrowserBegin, Approved
<1>17. ASSUME NEW b \in Browsers, BrowserRefused(b) PROVE Approved'
  BY <1>17 DEF BrowserRefused, Approved
<1>18. ASSUME NEW b \in Browsers, Inspect(b) PROVE Approved'
  BY <1>18 DEF Inspect, Approved
<1>19. ASSUME NEW b \in Browsers, BrowserExpire(b) PROVE Approved'
  BY <1>19 DEF BrowserExpire, ExpireRow, Approved, Settled
<1>20. ASSUME NEW b \in Browsers, InspectFails(b) PROVE Approved'
  BY <1>20 DEF InspectFails, Approved
<1>21. ASSUME NEW b \in Browsers, Decide(b) PROVE Approved'
  BY <1>21 DEF Decide, Decided, TypeOK, Found, Approved, Settled, Row
<1>22. ASSUME NEW u \in Users, Switch(u) PROVE Approved'
  BY <1>22 DEF Switch, Approved
<1>23. CASE UNCHANGED vars
  BY <1>23 DEF vars, Approved
<1> QED
  BY <1>1, <1>2, <1>3, <1>4, <1>5, <1>6, <1>7, <1>8, <1>9, <1>10, <1>11, <1>12,
     <1>13, <1>14, <1>15, <1>16, <1>17, <1>18, <1>19, <1>20, <1>21, <1>22, <1>23
  DEF Next, PollStep, BrowserStep

\* No step makes a second poll hold the grant, or issues a second token.
LEMMA OneHolderStep == IInv /\ [Next]_vars => OneHolder'
<1> SUFFICES ASSUME IInv, [Next]_vars PROVE OneHolder'
  OBVIOUS
<1> USE DEF IInv
<1>1. CASE Create
  BY <1>1 DEF Create, OneHolder, Exists, Holds
<1>2. CASE Tick
  BY <1>2 DEF Tick, OneHolder, Holds
<1>3. ASSUME NEW p \in Polls, PollBegin(p) PROVE OneHolder'
  BY <1>3 DEF PollBegin, OneHolder, Holds
<1>4. ASSUME NEW p \in Polls, PollUnknown(p) PROVE OneHolder'
  BY <1>4 DEF PollUnknown, NoPoll, OneHolder, Holds
<1>5. ASSUME NEW p \in Polls, PollLoad(p) PROVE OneHolder'
  BY <1>5 DEF PollLoad, Goto, TypeOK, OneHolder, Holds, Poll
<1>6. ASSUME NEW p \in Polls, PollSettled(p) PROVE OneHolder'
  BY <1>6 DEF PollSettled, Answer, NoPoll, TypeOK, OneHolder, Holds
<1>7. ASSUME NEW p \in Polls, PollLate(p) PROVE OneHolder'
  BY <1>7 DEF PollLate, TypeOK, OneHolder, Holds
<1>8. ASSUME NEW p \in Polls, PollExpire(p) PROVE OneHolder'
  BY <1>8 DEF PollExpire, ExpireRow, Answer, NoPoll, OneHolder, Undecided, Holds
<1>9. ASSUME NEW p \in Polls, Consume(p) PROVE OneHolder'
  <2>1. \A q \in Polls : q # p => poll'[q] = poll[q]
    BY <1>9, AnswerEffect, GotoEffect DEF Consume
  <2>2. CASE row.status = "approved"
    <3>1. row'.status = "consumed" /\ UNCHANGED tokens
      BY <1>9, <2>2 DEF Consume, TypeOK, Row
    <3>2. \A q \in Polls : ~Holds(q)
      BY <2>2 DEF OneHolder
    <3>3. \A u \in Users : tokens[u] = 0
      BY <2>2 DEF OneHolder, TypeOK
    <3> QED
      BY <2>1, <3>1, <3>2, <3>3 DEF OneHolder, Holds
  <2>3. CASE row.status # "approved"
    <3>1. UNCHANGED <<row, tokens>> /\ poll'[p].pc = "idle"
      BY <1>9, <2>3, AnswerEffect DEF Consume
    <3> QED
      BY <2>1, <3>1 DEF OneHolder, Holds
  <2> QED
    BY <2>2, <2>3
<1>10. ASSUME NEW p \in Polls, Issue(p) PROVE OneHolder'
  BY <1>10 DEF Issue, Answer, NoPoll, TypeOK, OneHolder, Holds
<1>11. ASSUME NEW p \in Polls, IssueRefused(p) PROVE OneHolder'
  BY <1>11 DEF IssueRefused, Goto, OneHolder, Holds
<1>12. ASSUME NEW p \in Polls, Undo(p) PROVE OneHolder'
  BY <1>12 DEF Undo, Answer, NoPoll, TypeOK, OneHolder, Holds
<1>13. ASSUME NEW p \in Polls, SlowDown(p) PROVE OneHolder'
  BY <1>13 DEF SlowDown, Answer, NoPoll, OneHolder, Holds
<1>14. ASSUME NEW p \in Polls, Pending(p) PROVE OneHolder'
  BY <1>14 DEF Pending, Answer, NoPoll, OneHolder, Holds
<1>15. ASSUME NEW p \in Polls, PollCrash(p) PROVE OneHolder'
  BY <1>15 DEF PollCrash, NoPoll, OneHolder, Holds
<1>16. ASSUME NEW b \in Browsers, NEW u \in Users, BrowserBegin(b, u) PROVE OneHolder'
  BY <1>16 DEF BrowserBegin, OneHolder, Holds
<1>17. ASSUME NEW b \in Browsers, BrowserRefused(b) PROVE OneHolder'
  BY <1>17 DEF BrowserRefused, OneHolder, Holds
<1>18. ASSUME NEW b \in Browsers, Inspect(b) PROVE OneHolder'
  BY <1>18 DEF Inspect, OneHolder, Holds
<1>19. ASSUME NEW b \in Browsers, BrowserExpire(b) PROVE OneHolder'
  BY <1>19 DEF BrowserExpire, ExpireRow, OneHolder, Undecided, Holds
<1>20. ASSUME NEW b \in Browsers, InspectFails(b) PROVE OneHolder'
  BY <1>20 DEF InspectFails, OneHolder, Holds
<1>21. ASSUME NEW b \in Browsers, Decide(b) PROVE OneHolder'
  BY <1>21 DEF Decide, OneHolder, Holds
<1>22. ASSUME NEW u \in Users, Switch(u) PROVE OneHolder'
  BY <1>22 DEF Switch, OneHolder, Holds
<1>23. CASE UNCHANGED vars
  BY <1>23 DEF vars, OneHolder, Holds
<1> QED
  BY <1>1, <1>2, <1>3, <1>4, <1>5, <1>6, <1>7, <1>8, <1>9, <1>10, <1>11, <1>12,
     <1>13, <1>14, <1>15, <1>16, <1>17, <1>18, <1>19, <1>20, <1>21, <1>22, <1>23
  DEF Next, PollStep, BrowserStep

\* No step gives a final answer before the row is settled, or unsettles it.
LEMMA FinalityStep == IInv /\ [Next]_vars => Finality'
<1> SUFFICES ASSUME IInv, [Next]_vars PROVE Finality'
  OBVIOUS
<1> USE DEF IInv
<1>1. CASE Create
  BY <1>1 DEF Create, Finality, Settled, Exists
<1>2. CASE Tick
  BY <1>2 DEF Tick, Finality
<1>3. ASSUME NEW p \in Polls, PollBegin(p) PROVE Finality'
  BY <1>3 DEF PollBegin, Finality
<1>4. ASSUME NEW p \in Polls, PollUnknown(p) PROVE Finality'
  BY <1>4 DEF PollUnknown, NoPoll, Finality
<1>5. ASSUME NEW p \in Polls, PollLoad(p) PROVE Finality'
  BY <1>5 DEF PollLoad, Goto, TypeOK, Finality, Poll
<1>6. ASSUME NEW p \in Polls, PollSettled(p) PROVE Finality'
  BY <1>6 DEF PollSettled, Answer, Finality, Settled
<1>7. ASSUME NEW p \in Polls, PollLate(p) PROVE Finality'
  BY <1>7 DEF PollLate, TypeOK, Finality
<1>8. ASSUME NEW p \in Polls, PollExpire(p) PROVE Finality'
  <2>1. row'.status \in Settled
    BY <1>8 DEF PollExpire, ExpireRow, Found, TypeOK, Statuses, Exists, Settled, Row
  <2>2. final' /\ \A q \in Polls : q # p => poll'[q] = poll[q]
    BY <1>8 DEF PollExpire, Answer, TypeOK
  <2> QED
    BY <2>1, <2>2 DEF Finality
<1>9. ASSUME NEW p \in Polls, Consume(p) PROVE Finality'
  <2>1. \A q \in Polls : poll'[q].late => poll[q].late
    BY <1>9, AnswerEffect, GotoEffect DEF Consume
  <2>2. final' => row'.status \in Settled
    BY <1>9 DEF Consume, Approved, Finality, Settled
  <2>3. final => final'
    BY <1>9 DEF Consume, Answer
  <2> QED
    BY <2>1, <2>2, <2>3 DEF Finality
<1>10. ASSUME NEW p \in Polls, Issue(p) PROVE Finality'
  BY <1>10 DEF Issue, Answer, Approved, OneHolder, Finality, Holds
<1>11. ASSUME NEW p \in Polls, IssueRefused(p) PROVE Finality'
  BY <1>11 DEF IssueRefused, Goto, Finality
<1>12. ASSUME NEW p \in Polls, Undo(p) PROVE Finality'
  BY <1>12 DEF Undo, Answer, NoPoll, TypeOK, OneHolder, Finality, Settled, Holds
<1>13. ASSUME NEW p \in Polls, SlowDown(p) PROVE Finality'
  BY <1>13 DEF SlowDown, Answer, NoPoll, TypeOK, Finality
<1>14. ASSUME NEW p \in Polls, Pending(p) PROVE Finality'
  BY <1>14 DEF Pending, Answer, NoPoll, TypeOK, Finality
<1>15. ASSUME NEW p \in Polls, PollCrash(p) PROVE Finality'
  BY <1>15 DEF PollCrash, NoPoll, Finality
<1>16. ASSUME NEW b \in Browsers, NEW u \in Users, BrowserBegin(b, u) PROVE Finality'
  BY <1>16 DEF BrowserBegin, Finality
<1>17. ASSUME NEW b \in Browsers, BrowserRefused(b) PROVE Finality'
  BY <1>17 DEF BrowserRefused, Finality
<1>18. ASSUME NEW b \in Browsers, Inspect(b) PROVE Finality'
  BY <1>18 DEF Inspect, Finality
<1>19. ASSUME NEW b \in Browsers, BrowserExpire(b) PROVE Finality'
  BY <1>19 DEF BrowserExpire, ExpireRow, Finality, Settled
<1>20. ASSUME NEW b \in Browsers, InspectFails(b) PROVE Finality'
  BY <1>20 DEF InspectFails, Finality
<1>21. ASSUME NEW b \in Browsers, Decide(b) PROVE Finality'
  BY <1>21 DEF Decide, Finality, Settled
<1>22. ASSUME NEW u \in Users, Switch(u) PROVE Finality'
  BY <1>22 DEF Switch, Finality
<1>23. CASE UNCHANGED vars
  BY <1>23 DEF vars, Finality
<1> QED
  BY <1>1, <1>2, <1>3, <1>4, <1>5, <1>6, <1>7, <1>8, <1>9, <1>10, <1>11, <1>12,
     <1>13, <1>14, <1>15, <1>16, <1>17, <1>18, <1>19, <1>20, <1>21, <1>22, <1>23
  DEF Next, PollStep, BrowserStep

\* No step leads a late poll to waiting or to a token.
LEMMA FinalIsFinalStep == IInv /\ [Next]_vars => FinalIsFinal'
<1> SUFFICES ASSUME IInv, [Next]_vars PROVE FinalIsFinal'
  OBVIOUS
<1> USE DEF IInv
<1>1. CASE Create
  BY <1>1 DEF Create, FinalIsFinal
<1>2. CASE Tick
  BY <1>2 DEF Tick, FinalIsFinal
<1>3. ASSUME NEW p \in Polls, PollBegin(p) PROVE FinalIsFinal'
  BY <1>3 DEF PollBegin, FinalIsFinal
<1>4. ASSUME NEW p \in Polls, PollUnknown(p) PROVE FinalIsFinal'
  BY <1>4 DEF PollUnknown, NoPoll, FinalIsFinal
<1>5. ASSUME NEW p \in Polls, PollLoad(p) PROVE FinalIsFinal'
  BY <1>5 DEF PollLoad, Goto, TypeOK, Finality, FinalIsFinal, Settled, Poll
<1>6. ASSUME NEW p \in Polls, PollSettled(p) PROVE FinalIsFinal'
  BY <1>6 DEF PollSettled, Answer, NoPoll, TypeOK, FinalIsFinal
<1>7. ASSUME NEW p \in Polls, PollLate(p) PROVE FinalIsFinal'
  BY <1>7 DEF PollLate, TypeOK, FinalIsFinal
<1>8. ASSUME NEW p \in Polls, PollExpire(p) PROVE FinalIsFinal'
  BY <1>8 DEF PollExpire, Answer, NoPoll, FinalIsFinal
<1>9. ASSUME NEW p \in Polls, Consume(p) PROVE FinalIsFinal'
  BY <1>9 DEF Consume, Goto, Answer, NoPoll, TypeOK, FinalIsFinal, Poll
<1>10. ASSUME NEW p \in Polls, Issue(p) PROVE FinalIsFinal'
  BY <1>10 DEF Issue, Answer, NoPoll, FinalIsFinal
<1>11. ASSUME NEW p \in Polls, IssueRefused(p) PROVE FinalIsFinal'
  BY <1>11 DEF IssueRefused, Goto, FinalIsFinal
<1>12. ASSUME NEW p \in Polls, Undo(p) PROVE FinalIsFinal'
  BY <1>12 DEF Undo, Answer, NoPoll, FinalIsFinal
<1>13. ASSUME NEW p \in Polls, SlowDown(p) PROVE FinalIsFinal'
  BY <1>13 DEF SlowDown, Answer, NoPoll, FinalIsFinal
<1>14. ASSUME NEW p \in Polls, Pending(p) PROVE FinalIsFinal'
  BY <1>14 DEF Pending, Answer, NoPoll, FinalIsFinal
<1>15. ASSUME NEW p \in Polls, PollCrash(p) PROVE FinalIsFinal'
  BY <1>15 DEF PollCrash, NoPoll, FinalIsFinal
<1>16. ASSUME NEW b \in Browsers, NEW u \in Users, BrowserBegin(b, u) PROVE FinalIsFinal'
  BY <1>16 DEF BrowserBegin, FinalIsFinal
<1>17. ASSUME NEW b \in Browsers, BrowserRefused(b) PROVE FinalIsFinal'
  BY <1>17 DEF BrowserRefused, FinalIsFinal
<1>18. ASSUME NEW b \in Browsers, Inspect(b) PROVE FinalIsFinal'
  BY <1>18 DEF Inspect, FinalIsFinal
<1>19. ASSUME NEW b \in Browsers, BrowserExpire(b) PROVE FinalIsFinal'
  BY <1>19 DEF BrowserExpire, FinalIsFinal
<1>20. ASSUME NEW b \in Browsers, InspectFails(b) PROVE FinalIsFinal'
  BY <1>20 DEF InspectFails, FinalIsFinal
<1>21. ASSUME NEW b \in Browsers, Decide(b) PROVE FinalIsFinal'
  BY <1>21 DEF Decide, FinalIsFinal
<1>22. ASSUME NEW u \in Users, Switch(u) PROVE FinalIsFinal'
  BY <1>22 DEF Switch, FinalIsFinal
<1>23. CASE UNCHANGED vars
  BY <1>23 DEF vars, FinalIsFinal
<1> QED
  BY <1>1, <1>2, <1>3, <1>4, <1>5, <1>6, <1>7, <1>8, <1>9, <1>10, <1>11, <1>12,
     <1>13, <1>14, <1>15, <1>16, <1>17, <1>18, <1>19, <1>20, <1>21, <1>22, <1>23
  DEF Next, PollStep, BrowserStep

\* The invariant holds in every state.
LEMMA Inductive == Spec => []IInv
<1>1. Init => IInv
  <2> SUFFICES ASSUME Init PROVE IInv
    OBVIOUS
  <2>1. TypeOK
    <3>1. 0 \in Times /\ 0 \in 0 .. MaxInterval /\ 0 \in 0 .. FailureLimit
      BY DeviceAssumption DEF Times
    <3>2. NoRow \in Row /\ NoPoll \in Poll /\ NoBrowser \in Browser
      BY <3>1 DEF NoRow, NoPoll, NoBrowser, Row, Poll, Browser, Statuses
    <3> QED
      BY <3>1, <3>2 DEF Init, TypeOK
  <2> QED
    BY <2>1 DEF Init, IInv, Found, Approved, OneHolder, Finality, FinalIsFinal, Holds,
                NoRow, NoPoll, NoBrowser
<1>2. IInv /\ [Next]_vars => IInv'
  BY TypeStep, FoundStep, ApprovedStep, OneHolderStep, FinalityStep, FinalIsFinalStep DEF IInv
<1> QED
  BY <1>1, <1>2, PTL DEF Spec

-----------------------------------------------------------------------------
(* What follows                                                            *)

\* The row, the requests and the histories keep their shape.
THEOREM TypeCorrect == Spec => []TypeOK
  BY Inductive, PTL DEF IInv

\* A poll that begins after a final answer is neither told to wait nor given a
\* token (poll_device_token).
THEOREM FinalIsFinalCorrect == Spec => []FinalIsFinal
  BY Inductive, PTL DEF IInv

\* What the grant of DeviceGrant is.
Life == IF \E u \in Users : tokens[u] > 0 THEN "spent"
        ELSE IF row.status \in {"absent", "pending"} THEN "open"
        ELSE IF \/ row.status = "approved"
                \/ row.status = "consumed" /\ \E p \in Polls : poll[p].pc = "issue"
        THEN "approved" ELSE "closed"

\* Until a token is issued, the row and the poll that consumed it say it all.
LEMMA Unissued == ASSUME IInv
                  PROVE  /\ row.status # "consumed" => \A u \in Users : tokens[u] = 0
                         /\ \A p \in Polls : Holds(p) => \A u \in Users : tokens[u] = 0
  BY DEF IInv, TypeOK, OneHolder

\* The grant is the same after a step that changes neither the tokens, nor the
\* status and the user of the row, nor which polls are about to issue a token.
LEMMA Unseen ==
    ASSUME UNCHANGED <<tokens, row.status, row.user>>,
           \A p \in Polls : poll'[p].pc = "issue" <=> poll[p].pc = "issue"
    PROVE  UNCHANGED (Grant!vars)
<1>1. Life' = Life
  BY DEF Life
<1> QED
  BY <1>1 DEF Grant!vars, Life

\* A grant that is not decided and expires is closed.
LEMMA ExpiredCloses ==
    ASSUME IInv, ExpireRow, UNCHANGED tokens,
           \A p \in Polls : poll'[p].pc = "issue" <=> poll[p].pc = "issue"
    PROVE  [Grant!Next]_(Grant!vars)
<1>1. CASE row.status \in Undecided
  <2>1. row'.status = "expired" /\ row'.user = row.user /\ row.user \in Users \cup {None}
    BY <1>1 DEF ExpireRow, IInv, TypeOK, Row
  <2>2. \A u \in Users : tokens[u] = 0 /\ tokens'[u] = 0
    BY <1>1, Unissued DEF Undecided
  <2>3. Life \in {"open", "approved"} /\ Life' = "closed"
    BY <1>1, <2>1, <2>2 DEF Life, Undecided
  <2> QED
    BY <2>1, <2>3 DEF Life, Grant!Next, Grant!Close
<1>2. CASE row.status \notin Undecided
  BY <1>2, Unseen DEF ExpireRow
<1> QED
  BY <1>1, <1>2

\* The poll that holds the grant gives it up before it issues a token.
LEMMA GivenUp ==
    ASSUME IInv, NEW p \in Polls, poll[p].pc = "issue", poll'[p].pc # "issue",
           \A q \in Polls : q # p => poll'[q] = poll[q],
           UNCHANGED <<row, tokens>>
    PROVE  Grant!Close
<1>1. Holds(p) /\ row.status = "consumed" /\ row.user \in Users
  BY DEF Holds, IInv, OneHolder, Approved
<1>2. \A u \in Users : tokens[u] = 0 /\ tokens'[u] = 0
  BY <1>1, Unissued
<1>3. Life = "approved"
  BY <1>1, <1>2 DEF Life
<1>4. \A q \in Polls : poll'[q].pc # "issue"
  BY <1>1 DEF IInv, OneHolder, Holds
<1>5. Life' = "closed"
  BY <1>1, <1>2, <1>4 DEF Life
<1> QED
  BY <1>1, <1>3, <1>5 DEF Life, Grant!Close

\* The poll that consumes the row keeps the grant approved.
LEMMA ConsumeKeeps ==
    ASSUME IInv, NEW p \in Polls, Consume(p)
    PROVE  UNCHANGED (Grant!vars)
<1>1. \A q \in Polls : q # p => poll'[q] = poll[q]
  BY AnswerEffect, GotoEffect DEF Consume, IInv
<1>2. CASE row.status = "approved"
  <2>1. row'.status = "consumed" /\ row'.user = row.user /\ tokens' = tokens
    BY <1>2 DEF Consume, IInv, TypeOK, Row
  <2>2. poll'[p].pc = "issue"
    BY <1>2, GotoEffect DEF Consume, IInv
  <2>3. \A u \in Users : tokens[u] = 0
    BY <1>2, Unissued
  <2>4. Life = "approved" /\ Life' = "approved"
    BY <1>2, <2>1, <2>2, <2>3 DEF Life
  <2> QED
    BY <2>1, <2>4 DEF Life, Grant!vars
<1>3. CASE row.status # "approved"
  <2>1. UNCHANGED <<row, tokens>> /\ poll[p].pc = "consume" /\ poll'[p].pc = "idle"
    BY <1>3, AnswerEffect DEF Consume, IInv
  <2> QED
    BY <1>1, <2>1, Unseen
<1> QED
  BY <1>2, <1>3

\* The token goes to the user who approved the grant.
LEMMA IssueSpends ==
    ASSUME IInv, NEW p \in Polls, Issue(p)
    PROVE  Grant!Spend
<1>1. Holds(p) /\ row.status = "consumed" /\ row.user \in Users /\ poll[p].user = row.user
  BY DEF Issue, Holds, IInv, OneHolder, Approved
<1>2. \A u \in Users : tokens[u] = 0
  BY <1>1, Unissued
<1>3. Life = "approved"
  BY <1>1, <1>2 DEF Life, Issue
<1>4. tokens' = [tokens EXCEPT ![row.user] = @ + 1] /\ row' = row
  BY <1>1 DEF Issue
<1>5. tokens'[row.user] > 0
  BY <1>1, <1>2, <1>4 DEF IInv, TypeOK
<1>6. Life' = "spent"
  BY <1>1, <1>5 DEF Life
<1> QED
  BY <1>3, <1>4, <1>6 DEF Life, Grant!Spend

\* A grant that could not become a token stays closed when it is denied.
LEMMA UndoKeeps ==
    ASSUME IInv, NEW p \in Polls, Undo(p)
    PROVE  UNCHANGED (Grant!vars)
<1>1. Holds(p) /\ row.status = "consumed" /\ poll[p].pc = "undo"
  BY DEF Undo, Holds, IInv, OneHolder
<1>2. row'.status = "denied" /\ row'.user = row.user /\ tokens' = tokens
  BY <1>1 DEF Undo, IInv, TypeOK, Row
<1>3. \A u \in Users : tokens[u] = 0
  BY <1>1, Unissued
<1>4. \A q \in Polls : poll[q].pc # "issue"
  BY <1>1 DEF IInv, OneHolder, Holds
<1>5. Life = "closed" /\ Life' = "closed"
  BY <1>1, <1>2, <1>3, <1>4 DEF Life
<1> QED
  BY <1>2, <1>5 DEF Life, Grant!vars

\* A user's decision approves the grant or closes it, and only once.
LEMMA DecideDecides ==
    ASSUME IInv, NEW b \in Browsers, Decide(b)
    PROVE  [Grant!Next]_(Grant!vars)
<1>1. browser[b].user \in Users /\ UNCHANGED <<poll, tokens>>
  BY DEF Decide, IInv, Found
<1>2. CASE row.status = "pending" /\ Decided(b)
  <2>1. \A u \in Users : tokens[u] = 0
    BY <1>2, Unissued
  <2>2. Life = "open"
    BY <1>2, <2>1 DEF Life
  <2>3. row'.status \in {"approved", "denied"} /\ row'.user = browser[b].user
    BY <1>2 DEF Decided, IInv, TypeOK, Row
  <2>4. CASE row'.status = "approved"
    <3>1. Life' = "approved"
      BY <1>1, <2>1, <2>4 DEF Life
    <3> QED
      BY <1>1, <2>2, <2>3, <3>1 DEF Life, Grant!Next, Grant!Approve
  <2>5. CASE row'.status = "denied"
    <3>1. Life' = "closed"
      BY <1>1, <2>1, <2>5 DEF Life
    <3> QED
      BY <1>1, <2>2, <2>3, <3>1 DEF Life, Grant!Next, Grant!Close
  <2> QED
    BY <2>3, <2>4, <2>5
<1>3. CASE UNCHANGED row
  BY <1>1, <1>3, Unseen
<1> QED
  BY <1>2, <1>3 DEF Decide

\* The polls' other steps that DeviceGrant does not see.
LEMMA QuietPolls ==
    ASSUME IInv, NEW p \in Polls,
           \/ PollBegin(p) \/ PollUnknown(p) \/ PollLoad(p) \/ PollSettled(p)
           \/ PollLate(p) \/ SlowDown(p) \/ Pending(p)
    PROVE  UNCHANGED (Grant!vars)
<1>1. UNCHANGED <<tokens, row.status, row.user>>
  BY DEF PollBegin, PollUnknown, PollLoad, PollSettled, PollLate, SlowDown, Pending, IInv,
         TypeOK, Row
<1>2. \A q \in Polls : poll'[q].pc = "issue" <=> poll[q].pc = "issue"
  <2>1. \A q \in Polls : q # p => poll'[q] = poll[q]
    BY AnswerEffect, GotoEffect
    DEF PollBegin, PollUnknown, PollLoad, PollSettled, PollLate, SlowDown, Pending, IInv, TypeOK
  <2>2. poll[p].pc # "issue"
    BY DEF PollBegin, PollUnknown, PollLoad, PollSettled, PollLate, SlowDown, Pending, Running
  <2>3. poll'[p].pc # "issue"
    <3>1. CASE PollSettled(p) \/ SlowDown(p) \/ Pending(p)
      BY <3>1, AnswerEffect DEF PollSettled, SlowDown, Pending, IInv
    <3>2. poll \in [Polls -> Poll]
      BY DEF IInv, TypeOK
    <3>3. CASE PollBegin(p)
      BY <3>2, <3>3 DEF PollBegin
    <3>4. CASE PollUnknown(p)
      BY <3>2, <3>4 DEF PollUnknown, NoPoll
    <3>5. CASE PollLate(p)
      BY <3>2, <3>5 DEF PollLate, Poll
    <3>6. CASE PollLoad(p)
      BY <3>2, <3>6 DEF PollLoad, Goto, Poll
    <3> QED
      BY <3>1, <3>3, <3>4, <3>5, <3>6
  <2> QED
    BY <2>1, <2>2, <2>3
<1> QED
  BY <1>1, <1>2, Unseen

\* Every step is a step of DeviceGrant or one that it does not see.
LEMMA GrantStep == IInv /\ [Next]_vars => [Grant!Next]_(Grant!vars)
<1> SUFFICES ASSUME IInv, [Next]_vars PROVE [Grant!Next]_(Grant!vars)
  OBVIOUS
<1>1. CASE Create
  <2>1. /\ row.status = "absent" /\ row'.status = "pending" /\ row.user = None /\ row'.user = None
        /\ UNCHANGED <<poll, tokens>>
    BY <1>1 DEF Create, Exists, IInv, Found
  <2>2. \A u \in Users : tokens[u] = 0
    BY <2>1, Unissued
  <2>3. Life' = Life
    BY <2>1, <2>2 DEF Life
  <2> QED
    BY <2>1, <2>3 DEF Life, Grant!vars
<1>2. ASSUME NEW p \in Polls, PollExpire(p) PROVE [Grant!Next]_(Grant!vars)
  <2>1. poll[p].pc = "expire" /\ poll'[p].pc = "idle"
    BY <1>2, AnswerEffect DEF PollExpire, IInv
  <2>2. \A q \in Polls : poll'[q].pc = "issue" <=> poll[q].pc = "issue"
    BY <1>2, <2>1, AnswerEffect DEF PollExpire, IInv
  <2> QED
    BY <1>2, <2>2, ExpiredCloses DEF PollExpire
<1>3. ASSUME NEW p \in Polls, IssueRefused(p) PROVE Grant!Close
  <2>1. /\ poll[p].pc = "issue" /\ poll'[p].pc = "undo"
        /\ \A q \in Polls : q # p => poll'[q] = poll[q]
    BY <1>3, GotoEffect DEF IssueRefused, IInv
  <2> QED
    BY <1>3, <2>1, GivenUp DEF IssueRefused
<1>4. ASSUME NEW p \in Polls, PollCrash(p) PROVE [Grant!Next]_(Grant!vars)
  <2>1. /\ poll'[p].pc = "idle" /\ \A q \in Polls : q # p => poll'[q] = poll[q]
        /\ UNCHANGED <<row, tokens>>
    BY <1>4 DEF PollCrash, NoPoll, IInv, TypeOK
  <2>2. CASE poll[p].pc = "issue"
    BY <2>1, <2>2, GivenUp DEF Grant!Next
  <2>3. CASE poll[p].pc # "issue"
    BY <2>1, <2>3, Unseen
  <2> QED
    BY <2>2, <2>3
<1>5. ASSUME NEW b \in Browsers, BrowserExpire(b) PROVE [Grant!Next]_(Grant!vars)
  BY <1>5, ExpiredCloses DEF BrowserExpire
<1>6. ASSUME NEW b \in Browsers, BrowserRefused(b) \/ Inspect(b) \/ InspectFails(b)
      PROVE UNCHANGED (Grant!vars)
  <2>1. UNCHANGED <<tokens, poll, row.status, row.user>>
    BY <1>6 DEF BrowserRefused, Inspect, InspectFails, IInv, TypeOK, Row
  <2> QED
    BY <2>1, Unseen
<1>7. CASE \/ Tick \/ UNCHANGED vars \/ \E u \in Users : Switch(u)
           \/ \E b \in Browsers : \E u \in Users : BrowserBegin(b, u)
  <2>1. UNCHANGED <<tokens, poll, row>>
    BY <1>7 DEF Tick, vars, Switch, BrowserBegin
  <2> QED
    BY <2>1, Unseen
<1> QED
  BY <1>1, <1>2, <1>3, <1>4, <1>5, <1>6, <1>7, ConsumeKeeps, IssueSpends, UndoKeeps, DecideDecides,
     QuietPolls
  DEF Next, PollStep, BrowserStep, Grant!Next

\* DeviceAuthorization implements DeviceGrant: decided once, one token at most,
\* for the user who approved it, and none after a denial.
THEOREM Refinement == Spec => KeepsGrant
<1>1. Init => Grant!Init
  <2> SUFFICES ASSUME Init PROVE Grant!Init
    OBVIOUS
  <2>1. \A u \in Users : tokens[u] = 0
    BY DEF Init
  <2>2. Life = "open" /\ row.user = None
    BY <2>1 DEF Init, NoRow, Life
  <2> QED
    BY <2>2 DEF Init, Life, Grant!Init
<1> QED
  BY <1>1, GrantStep, Inductive, PTL DEF Spec, KeepsGrant

-----------------------------------------------------------------------------
(* What the promise of DeviceGrant means for the token                     *)

\* One user got one token at most, the one the row names, and the grant is consumed.
OneToken ==
    \A u \in Users : tokens[u] > 0 =>
        /\ tokens[u] = 1 /\ row.user = u /\ row.status = "consumed"
        /\ \A v \in Users \ {u} : tokens[v] = 0

\* After a denial, or after the grant has expired, the row keeps its answer and no
\* token is issued any more.
DenialStands ==
    row.status \in {"denied", "expired"} =>
        row'.status = row.status /\ row'.user = row.user /\ tokens' = tokens

\* How the tokens follow from the life of the grant.
Spent ==
    Life = "spent" => \A u \in Users : tokens[u] = IF u = row.user THEN 1 ELSE 0

\* Only the promise is used: a grant is spent once, on its approver.
LEMMA GrantSpends == ASSUME TypeOK, TypeOK', Spent, [Grant!Next]_(Grant!vars) PROVE Spent'
<1> SUFFICES ASSUME Life' = "spent"
             PROVE  \A u \in Users : tokens'[u] = IF u = row'.user THEN 1 ELSE 0
  BY DEF Spent
<1>1. CASE Grant!Spend
  <2>1. /\ Life = "approved" /\ tokens' = [tokens EXCEPT ![row.user] = @ + 1]
        /\ row'.user = row.user
    BY <1>1 DEF Grant!Spend, Life
  <2>2. \A u \in Users : tokens[u] = 0
    BY <2>1 DEF Life, TypeOK
  <2> QED
    BY <2>1, <2>2 DEF TypeOK
<1>2. CASE Grant!Close \/ \E u \in Users : Grant!Approve(u)
  <2>1. Life' \in {"closed", "approved"}
    BY <1>2 DEF Grant!Close, Grant!Approve, Life
  <2> QED
    BY <2>1
<1>3. CASE UNCHANGED (Grant!vars)
  <2>1. Life' = Life /\ row'.user = row.user /\ tokens' = tokens
    BY <1>3 DEF Grant!vars, Life
  <2> QED
    BY <2>1 DEF Spent
<1> QED
  BY <1>1, <1>2, <1>3 DEF Grant!Next

LEMMA AlwaysSpent == Spec => []Spent
<1>1. Init => Spent
  BY DEF Init, Spent, Life
<1>2. TypeOK /\ TypeOK' /\ Spent /\ [Grant!Next]_(Grant!vars) => Spent'
  BY GrantSpends
<1> QED
  BY <1>1, <1>2, Refinement, TypeCorrect, PTL DEF KeepsGrant, Spec

\* However many polls race for it, a grant becomes one token at most, and that of the
\* user who approved it (poll_device_token, MCPDeviceTokenView).
THEOREM OneTokenCorrect == Spec => []OneToken
<1>1. IInv /\ Spent => OneToken
  <2> SUFFICES ASSUME IInv, Spent, NEW u \in Users, tokens[u] > 0
               PROVE  /\ tokens[u] = 1 /\ row.user = u /\ row.status = "consumed"
                      /\ \A v \in Users \ {u} : tokens[v] = 0
    BY DEF OneToken
  <2>1. Life = "spent"
    BY DEF Life
  <2>2. tokens[u] = 1 /\ u = row.user /\ \A v \in Users \ {u} : tokens[v] = 0
    BY <2>1 DEF Spent
  <2>3. row.status = "consumed"
    BY Unissued
  <2> QED
    BY <2>2, <2>3
<1> QED
  BY <1>1, Inductive, AlwaysSpent, PTL

\* Every UPDATE of the row names the status it is to be in, so none finds a row that
\* is denied or expired.
LEMMA AnswerStands ==
    ASSUME TypeOK, [Next]_vars, row.status \in {"denied", "expired"}
    PROVE  row'.status = row.status
<1>1. ASSUME NEW p \in Polls, PollStep(p) PROVE row'.status = row.status
  <2>1. CASE PollUnknown(p) \/ PollLoad(p) \/ PollSettled(p) \/ PollLate(p)
    BY <2>1 DEF PollUnknown, PollLoad, PollSettled, PollLate
  <2>2. CASE PollExpire(p) \/ Consume(p) \/ Issue(p) \/ IssueRefused(p) \/ Undo(p)
    BY <2>2 DEF PollExpire, ExpireRow, Undecided, Consume, Issue, IssueRefused, Undo
  <2>3. CASE SlowDown(p) \/ Pending(p)
    BY <2>3 DEF SlowDown, Pending
  <2> QED
    BY <1>1, <2>1, <2>2, <2>3 DEF PollStep
<1>2. ASSUME NEW b \in Browsers, BrowserStep(b) PROVE row'.status = row.status
  BY <1>2 DEF BrowserStep, BrowserRefused, Inspect, BrowserExpire, ExpireRow, Undecided,
     InspectFails, Decide, Decided, TypeOK, Row
<1>3. CASE Create
  BY <1>3 DEF Create, Exists
<1>4. CASE \/ Tick \/ UNCHANGED vars \/ \E u \in Users : Switch(u)
           \/ \E p \in Polls : PollBegin(p) \/ PollCrash(p)
           \/ \E b \in Browsers : \E u \in Users : BrowserBegin(b, u)
  BY <1>4 DEF Tick, vars, Switch, PollBegin, PollCrash, BrowserBegin
<1> QED
  BY <1>1, <1>2, <1>3, <1>4 DEF Next

\* A denial stands, and so does the end of a grant, whichever polls and browsers are
\* still under way (decide_user_code, poll_device_token).
THEOREM DenialStandsCorrect == Spec => [][DenialStands]_vars
<1>1. ASSUME IInv, [Next]_vars, [Grant!Next]_(Grant!vars) PROVE DenialStands
  <2> SUFFICES ASSUME row.status \in {"denied", "expired"}
               PROVE  row'.status = row.status /\ row'.user = row.user /\ tokens' = tokens
    BY DEF DenialStands
  <2>1. row'.status = row.status
    BY <1>1, AnswerStands DEF IInv
  <2>2. Life = "closed"
    BY <1>1, Unissued DEF Life
  <2>3. ~Grant!Next
    BY <2>2 DEF Grant!Next, Grant!Close, Grant!Spend, Grant!Approve, Life
  <2> QED
    BY <1>1, <2>1, <2>3 DEF Grant!vars
<1>2. Spec => [][Grant!Next]_(Grant!vars)
  BY Refinement, PTL DEF KeepsGrant
<1> QED
  BY <1>1, <1>2, Inductive, PTL DEF Spec
=============================================================================
