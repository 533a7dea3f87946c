------------------------- MODULE DeviceAuthorization -------------------------
(***************************************************************************)
(* The device authorization grant of the MCP client                        *)
(* (console/services/mcp_device_authorization.py and its views): a device  *)
(* asks for a grant and polls for a token while a signed-in user inspects  *)
(* and decides the grant in a browser.                                     *)
(*                                                                         *)
(* Requests run side by side; a step is what one of them does between two  *)
(* uses of the database.  Each works with the time at which it began and   *)
(* with a copy of the row it read; what it writes is an UPDATE with a      *)
(* condition.  The codes, their hashes and the other fields of the row are *)
(* left out, and so are the rate limit's buckets: a request that asks one  *)
(* may be refused.                                                         *)
(***************************************************************************)
EXTENDS Naturals

CONSTANTS
    Polls,          \* requests of the device
    Browsers,       \* requests of users
    Users,
    Lifetime,       \* DEFAULT_EXPIRES_IN
    Interval,       \* DEFAULT_POLLING_INTERVAL
    Increment,      \* what a device that polls too early is slowed down by
    FailureLimit,   \* RAINBOND_MCP_DEVICE_GRANT_FAILURE_LIMIT
    MaxClock,       \* bound: where time ends
    MaxInterval,    \* bound: polling interval
    None

ASSUME DeviceAssumption ==
    /\ {Lifetime, Interval, Increment, FailureLimit,
        MaxClock, MaxInterval} \subseteq Nat
    /\ Interval <= MaxInterval
    /\ Lifetime <= MaxClock
    /\ None \notin Nat \cup Users

VARIABLES
    row,        \* the row of the grant
    active,     \* the users that may sign in
    clock,
    poll,       \* the requests of the device
    browser,    \* the requests of users
    tokens,     \* history: how many tokens every user got
    final       \* history: a poll was given a final answer

vars == <<row, active, clock, poll, browser, tokens, final>>

Undecided == {"pending", "approved"}
Settled == {"denied", "consumed", "expired"}
Statuses == {"absent"} \cup Undecided \cup Settled
Times == 0 .. MaxClock

Row == [status   : Statuses,
        user     : Users \cup {None},      \* approving_user_id
        expires  : Times,
        polled   : Times,                  \* last_polled_at, or created_at
        interval : 0 .. MaxInterval,
        failures : 0 .. FailureLimit]      \* failed_inspection_attempts

NoRow == [status |-> "absent", user |-> None, expires |-> 0,
          polled |-> 0, interval |-> 0, failures |-> 0]

Exists == row.status # "absent"

Running == {"load", "expire", "consume", "issue", "undo", "slow", "pend"}

Poll == [pc       : {"idle"} \cup Running,
         now      : Times,
         user     : Users \cup {None},     \* from the copy of the row
         interval : 0 .. MaxInterval,      \* from the copy of the row
         late     : BOOLEAN]    \* history: began after a final answer was given

NoPoll == [pc |-> "idle", now |-> 0, user |-> None, interval |-> 0, late |-> FALSE]

Deciding == {"inspect", "expire", "fail", "decide"}

Browser == [pc   : {"idle"} \cup Deciding,
            now  : Times,
            user : Users \cup {None}]

NoBrowser == [pc |-> "idle", now |-> 0, user |-> None]

Min(a, b) == IF a <= b THEN a ELSE b

Expired(now) == row.expires <= now

-----------------------------------------------------------------------------
(* The grant                                                               *)

Create ==
    /\ ~Exists
    /\ clock + Lifetime <= MaxClock
    /\ row' = [status |-> "pending", user |-> None, expires |-> clock + Lifetime,
               polled |-> clock, interval |-> Interval, failures |-> 0]
    /\ UNCHANGED <<active, clock, poll, browser, tokens, final>>

\* The UPDATE of _expire_record_if_needed, for a copy that is past its time.
ExpireRow ==
    row' = IF row.status \in Undecided THEN [row EXCEPT !.status = "expired"] ELSE row

-----------------------------------------------------------------------------
(* Polls of the device                                                     *)

Goto(p, pc) == poll' = [poll EXCEPT ![p].pc = pc]

\* A request ends with an answer; all but two are final.
Answer(p, answer) ==
    /\ poll' = [poll EXCEPT ![p] = NoPoll]
    /\ final' = (final \/ answer \notin {"authorization_pending", "slow_down"})

PollBegin(p) ==
    /\ poll[p].pc \notin Running
    /\ poll' = [poll EXCEPT ![p] = [pc |-> "load", now |-> clock, user |-> None,
                                    interval |-> 0, late |-> final]]
    /\ UNCHANGED <<row, active, clock, browser, tokens, final>>

\* No row has this device code, or too many polls asked for one like it.
PollUnknown(p) ==
    /\ poll[p].pc = "load"
    /\ ~Exists
    /\ poll' = [poll EXCEPT ![p] = NoPoll]
    /\ UNCHANGED <<row, active, clock, browser, tokens, final>>

\* A poll that finds the grant undecided, or that may fetch its token, goes on
\* with what it needs of the copy.
PollLoad(p) ==
    /\ poll[p].pc = "load"
    /\ Exists /\ ~Expired(poll[p].now)
    /\ LET early == poll[p].now < row.polled + row.interval IN
        \/ /\ row.status = "approved"
           /\ poll' = [poll EXCEPT ![p].pc = "consume", ![p].user = row.user, ![p].now = 0]
        \/ /\ row.status = "pending" /\ early
           /\ poll' = [poll EXCEPT ![p].pc = "slow", ![p].interval = row.interval, ![p].now = 0]
        \/ /\ row.status = "pending" /\ ~early
           /\ Goto(p, "pend")
    /\ UNCHANGED <<row, active, clock, browser, tokens, final>>

PollSettled(p) ==
    /\ poll[p].pc = "load"
    /\ Exists /\ ~Expired(poll[p].now)
    /\ \/ row.status = "expired" /\ Answer(p, "expired_token")
       \/ row.status = "denied" /\ Answer(p, "access_denied")
       \/ row.status = "consumed" /\ Answer(p, "invalid_grant")
    /\ UNCHANGED <<row, active, clock, browser, tokens>>

PollLate(p) ==
    /\ poll[p].pc = "load"
    /\ Exists /\ Expired(poll[p].now)
    /\ poll' = [poll EXCEPT ![p].pc = "expire", ![p].now = 0]
    /\ UNCHANGED <<row, active, clock, browser, tokens, final>>

PollExpire(p) ==
    /\ poll[p].pc = "expire"
    /\ ExpireRow
    /\ Answer(p, "expired_token")
    /\ UNCHANGED <<active, clock, browser, tokens>>

\* A mutant of Consume: the row is saved, not updated where it is approved.
ConsumeBlind(p) ==
    /\ poll[p].pc = "consume"
    /\ row' = [row EXCEPT !.status = "consumed"]
    /\ Goto(p, "issue") /\ UNCHANGED final
    /\ UNCHANGED <<active, clock, browser, tokens>>

\* UPDATE ... WHERE status = approved: of two polls one gets the grant.
Consume(p) ==
    /\ poll[p].pc = "consume"
    /\ IF row.status = "approved"
       THEN /\ row' = [row EXCEPT !.status = "consumed"]
            /\ Goto(p, "issue") /\ UNCHANGED final
       ELSE /\ Answer(p, "invalid_grant")
            /\ UNCHANGED row
    /\ UNCHANGED <<active, clock, browser, tokens>>

\* MCPDeviceTokenView: the user may have been deactivated since.
Issue(p) ==
    /\ poll[p].pc = "issue"
    /\ poll[p].user \in active
    /\ tokens' = [tokens EXCEPT ![poll[p].user] = @ + 1]
    /\ Answer(p, "approved")
    /\ UNCHANGED <<row, active, clock, browser>>

IssueRefused(p) ==
    /\ poll[p].pc = "issue"
    /\ poll[p].user \notin active
    /\ Goto(p, "undo")
    /\ UNCHANGED <<row, active, clock, browser, tokens, final>>

\* mark_consumed_authorization_denied()
Undo(p) ==
    /\ poll[p].pc = "undo"
    /\ row' = IF row.status = "consumed" THEN [row EXCEPT !.status = "denied"] ELSE row
    /\ Answer(p, "access_denied")
    /\ UNCHANGED <<active, clock, browser, tokens>>

\* The interval grows from the copy's: of two early polls one may be lost.
SlowDown(p) ==
    /\ poll[p].pc = "slow"
    /\ LET interval == Min(poll[p].interval + Increment, MaxInterval) IN
        row' = IF row.status = "pending" THEN [row EXCEPT !.interval = interval] ELSE row
    /\ Answer(p, "slow_down")
    /\ UNCHANGED <<active, clock, browser, tokens>>

Pending(p) ==
    /\ poll[p].pc = "pend"
    /\ row' = IF row.status = "pending" THEN [row EXCEPT !.polled = poll[p].now] ELSE row
    /\ Answer(p, "authorization_pending")
    /\ UNCHANGED <<active, clock, browser, tokens>>

-----------------------------------------------------------------------------
(* Requests of users                                                       *)

BrowserEnds(b) == browser' = [browser EXCEPT ![b] = NoBrowser]

BrowserFails(b, pc) == browser' = [browser EXCEPT ![b] = [NoBrowser EXCEPT !.pc = pc]]

\* Only an active user is let in to look at a grant or to decide it.
BrowserBegin(b, u) ==
    /\ browser[b].pc \notin Deciding
    /\ u \in active
    /\ browser' = [browser EXCEPT ![b] = [pc |-> "inspect", now |-> clock, user |-> u]]
    /\ UNCHANGED <<row, active, clock, poll, tokens, final>>

\* The rate limit of the user's address is used up, no row has the code, or the
\* worker dies: what is left of the request does not happen.
BrowserRefused(b) ==
    /\ browser[b].pc \in Deciding
    /\ BrowserEnds(b)
    /\ UNCHANGED <<row, active, clock, poll, tokens, final>>

\* inspect_user_code(), alone or as the beginning of decide_user_code()
Inspect(b) ==
    /\ browser[b].pc = "inspect"
    /\ Exists
    /\ \/ Expired(browser[b].now) /\ BrowserFails(b, "expire")
       \/ /\ ~Expired(browser[b].now) /\ row.status # "pending"
          /\ BrowserFails(b, "fail")
       \/ /\ ~Expired(browser[b].now) /\ row.status = "pending"
          /\ \/ browser' = [browser EXCEPT ![b].pc = "decide"]
             \/ BrowserEnds(b)
    /\ UNCHANGED <<row, active, clock, poll, tokens, final>>

BrowserExpire(b) ==
    /\ browser[b].pc = "expire"
    /\ ExpireRow
    /\ BrowserFails(b, "fail")
    /\ UNCHANGED <<active, clock, poll, tokens, final>>

\* A mutant of InspectFails: attempts are counted without a limit.
InspectFailsAgain(b) ==
    /\ browser[b].pc = "fail"
    /\ row' = [row EXCEPT !.failures = @ + 1]
    /\ BrowserEnds(b)
    /\ UNCHANGED <<active, clock, poll, tokens, final>>

\* Up to a limit; beyond it the request is refused as one too many.
InspectFails(b) ==
    /\ browser[b].pc = "fail"
    /\ row' = [row EXCEPT !.failures = Min(@ + 1, FailureLimit)]
    /\ BrowserEnds(b)
    /\ UNCHANGED <<active, clock, poll, tokens, final>>

Decided(b) ==
    \/ row' = [row EXCEPT !.status = "approved", !.user = browser[b].user]
    \/ row' = [row EXCEPT !.status = "denied", !.user = browser[b].user]

\* A mutant of Decide: the row is saved, not updated where it is pending.
DecideBlind(b) ==
    /\ browser[b].pc = "decide"
    /\ Decided(b)
    /\ BrowserEnds(b)
    /\ UNCHANGED <<active, clock, poll, tokens, final>>

\* UPDATE ... WHERE status = pending AND expires_at > now
Decide(b) ==
    /\ browser[b].pc = "decide"
    /\ IF row.status = "pending" /\ ~Expired(browser[b].now)
       THEN Decided(b) ELSE UNCHANGED row
    /\ BrowserEnds(b)
    /\ UNCHANGED <<active, clock, poll, tokens, final>>

-----------------------------------------------------------------------------
(* The surroundings                                                        *)

Tick ==
    /\ clock < MaxClock
    /\ clock' = clock + 1
    /\ UNCHANGED <<row, active, poll, browser, tokens, final>>

\* An administrator switches a user off or on.
Switch(u) ==
    /\ active' = IF u \in active THEN active \ {u} ELSE active \cup {u}
    /\ UNCHANGED <<row, clock, poll, browser, tokens, final>>

\* The worker that serves a poll dies, and the device is not answered.
PollCrash(p) ==
    /\ poll[p].pc \in Running
    /\ poll' = [poll EXCEPT ![p] = NoPoll]
    /\ UNCHANGED <<row, active, clock, browser, tokens, final>>

-----------------------------------------------------------------------------

Init ==
    /\ row = NoRow
    /\ active = Users
    /\ clock = 0
    /\ poll = [p \in Polls |-> NoPoll]
    /\ browser = [b \in Browsers |-> NoBrowser]
    /\ tokens = [u \in Users |-> 0]
    /\ final = FALSE

PollStep(p) ==
    \/ PollUnknown(p) \/ PollLoad(p) \/ PollSettled(p) \/ PollLate(p) \/ PollExpire(p)
    \/ Consume(p) \/ Issue(p) \/ IssueRefused(p) \/ Undo(p) \/ SlowDown(p) \/ Pending(p)

BrowserStep(b) ==
    BrowserRefused(b) \/ Inspect(b) \/ BrowserExpire(b) \/ InspectFails(b) \/ Decide(b)

Next ==
    \/ Create \/ Tick
    \/ \E p \in Polls : PollBegin(p) \/ PollStep(p) \/ PollCrash(p)
    \/ \E b \in Browsers :
        BrowserStep(b) \/ \E u \in Users : BrowserBegin(b, u)
    \/ \E u \in Users : Switch(u)

Spec == Init /\ [][Next]_vars

-----------------------------------------------------------------------------
(* Properties                                                              *)

\* The row, the requests and the histories have the shape the tables and the
\* handlers give them.
TypeOK ==
    /\ row \in Row
    /\ active \subseteq Users
    /\ clock \in Times
    /\ poll \in [Polls -> Poll]
    /\ browser \in [Browsers -> Browser]
    /\ tokens \in [Users -> Nat]
    /\ final \in BOOLEAN

\* A final answer is final: a poll that begins after one, whichever requests
\* are still under way, is neither told to wait nor on its way to a token
\* (poll_device_token, mark_consumed_authorization_denied).
FinalIsFinal ==
    \A p \in Polls : poll[p].late => poll[p].pc \in {"load", "expire"}

\* The grant keeps what DeviceGrant promises: it is decided once, becomes one
\* token at most, that of the user who approved it, and none after a denial.
Grant == INSTANCE DeviceGrant WITH
    grant <- IF \E u \in Users : tokens[u] > 0 THEN "spent"
             ELSE IF row.status \in {"absent", "pending"} THEN "open"
             ELSE IF \/ row.status = "approved"
                     \/ row.status = "consumed" /\ \E p \in Polls : poll[p].pc = "issue"
             THEN "approved" ELSE "closed",
    approver <- row.user

KeepsGrant == Grant!Init /\ [][Grant!Next]_(Grant!vars)
=============================================================================
