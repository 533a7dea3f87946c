---------------------------- MODULE AttemptReports ----------------------------
(***************************************************************************)
(* What the tracking of deployments promises to the server it reports to:  *)
(* a result is told only when the deployment supports it, and another one  *)
(* only when two have watched the attempt at once; an attempt is given up  *)
(* once, for a reason, and of one that deployed nothing nothing is told.   *)
(* Nothing here says who watches an attempt, what is stored meanwhile or   *)
(* how often a report is sent.                                             *)
(***************************************************************************)
CONSTANTS Attempts, Events

VARIABLES
    event,      \* what became of the events of every deployment
    closed,     \* attempts whose time to end is over
    expired,    \* attempts that may be forgotten
    told,       \* what was reported of every attempt
    end,        \* why an attempt is not followed any more, or "none"
    shared      \* attempts that two have watched at once

vars == <<event, closed, expired, told, end, shared>>

Results == {"success", "failure", "timeout"}

NoEvents(a) == \A e \in Events : event[a][e] = "none"

\* What is known of the deployment supports the result.
Supports(a, result) ==
    \/ /\ result = "success"
       /\ ~NoEvents(a) /\ \A e \in Events : event[a][e] \in {"none", "success"}
    \/ /\ result = "failure"
       /\ NoEvents(a) \/ \E e \in Events : event[a][e] = "failure"
    \/ /\ result = "timeout"
       /\ a \in closed \/ \E e \in Events : event[a][e] = "timeout"

Init ==
    /\ event = [a \in Attempts |-> [e \in Events |-> "none"]]
    /\ closed = {} /\ expired = {} /\ shared = {}
    /\ told = [a \in Attempts |-> {}]
    /\ end = [a \in Attempts |-> "none"]

Deploy(a) ==
    /\ NoEvents(a) /\ told[a] = {} /\ end[a] = "none"
    /\ \E f \in [Events -> {"none", "running"}] : event' = [event EXCEPT ![a] = f]
    /\ shared' \in {shared, shared \cup {a}}
    /\ UNCHANGED <<closed, expired, told, end>>

Ends(a, e, result) ==
    /\ event[a][e] = "running" /\ end[a] = "none"
    /\ event' = [event EXCEPT ![a][e] = result]
    /\ UNCHANGED <<closed, expired, told, end, shared>>

Ages(a) ==
    /\ end[a] = "none"
    /\ closed' = closed \cup {a} /\ expired' \in {expired, expired \cup (closed \cap {a})}
    /\ UNCHANGED <<event, told, end, shared>>

Watch(a) ==
    /\ shared' = shared \cup {a}
    /\ UNCHANGED <<event, closed, expired, told, end>>

\* The attempt is done with a result, or with the dispatch of nothing.
Delivers(a, what) ==
    /\ what \in Results \/ NoEvents(a)
    /\ end[a] = "none" /\ end' = [end EXCEPT ![a] = "delivered"]

Tell(a, what) ==
    /\ end[a] # "discarded"
    /\ what \in Results =>
          Supports(a, what) /\ (told[a] \cap Results \subseteq {what} \/ a \in shared)
    /\ told' = [told EXCEPT ![a] = @ \cup {what}]
    /\ Delivers(a, what) \/ UNCHANGED end
    /\ UNCHANGED <<event, closed, expired, shared>>

GiveUp(a) ==
    /\ end[a] = "none"
    /\ \/ NoEvents(a) /\ told[a] = {} /\ end' = [end EXCEPT ![a] = "discarded"]
       \/ a \in expired /\ end' = [end EXCEPT ![a] = "expired"]
    /\ UNCHANGED <<event, closed, expired, told, shared>>

Next == \E a \in Attempts :
           \/ Deploy(a) \/ Ages(a) \/ Watch(a) \/ GiveUp(a)
           \/ \E result \in Results : \E e \in Events : Ends(a, e, result)
           \/ \E what \in Results \cup {"dispatch"} : Tell(a, what)

Spec == Init /\ [][Next]_vars
===============================================================================
