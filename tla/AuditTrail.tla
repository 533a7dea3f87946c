------------------------------ MODULE AuditTrail ------------------------------
(***************************************************************************)
(* What the audit of operations promises: a tool runs at most once for an  *)
(* operation, after its start has been recorded; an operation ends once,   *)
(* its end says what the tool did or that nobody knows; and every start    *)
(* and end is one event, written with it.                                  *)
(***************************************************************************)
EXTENDS Naturals

CONSTANTS Operations

VARIABLES
    status,     \* what is recorded of every operation
    outcome,    \* what its tool did: "none" before it has run
    events      \* how many events of every type are there for it

vars == <<status, outcome, events>>

Terminal == {"succeeded", "failed", "unknown"}

Types == {"started"} \cup Terminal

Init ==
    /\ status = [o \in Operations |-> "absent"]
    /\ outcome = [o \in Operations |-> "none"]
    /\ events = [o \in Operations |-> [t \in Types |-> 0]]

Start(o) ==
    /\ status[o] = "absent"
    /\ status' = [status EXCEPT ![o] = "executing"]
    /\ events' = [events EXCEPT ![o]["started"] = @ + 1]
    /\ UNCHANGED outcome

Run(o, r) ==
    /\ status[o] # "absent" /\ outcome[o] = "none"
    /\ outcome' = [outcome EXCEPT ![o] = r]
    /\ UNCHANGED <<status, events>>

End(o, t) ==
    /\ status[o] = "executing" /\ t \in {outcome[o], "unknown"}
    /\ status' = [status EXCEPT ![o] = t]
    /\ events' = [events EXCEPT ![o][t] = @ + 1]
    /\ UNCHANGED outcome

Next == \E o \in Operations :
           \/ Start(o)
           \/ \E r \in {"succeeded", "failed"} : Run(o, r)
           \/ \E t \in Terminal : End(o, t)

Spec == Init /\ [][Next]_vars
===============================================================================
