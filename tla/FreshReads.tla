------------------------------ MODULE FreshReads ------------------------------
(***************************************************************************)
(* What a process-local read cache promises its callers.                   *)
(*                                                                         *)
(* A source keeps a version per key.  Whoever changes it may then clear    *)
(* the cache; a read that begins after that never answers with an older    *)
(* version.  Between two clears a read may answer with any version the     *)
(* source has had since the last one.  Nothing here says how reads are     *)
(* shared or what is kept.                                                 *)
(***************************************************************************)
EXTENDS Naturals

CONSTANTS Threads, Keys, None

VARIABLES
    source,     \* version of every key at its source
    floor,      \* version every key had when the cache was last cleared
    call        \* what every thread is doing

vars == <<source, floor, call>>

Outside(status, v) == [status |-> status, key |-> None, floor |-> None, value |-> v]

Idle == Outside("idle", None)

Init ==
    /\ source = [k \in Keys |-> 0]
    /\ floor = source
    /\ call = [t \in Threads |-> Idle]

Update(k) ==
    /\ source' = [source EXCEPT ![k] = @ + 1]
    /\ UNCHANGED <<floor, call>>

Clear ==
    /\ floor' = source
    /\ UNCHANGED <<source, call>>

Begin(t, k) ==
    /\ call[t].status # "busy"
    /\ call' = [call EXCEPT ![t] = [status |-> "busy", key |-> k,
                                    floor |-> floor[k], value |-> None]]
    /\ UNCHANGED <<source, floor>>

Answer(t) ==
    /\ call[t].status = "busy"
    /\ \E v \in call[t].floor .. source[call[t].key] :
        call' = [call EXCEPT ![t] = Outside("returned", v)]
    /\ UNCHANGED <<source, floor>>

Raise(t) ==
    /\ call[t].status = "busy"
    /\ call' = [call EXCEPT ![t] = Idle]
    /\ UNCHANGED <<source, floor>>

Next ==
    \/ Clear
    \/ \E k \in Keys : Update(k)
    \/ \E t \in Threads :
        \/ \E k \in Keys : Begin(t, k)
        \/ Answer(t) \/ Raise(t)

Spec == Init /\ [][Next]_vars
=============================================================================
