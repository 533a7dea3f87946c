---------------------------- MODULE TemplateFence ----------------------------
(***************************************************************************)
(* What the fence around the versions of an application template promises: *)
(* nobody begins to use a version that has been retired, and no version is *)
(* retired while it is in use or while it is the newest one.               *)
(***************************************************************************)
EXTENDS Naturals

CONSTANT Versions     \* numbers, the newest is the largest

VARIABLES
    present,    \* the versions that have not been retired
    used        \* the versions that are in use

vars == <<present, used>>

Init == present = Versions /\ used \in SUBSET Versions

\* Versions are taken into use and given up, but only those that are there are
\* taken.
Move ==
    /\ used' \in SUBSET Versions
    /\ used' \ used \subseteq present
    /\ UNCHANGED present

Retire(v) ==
    /\ v \notin used
    /\ \E w \in present : w > v
    /\ present' = present \ {v}
    /\ UNCHANGED used

Next == Move \/ \E v \in Versions : Retire(v)

Spec == Init /\ [][Next]_vars
=============================================================================
