----------------------------- MODULE DeviceGrant -----------------------------
(***************************************************************************)
(* What the device authorization promises: a grant is decided once, by one *)
(* user, and becomes at most one token, which is that user's.  A grant     *)
(* that is denied, expires or is given up never becomes a token.           *)
(***************************************************************************)
EXTENDS Naturals

CONSTANTS Users, None

VARIABLES
    grant,      \* "open", "approved", "closed", or "spent" on a token
    approver,   \* who approved it
    tokens      \* how many tokens every user got by it

vars == <<grant, approver, tokens>>

Init == grant = "open" /\ approver = None /\ tokens = [u \in Users |-> 0]

Approve(u) ==
    /\ grant = "open"
    /\ grant' = "approved" /\ approver' = u
    /\ UNCHANGED tokens

\* Denied, expired, or lost with the request that was about to spend it.
Close ==
    /\ grant \in {"open", "approved"}
    /\ grant' = "closed"
    /\ \E u \in Users \cup {None} : approver' = u
    /\ UNCHANGED tokens

Spend ==
    /\ grant = "approved"
    /\ grant' = "spent" /\ tokens' = [tokens EXCEPT ![approver] = @ + 1]
    /\ UNCHANGED approver

Next == Close \/ Spend \/ \E u \in Users : Approve(u)

Spec == Init /\ [][Next]_vars
=============================================================================
