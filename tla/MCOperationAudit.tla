--------------------------- MODULE MCOperationAudit ---------------------------
(* A small instance of OperationAudit.                                     *)
EXTENDS OperationAudit, TLC

CONSTANTS c1, c2, o1, o2

MCCalls == {c1, c2}
MCOperations == {o1, o2}
===============================================================================
