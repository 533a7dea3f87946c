-------------------------- MODULE MCSnapshotTracking --------------------------
(* A small instance of SnapshotTracking.                                   *)
EXTENDS SnapshotTracking, TLC

CONSTANTS c1, c2, p1, p2, w1, w2

MCComponents == {c1, c2}
MCRequests == {p1, p2}
MCWorkers == {w1, w2}

\* Deployments meet requests of every kind, and every process has its worker.
MCKinds ==
    (p1 :> {"deploy", "batch", "upgrade", "restore", "rollback"}) @@ (p2 :> {"deploy"})
=============================================================================
