------------------------- MODULE MCDeploymentTracking -------------------------
(* Small instances of DeploymentTracking.                                  *)
EXTENDS DeploymentTracking

CONSTANTS a1, a2, e1, e2, p1, p2

OneAttempt == <<a1>>
TwoAttempts == <<a1, a2>>
OneEvent == {e1}
TwoEvents == {e1, e2}
OneProcess == {p1}
TwoProcesses == {p1, p2}
===============================================================================
