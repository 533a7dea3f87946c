---------------------------- MODULE MCAppUpgrade ----------------------------
(* Small instances of AppUpgrade.                                          *)
EXTENDS UpgradeClaims, TLC

CONSTANTS q1, q2, c1, c2, v1, v2

MCVersions == {v1, v2}
OneRequest == {q1}
TwoRequests == {q1, q2}
OneComponent == {c1}
TwoComponents == {c1, c2}
NoVersions == {}
V2 == {v2}
AllKinds == {"create", "upgrade", "component", "restore", "retry", "poll", "list"}
UpgradePoll == {"create", "upgrade", "retry", "poll"}
NoRetry == {"create", "upgrade", "poll"}
UpgradeRestore == {"create", "upgrade", "restore", "poll"}

ComponentSymmetry == Permutations(TwoComponents)
Symmetry == Permutations(TwoRequests) \cup Permutations(TwoComponents)
=============================================================================
