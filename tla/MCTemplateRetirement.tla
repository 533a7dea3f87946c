------------------------ MODULE MCTemplateRetirement ------------------------
(* Small instances of TemplateRetirement.                                  *)
EXTENDS TemplateRetirement, TLC

CONSTANTS i1, u1, u2, x1, y1, a1, r1, s1, s2

NoRequest == {}
OneInstaller == {i1}
OneUpgrader == {u1}
TwoUpgraders == {u1, u2}
OneRestorer == {x1}
OneSyncer == {y1}
OneApp == {a1}
OneRecord == {r1}
OneStore == {s1}
TwoStores == {s1, s2}
TwoVersions == {1, 2}
ThreeVersions == {1, 2, 3}

Symmetry == Permutations(Stores) \cup Permutations(Upgraders)
=============================================================================
