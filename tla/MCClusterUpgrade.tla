-------------------------- MODULE MCClusterUpgrade --------------------------
EXTENDS ClusterUpgrade, TLC

CONSTANTS m1, m2, w1, w2

TwoMasters == {m1, m2}
OneMaster == {m1}
TwoWorkers == {w1, w2}
OneWorker == {w1}
NoNode == {}
Symmetry == Permutations({m1, m2})
=============================================================================
