----------------------------- MODULE MCEtcdRole -----------------------------
EXTENDS EtcdRole, TLC

CONSTANTS h1, h2, h3, h4, h5

Three == {h1, h2, h3}
Five == {h1, h2, h3, h4, h5}
ThreeThenFive == {Three, Five}
Four == {h1, h2, h3, h4}
ThreeThenFour == {Three, Four}
JustThree == {Three}
NoMember == {}
OwnAddress == [h \in Host |-> {h}]
\* The address of h4 (10.0.0.1) is a part of that of h1 (10.0.0.10).
PartOfAnother == [h \in Host |-> IF h = h4 THEN {h1, h4} ELSE {h}]
ThreeSymmetry == Permutations({h1, h2, h3})
ThreeTwoSymmetry == Permutations({h1, h2, h3}) \cup Permutations({h4, h5})
=============================================================================
