-------------------------------- MODULE MCSM --------------------------------
EXTENDS SM, TLC
CONSTANTS p1, n1, s1, s2, a, A, q1
MCPids == {p1}
MCNone == {}
MCNodes == {n1}
MCNotifs == {a}
MCSessions == {s1, s2}
MCNames == {A}
MCPorts == {q1}
MCMax == {1}
Symmetry == Permutations(Sessions)
=============================================================================
