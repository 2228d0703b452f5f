---------------------------- MODULE MCSMServices ----------------------------
EXTENDS SMServices, TLC
CONSTANTS p1, p2, s1, s2, s3, A, q1, q2
MCPids == {p1, p2}
MCPids1 == {p1}
MCSessions == {s1, s2}
MCSessions3 == {s1, s2, s3}
MCNames == {A}
MCPorts == {q1, q2}
MCPorts1 == {q1}
MCMax == {1}
Symmetry == Permutations(Sessions) \cup Permutations(Pids) \cup Permutations(Ports)
=============================================================================
