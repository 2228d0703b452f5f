------------------------- MODULE MCSMNotifications -------------------------
EXTENDS SMNotifications, TLC
CONSTANTS p1, p2, n1, n2, a, b
MCPids1 == {p1}
MCPids2 == {p1, p2}
MCNodes1 == {n1}
MCNodes == {n1, n2}
MCSection0 == {p2}
MCNone == {}
MCNotifs1 == {a}
MCNotifs2 == {a, b}
Symmetry == Permutations(Nodes) \cup Permutations(Notifs)
=============================================================================
