CONSTANTS
  p1 = p1  p2 = p2  n1 = n1  n2 = n2  a = a  b = b
  Pids <- MCPids2
  Section0 <- MCSection0
  Nodes <- MCNodes
  Notifs <- MCNotifs2
  RingSize = 1
  MaxSubs = 1
  NoPid = NoPid
SPECIFICATION NSpec
INVARIANTS ProcessTableInv 
PROPERTIES NoSilentSkip
SYMMETRY Symmetry
