CONSTANTS
  p1 = p1  p2 = p2  p3 = p3
  b1 = b1  b2 = b2  b3 = b3  b4 = b4
  d1 = d1  d2 = d2
  Ops <- MCOps3
  Blocks <- MCBlocks3
  Data <- MCData1
  NoBuf = NoBuf
  Torn = Torn
  MAXOPBLOCKS = 1
  OpBlocks = 1
  LOGSIZE = 3
  Nlog = 3
SYMMETRY MCSymmetry3
SPECIFICATION Spec
INVARIANT LogFits
