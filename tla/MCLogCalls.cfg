CONSTANTS
  p1 = p1  p2 = p2  p3 = p3
  b1 = b1  b2 = b2  b3 = b3  b4 = b4
  c1 = c1  c2 = c2  e1 = e1  e2 = e2
  d1 = d1  d2 = d2
  Ops <- MCOps2
  Blocks <- MCBlocks4
  Data <- MCData
  NoBuf = NoBuf
  Torn = Torn
  MAXOPBLOCKS = 1
  OpBlocks = 1
  LOGSIZE = 3
  Nlog = 4
SYMMETRY MCSymmetry
SPECIFICATION MCSpec
INVARIANTS TypeOK CommitAlone SleeperHasWaker EvictionSafe LogFits
PROPERTIES Atomic CallsAtomic
