\* Everybody may have left the pipe, or exited.
CONSTANTS
  p1 = p1  p2 = p2  p3 = p3  b1 = b1  b2 = b2  k1 = k1  k2 = k2  d1 = d1
  Nobody = Nobody  NoKey = NoKey  Junk = Junk  NoBuf = NoBuf  Torn = Torn
SPECIFICATION Spec
PROPERTIES SleeperWakes TransferFinishes CloseReleases
           KilledEnds OrphansReaped JobsEnd
CHECK_DEADLOCK FALSE
