CONSTANTS
  p1 = p1  p2 = p2  r1 = r1  r2 = r2  w1 = w1  s1 = s1  b1 = b1  b2 = b2  k1 = k1  k2 = k2  k3 = k3  d1 = d1  d2 = d2
  Nobody = Nobody  NoKey = NoKey  Junk = Junk
SYMMETRY MCSymmetry
SPECIFICATION Spec
INVARIANTS
  HoldsItsBlock SleepersAwaitSomething SleepIsJustified
PROPERTIES BlocksAreRegisters IsFifo
