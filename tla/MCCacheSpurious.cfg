\* Interrupts of the secondary channel that no command caused.
CONSTANTS
  Procs = {p1, p2}
  Bufs = {b1, b2}
  Keys1 = {k1, k3}
  Keys2 = {k2}
  Data = {d1, d2}
  MaxPinned = 1
  Spurious = TRUE
  Nobody = Nobody
  NoKey = NoKey
  Junk = Junk
SPECIFICATION Spec
INVARIANT ValidMatchesDisk
