\* kill against a process about to sleep.
CONSTANTS
  Writers = {w1, w2}
  Readers = {r1}
  Byte = {a}
  PIPESIZE = 2
  Word = 4
  MaxN = 2
  Nobody = Nobody
SPECIFICATION Spec
INVARIANT KilledIsAwake
CHECK_DEADLOCK FALSE
