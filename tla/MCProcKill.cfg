\* init and a child, which kills "process 0".
CONSTANTS
  NPROC = 3
  NCPU = 1
  MaxPid = 3
  Word = 2
  Naps = {1}
  Victims = {0}
SPECIFICATION Spec
PROPERTY BornUnharmed
CHECK_DEADLOCK FALSE
