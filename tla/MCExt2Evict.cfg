\* Two files with an indirect block, and a cache that recycles clean buffers.
CONSTANTS
  Files = {1, 2}
  NBIT = 9
  META = 2
  BITMAP = 1
  NDIR = 1
  NIND = 2
  MaxBn = 3
  Crashes = FALSE
  Evictions = TRUE
SPECIFICATION Spec
INVARIANT ReadsBack
CHECK_DEADLOCK FALSE
