\* Two processes, the root and two more inodes.
CONSTANTS
  Procs = {p, q}
  Nobody = Nobody
  NINODES = 3
  Names = {"a", "b"}
  Paths <- MCPaths
  Types = {"dir", "file"}
  MaxLinks = 2
SPECIFICATION Spec
INVARIANT NoStandoff
CHECK_DEADLOCK FALSE
