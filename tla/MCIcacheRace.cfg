\* iput of an unlinked file against ialloc: three processes, two built-in inodes, one
\* ext2 inode, two cache entries.
CONSTANTS
  Procs = {p1, p2, p3}
  Fs = {1, 2}
  Ext2 = {11}
  NINODE = 2
  Nobody = Nobody
SPECIFICATION Spec
INVARIANT PointersStayValid
CHECK_DEADLOCK FALSE
