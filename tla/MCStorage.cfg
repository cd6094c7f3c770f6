\* Processes may end in a panic, and a machine may stop; so may a finished mkfs.
CONSTANTS
  q1 = q1  q2 = q2  f1 = f1  f2 = f2  Nobody = Nobody
SYMMETRY MCSymmetry
SPECIFICATION Spec
INVARIANTS
  ContentsReadBack BitmapExact WriteFits DiskSound
  LinksCoverNames DirectoriesFormATree LookupsRight ImageReadsBack
CHECK_DEADLOCK FALSE
