CONSTANTS
  p1 = p1  p2 = p2  p3 = p3  q1 = q1  q2 = q2  r1 = r1  r2 = r2  Nobody = Nobody
SYMMETRY MCSymmetry
SPECIFICATION Spec
INVARIANTS
  RunningOnce FamilyKept NobodyOversleeps IntenaFollowsThread ConsoleUsable
  PagesAccounted PagesGivenOnce ReferencesCounted InodesOwned
  OutputRight ParsesBack HeapTiled GrepRight
PROPERTIES LinesInOrder
