SPECIFICATION Spec
CONSTANTS
  Names = {n1, n2}
  Sockets = {s1, s2, s3, s4}
  None = None
  MaxStalled = 1
  MaxWaiting = 2
CONSTRAINT OnlyDrops
SYMMETRY Symmetry
INVARIANT SuspectIsTimed
