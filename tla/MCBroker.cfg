SPECIFICATION Spec
CONSTANTS
  Names = {n1, n2}
  Sockets = {s1, s2, s3}
  None = None
  MaxStalled = 1
  MaxWaiting = 2
SYMMETRY Symmetry
INVARIANTS TypeOK RegistryCoherent  LostMeansSuspect HostCurrent
PROPERTY NoLiveEviction
