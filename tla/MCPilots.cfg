SPECIFICATION Spec
CONSTANTS
  Members = {m1}
  Pids = {p1, p2}
  None = None
  Bare = {}
  MinPilots = 0
  MaxPilots = 2
  MaxInFlight = 2
  MaxFailures = 2
SYMMETRY Symmetry
CONSTRAINT FewAtOnce
INVARIANTS PilotsSound JobsSound
PROPERTY PilotForward
