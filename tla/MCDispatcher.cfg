SPECIFICATION Spec
CONSTANTS
  Tasks = {t1, t2}
  Pilots = {p1, p2, p3}
  None = None
  Capacity = 1
  MaxRequeues = 1
  Outcomes = {"FAILED"}
  MaxTries = 2
SYMMETRY Symmetry
CONSTRAINT Scope
INVARIANTS ClaimsSound RunningOnLivePilot LedgerLags
PROPERTY EndIsFinal
