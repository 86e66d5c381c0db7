SPECIFICATION FairSpec
CONSTANTS
  e1 = e1
  p1 = p1
  t1 = t1
  a = a
  None = None
  Names = {n1}
  Endpoints = {e1, e2}
  Plugins = {p1}
  Topics = {t1, t2}
  Sessions = {a, b}
  Patterns <- MCPatterns
  EventQueue = 2
  SessionSeqMax = 1
  MaxSeq = 3
  MaxPatterns = 2
INVARIANTS QueuesSound IndexAgrees
PROPERTIES SeqForward QueueDrains
CONSTRAINT Scope
