SPECIFICATION CallsSpec
CONSTANTS
  Ends = {n1, n2}
  Broker = Broker
  Ids = {c1, c2}
  Unset = Unset
  ForwardCap = 1
  CallCap = 1
  ReqCap = 1
SYMMETRY Symmetry
INVARIANTS EntriesSound WithinCaps LostFailsFast
PROPERTY OutcomeStable
