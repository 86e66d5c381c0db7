SPECIFICATION FairSpec
CONSTANTS
  Ends = {n1}
  Broker = Broker
  Ids = {c1, c2}
  Unset = Unset
  ForwardCap = 1
  CallCap = 1
  ReqCap = 1
PROPERTIES EntriesLeave ImplementsService
