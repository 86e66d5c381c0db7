SPECIFICATION MCSpec
CONSTANTS
  c1 = c1
  c2 = c2
  Cbs = {c1, c2}
  KeyOf <- MCKeyOf
  Wild = {}
  Sids = {A}
  NoSid = NoSid
  MaxConn = 1
  MaxHold = 1
  MaxOut = 3
  Peers = {p}
  MaxFrames = 2
INVARIANTS SubscriptionsSound RuntimeSound
PROPERTY RuntimeProgress
CONSTRAINT FewFrames
CHECK_DEADLOCK FALSE
