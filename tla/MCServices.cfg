SPECIFICATION MCSpec
CONSTANTS
  GRegs = {r1, r2, r3}
  GSids = {s1}
  GCalls = {k1}
  NoReg = NoReg
  Interval = 2
  MaxTimeout = 7
  MaxCall = 3
  Pause = 3
  Conns = {c1, c2}
  FCalls = {k1, k2}
  NoCred = NoCred
  Sims = {1, 2}
  XgBatch = 1
  MaxRuns = 2
  LSubmits = {s1, s2}
  Wells = {"w1", "w2"}
  MaxLucid = 2
  PollRetries = 2
  LoSeq = 2
  HiSeq = 4
  MaxBytes = 2
  BatchMax = 1
  QKeys = {"info"}
  QCalls = {c1, c2}
  Ttl = 2
  MaxCollect = 2
  Horizon = 5
  Browsers = {b1, b2}
  Depth = 2
  MaxEvents = 2
  MaxTopo = 1
  MaxSubs = 2
  MaxClaims = 2
  Users = {u1, u2}
  MaxClients = 3
  MaxRestarts = 2
  EmReqs = {r1, r2}
  EmIds = {i1, i2}
  EmEndpoints = {e1, e2}
  EmNone = none
  MaxEmStops = 1
  TbPool <- MCPool
  TbPools = {"p", "q"}
  TbBatch = 2
  MaxTbTries = 2
  MaxTbStops = 1
  PlTasks = {t1, t2}
  PlPilots = {p1}
  PlMembers = {m1, m2}
  PlDecls <- MCDecls
  PlRaws <- MCRaws
  PlLegacy <- MCLegacy
  NoPilot = NoPilot
  NoDecl = NoDecl
  NoReq = NoReq
  PlRequeues = 1
  PlFloor = 1
INVARIANTS FacilitySound   DispatcherSound
PROPERTY ServiceSteps
CONSTRAINT FewRuns
CHECK_DEADLOCK FALSE
