SPECIFICATION MCSpec
CONSTANTS
  Stores = {s1}
  Names = {n1}
  Routes = {r1}
  NoStore = NoStore
  PSids = {def, a}
  Default = def
  Reqs = {r1}
  MaxObj = 2
  Timeout = 0
  NHosted = 2
  HCalls = {h1}
  MaxDyn = 1
  MaxDeliver = 1
  Jobs = {j1}
  Targets = {j1}
  UnknownTolerance = 2
  TJobs = {1}
  Tolerance = 2
  MaxSpawn = 2
  PTasks = {"t1"}
  Conns = {c1}
  FCalls = {k1, k2}
  NoCred = NoCred
  Sims = {1, 2}
  XgBatch = 1
  MaxRuns = 1
  LSubmits = {s1}
  Wells = {"w1", "w2"}
  MaxLucid = 1
  PollRetries = 2
  LoSeq = 2
  HiSeq = 3
  MaxBytes = 2
  BatchMax = 1
  Browsers = {b1}
  Depth = 2
  MaxEvents = 2
  MaxTopo = 1
  Users = {u1, u2}
  MaxClients = 2
  MaxRestarts = 1
  TbPool <- MCPool
  TbPools = {"p", "q"}
  TbBatch = 2
  MaxTbTries = 1
  MaxTbStops = 1
PROPERTIES EndsAreTold CallsAreAnswered ClosingEnds
CONSTRAINT FewWalks
CHECK_DEADLOCK FALSE
