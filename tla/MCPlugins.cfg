SPECIFICATION MCSpec
CONSTANTS
  Stores = {s1, s2}
  Names = {n1}
  Routes = {r1}
  NoStore = NoStore
  t1 = t1
  t2 = t2
  t3 = t3
  Tasks = {t1, t2, t3}
  Batches <- MCBatches
  Shapes <- MCShapes
  Cap = 16
  BatchSize = 3
  SidBytes = 1
  Rest = 1
  Cbs = {"task", "stat"}
  Task = "task"
  Stat = "stat"
  KeyOf <- MCKeyOf
  Wild = {}
  Sids = {A, B}
  NoSid = NoSid
  Uids = {u}
  NoUid = NoUid
  MaxSwitch = 2
  MaxConn = 0
  MaxHold = 1
  MaxOut = 3
  PSids = {def, a, b}
  Default = def
  Reqs = {r1}
  MaxObj = 2
  Timeout = 0
  NHosted = 2
  HCalls = {h1}
  MaxDyn = 2
  MaxDeliver = 3
  Jobs = {j1, j2}
  Targets = {j1}
  UnknownTolerance = 2
  TJobs = {1, 2}
  Tolerance = 2
  MaxSpawn = 2
  PTasks = {"t1", "t2"}
INVARIANTS  HostSound 
 
CONSTRAINT FewWalks
CHECK_DEADLOCK FALSE
