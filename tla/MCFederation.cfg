SPECIFICATION Spec
CONSTANTS
  r1 = r1
  r2 = r2
  ma = ma
  mb = mb
  md = md
  cpu = cpu
  gpu = gpu
  t1 = t1
  None = None
  Res = {r1, r2}
  Mem = {ma, mb, md}
  Classes = {cpu, gpu}
  Tasks = {t1}
  Order <- MCOrder
  ClassOf <- MCClassOf
  Rank <- MCRank
  Versions = 2
  Changing = {mb}
  Allocated = {md}
  Overlap = 2
INVARIANTS MembersSound 
CONSTRAINT FewAtOnce
ACTION_CONSTRAINT ToTheEnd
CHECK_DEADLOCK FALSE
