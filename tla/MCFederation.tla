---------------------------- MODULE MCFederation ----------------------------
EXTENDS Federation, TLC
CONSTANTS r1, r2, ma, mb, md, cpu, gpu

\* r1 has a member in each class, r2 is an allocation in class cpu.
MCOrder   == (r1 :> <<ma, mb>>) @@ (r2 :> <<md>>)
MCClassOf == (ma :> cpu) @@ (mb :> gpu) @@ (md :> cpu)
MCRank    == (cpu :> 1) @@ (gpu :> 2)

\* Operations overlap without tasks, a suspect endpoint is met by one operation
\* and no task, a task sees one version of a declaration, and once two operations
\* overlapped on a resource they are only followed to their end.
FewAtOnce ==
  LET few == Cardinality(ops) <= 1 IN
  /\ ledger # [t \in Tasks |-> None] => few /\ \A r \in Res : joined[r] <= 1
  /\ (\E r \in Res : net[r] = "suspect") => few /\ ledger = [t \in Tasks |-> None]
ToTheEnd == raced # {} => Cardinality(ops') < Cardinality(ops) \/ \E o \in ops : Resumed(o)
=============================================================================
