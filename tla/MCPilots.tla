------------------------------ MODULE MCPilots ------------------------------
(* Pilots on small instances: pilot ids are interchangeable.               *)
EXTENDS Pilots, TLC

Symmetry == Permutations(Pids)

\* Bound: at most two coroutines (submissions, cancellations and the sweep)
\* are under way, and at most one job was let go.
FewAtOnce == /\ Cardinality(co) + Cardinality({sweep} \ {None}) <= 2
             /\ Cardinality(stray) <= 1
=============================================================================
