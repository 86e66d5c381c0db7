---------------------------- MODULE MCDispatcher ----------------------------
(* Dispatcher on a small instance: tasks and pilots are interchangeable.   *)
EXTENDS Dispatcher, TLC

Symmetry == Permutations(Tasks) \cup Permutations(Pilots)

Records == {o \in Objects : pool.task[o].state # "NONE"}
Used    == {p \in Pilots : pool.pilot[p].state # "NONE"}

\* Bounds, either of: one record on any pilots, with at most two submissions,
\* executions and events under way, one of them an execution or an event, and
\* one member being removed or one cancellation waiting; or two records, of two
\* tasks or of one that is submitted again, on one pilot, with any number of
\* all of these.
OneRecord == /\ Cardinality(Records) <= 1
             /\ Cardinality(execs) + Cardinality(events) <= 1
             /\ Cardinality(execs) + Cardinality(events) + Cardinality(submits) <= 2
             /\ Cardinality(doomed) + Cardinality(cancels) <= 1
OnePilot  == Cardinality(Records) <= 2 /\ Cardinality(Used) <= 1
Scope     == OneRecord \/ OnePilot
=============================================================================
