------------------------------ MODULE MCBroker ------------------------------
(* Broker on a small instance: names and sockets are interchangeable.      *)
EXTENDS Broker, TLC

\* Without operator actions and clean closes: what a run that looks for one
\* long interleaving of drops and resumes searches.
OnlyDrops == run # None => run.pc \notin {"disconnect", "clean", "rebroadcast", "failing"}

Symmetry == Permutations(Names) \cup Permutations(Sockets)
=============================================================================
