------------------------------- MODULE MCCalls -------------------------------
(* Calls on a small instance: names and correlation ids are interchangeable. *)
EXTENDS Calls, TLC

Symmetry == Permutations(Ends) \cup Permutations(Ids)
=============================================================================
