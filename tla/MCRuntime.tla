------------------------------ MODULE MCRuntime ------------------------------
(***************************************************************************)
(* Two sides of the endpoint runtime, checked in one run: every behaviour  *)
(* follows one of them and leaves the other in its initial state.          *)
(***************************************************************************)
EXTENDS Subscriptions, RuntimeLife

CONSTANTS c1, c2

VARIABLE focus

mcVars == <<focus, subVars, rlVars>>

MCKeyOf == [c \in {c1, c2} |-> "k"]

MCInit == /\ focus \in {"subscriptions", "life"} /\ SubInit /\ RlInit
          /\ focus = "life" => caps = [g \in 0..MaxConn |-> TRUE]
SubStep  == focus = "subscriptions" /\ SubNext /\ UNCHANGED <<focus, rlVars>>
LifeStep == focus = "life" /\ RlNext /\ UNCHANGED <<focus, subVars>>
MCNext == SubStep \/ LifeStep
MCSpec == MCInit /\ [][MCNext]_mcVars /\ RlFair /\ Reachable

FewFrames == Len(out) <= MaxOut

\* A terminated endpoint ends, and a lost connection is made again (_on_control,
\* _transport_main).
RuntimeProgress == TerminateEnds /\ Reconnects
=============================================================================
