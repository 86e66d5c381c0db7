----------------------------- MODULE CallService -----------------------------
(***************************************************************************)
(* What the broker and the runtimes promise about a correlated call,       *)
(* without tables, sockets or sweeps: a request is executed at most once,  *)
(* its caller gets at most one outcome, "served" is the outcome only of a  *)
(* request whose execution ended, and a caller that was refused (502, 503, *)
(* an exception) knows that its request was not and will not be executed.  *)
(* Frames may be lost, so nothing is promised about progress here.         *)
(***************************************************************************)
CONSTANT Requests

VARIABLES stage,    \* per request: how far it came
          answer    \* per request: what its caller knows

serviceVars == <<stage, answer>>

Refusal == {"502", "503"}

Init == /\ stage = [i \in Requests |-> "none"]
        /\ answer = [i \in Requests |-> "unused"]

To(i, s)   == stage' = [stage EXCEPT ![i] = s]
Tell(i, a) == answer' = [answer EXCEPT ![i] = a]

\* The request leaves its caller, or is refused on the spot.
Ask(i) ==
  /\ stage[i] = "none"
  /\ \/ Tell(i, "waiting") /\ \E s \in {"offered", "running", "refused", "dropped"} : To(i, s)
     \/ Tell(i, "raised") /\ To(i, "dropped")

\* It reaches its callee, which takes or refuses it.
Reach(i) ==
  /\ stage[i] = "offered"
  /\ To(i, "running") \/ To(i, "refused")
  /\ UNCHANGED answer

\* The caller hears of a refusal, on the way or by the callee.
Refuse(i) ==
  /\ stage[i] \in {"offered", "refused"} /\ answer[i] = "waiting"
  /\ To(i, "dropped")
  /\ \E a \in Refusal : Tell(i, a)

Finish(i) == stage[i] = "running" /\ To(i, "finished") /\ UNCHANGED answer

\* The result reaches its caller (a hosted plugin's without a frame).
Deliver(i) ==
  /\ stage[i] \in {"running", "finished"} /\ answer[i] = "waiting"
  /\ To(i, "delivered") /\ Tell(i, "served")

\* Requests, refusals and results get lost, or come when nobody waits.
Lose ==
  /\ \E L \in SUBSET {i \in Requests : stage[i] \in {"offered", "running", "refused", "finished"}} :
       /\ L # {}
       /\ stage' = [i \in Requests |-> IF i \in L THEN "dropped" ELSE stage[i]]
  /\ UNCHANGED answer

\* The caller, or the broker for it, stops waiting; the request goes on.
GiveUp(i) ==
  /\ answer[i] = "waiting"
  /\ Tell(i, "gaveup") \/ Tell(i, "504")
  /\ UNCHANGED stage

Next == \/ \E i \in Requests : Ask(i) \/ Reach(i) \/ Refuse(i) \/ Finish(i)
                               \/ Deliver(i) \/ GiveUp(i)
        \/ Lose

Spec == Init /\ [][Next]_serviceVars
=============================================================================
