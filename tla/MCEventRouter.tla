--------------------------- MODULE MCEventRouter ---------------------------
(* EventRouter on a small instance: every list of two patterns of a           *)
(* connected subscriber while nothing was published, and the delivery of the  *)
(* events of one plugin to a subscriber with one of two patterns, all events  *)
(* or one session.                                                            *)
EXTENDS EventRouter

CONSTANTS e1, p1, t1, a

AllEvents  == [endpoint |-> None, plugin |-> None, topic |-> None, session |-> None]
OneSession == [endpoint |-> e1, plugin |-> p1, topic |-> None, session |-> a]
\* Every choice of endpoint, plugin and session to set, with one value for
\* each; a topic alone and with the rest; another session, another endpoint.
OneOfEach  == [endpoint: {e1, None}, plugin: {p1, None}, topic: {None}, session: {a, None}]
WithTopic  == {[p EXCEPT !.topic = t1] : p \in {AllEvents, OneSession}}
MCPatterns == OneOfEach \cup WithTopic
                \cup {p \in Pattern : IsNarrow(p) /\ p.topic = None /\ (p.endpoint = e1 \/ p.session = a)}

FewPatterns == {<<>>, <<AllEvents>>, <<OneSession>>}

OfOnePlugin(e) == e.src = e1 /\ e.plugin = p1 /\ e.topic = t1

\* Bounds on what is combined.
Scope ==
  \/ /\ base = 0 /\ globalSeq = 0
     /\ \A n \in Names : (conn[n] = "up" /\ ~leaving[n]) \/ ListOf(n) \in FewPatterns
  \/ /\ \A n \in Names : ListOf(n) \in FewPatterns
     /\ \A i \in Counters : sessionSeq[i][1] \in {e1} \X {p1} \X Sessions
     /\ \A n \in Names : \A i \in 1..Len(Pending(n)) : OfOnePlugin(Pending(n)[i][1])
=============================================================================
