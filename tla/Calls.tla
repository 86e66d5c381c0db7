-------------------------------- MODULE Calls --------------------------------
(***************************************************************************)
(* Correlated requests and responses: the broker's in-flight table         *)
(* (broker.py: routing, broker-originated calls, fast-fail, reaper) and    *)
(* the two ends in the participants' runtimes (runtime.py: the pending     *)
(* table of the caller, the admission cap and the handler of the callee).  *)
(*                                                                         *)
(* What a participant sends waits in its outbox, past a reconnect, and may *)
(* be lost with a connection.  What the broker sends is read by the        *)
(* participant or lost on the way: each is FIFO, so a delay of it shows    *)
(* only as a later step of the reader (a handler that answers late, a      *)
(* caller that gives up before).  A sweep of the table walks over a        *)
(* snapshot and may be suspended at each 504 it sends, so other steps come *)
(* between two of its entries.                                             *)
(***************************************************************************)
EXTENDS Naturals, FiniteSets

CONSTANTS Ends,        \* participants
          Broker,       \* the broker, as a source and a destination
          Ids,          \* correlation ids: each names one call (bound)
          Unset,
          ForwardCap, CallCap, ReqCap   \* the three admission caps

ASSUME NamesAssumption == Broker \notin Ends /\ Unset \notin Ends \cup {Broker}
ASSUME RouteAssumption == Unset \notin [src: Ends \cup {Broker}, dst: Ends \cup {Broker}]
ASSUME CapsAssumption  == ForwardCap \in Nat /\ CallCap \in Nat /\ ReqCap \in Nat

VARIABLES
  peer,      \* name -> connected, suspect (registered, its socket is dead),
             \* gone after it left, or lost after it was declared so
  route,     \* id -> source and destination, as every frame of it carries
  calls,     \* the in-flight table: id -> "none", "open", or "due" (expired)
  future,    \* id -> the caller's future: unused, waiting, or its outcome
  outbox,    \* frames that participants have sent and the broker not read
  serving,   \* name (or Broker) -> ids its handlers work on
  sweeps     \* sweeps of the table that are under way

callsVars == <<peer, route, calls, future, outbox, serving, sweeps>>

Parties == Ends \cup {Broker}
Outcome == {"served", "502", "503", "504"}
Frame   == [kind: {"request", "response"}, id: Ids, status: {""} \cup Outcome]
Sweep   == [todo: SUBSET Ids, name: Ends \cup {Unset}]

\* Every variable keeps its type.
CallsTypeOK ==
  /\ peer \in [Ends -> {"up", "suspect", "gone", "lost"}]
  /\ route \in [Ids -> [src: Parties, dst: Parties] \cup {Unset}]
  /\ calls \in [Ids -> {"none", "open", "due"}]
  /\ future \in [Ids -> {"unused", "waiting", "gaveup", "raised"} \cup Outcome]
  /\ outbox \subseteq Frame
  /\ serving \in [Parties -> SUBSET Ids]
  /\ sweeps \subseteq {w \in Sweep : w.todo # {}}

CallsInit ==
  /\ peer = [n \in Ends |-> "gone"]
  /\ route = [i \in Ids |-> Unset]
  /\ calls = [i \in Ids |-> "none"]
  /\ future = [i \in Ids |-> "unused"]
  /\ outbox = {}
  /\ serving = [p \in Parties |-> {}]
  /\ sweeps = {}

-----------------------------------------------------------------------------
(* Helpers. *)

up    == {n \in Ends : peer[n] = "up"}
known == {n \in Ends : peer[n] \in {"up", "suspect"}}   \* the registry

Src(i) == route[i].src
Dst(i) == route[i].dst

InFlight  == {i \in Ids : calls[i] # "none"}
Forwarded == {i \in InFlight : Src(i) # Broker}
Own       == InFlight \ Forwarded

Request(i)      == [kind |-> "request", id |-> i, status |-> ""]
Response(i, st) == [kind |-> "response", id |-> i, status |-> st]
Sender(f)       == IF f.kind = "request" THEN Src(f.id) ELSE Dst(f.id)

\* The first answer resolves a future; the pending entry is gone after it.
OverwriteOutcome(i, st) == [future EXCEPT ![i] = st]       \* mutant: no pop
Resolve(i, st) == IF future[i] = "waiting" THEN [future EXCEPT ![i] = st] ELSE future

\* The entry leaves the table with the first answer, whoever the caller is.
KeepEntry(i)  == calls                                     \* mutant: no pop
PopEntry(i)  == [calls EXCEPT ![i] = "none"]

\* The caps, as the code counts them: the broker's own calls for theirs, the
\* whole table for forwarded ones, the running handlers for an endpoint.
OwnAtCapLate == Cardinality(Own) > CallCap                 \* mutant: off by one
OwnAtCap     == Cardinality(Own) >= CallCap
TableAtCap   == Cardinality(InFlight) >= ForwardCap
ServingAtCap(n) == Cardinality(serving[n]) >= ReqCap

\* _send of an answer to the caller, as the registry knows it now.  It is
\* lost without an error if there is none or its socket is dead; otherwise
\* _resolve_response pops the pending entry.
ToCaller(i, st) == \/ future' = future
                   \/ Src(i) \in up /\ future' = Resolve(i, st)

\* _send of a request to the callee, where _admit_request answers 503 at the
\* cap and otherwise gives it to a handler, which takes a slot.
ToCallee(i, d, box) ==
  \/ outbox' = box /\ UNCHANGED serving
  \/ /\ d \in up /\ ServingAtCap(d)
     /\ outbox' = box \cup {Response(i, "503")}
     /\ UNCHANGED serving
  \/ /\ d \in up /\ ~ServingAtCap(d)
     /\ serving' = [serving EXCEPT ![d] = @ \cup {i}]
     /\ outbox' = box

-----------------------------------------------------------------------------
(* Participants come and go.                                               *)

Connect(n) ==
  /\ n \notin up
  /\ peer' = [peer EXCEPT ![n] = "up"]
  /\ UNCHANGED <<route, calls, future, outbox, serving, sweeps>>

\* The socket drops: any of the frames under way on it may be lost; the
\* caller's outbox and its pending table survive.
Drop(n) ==
  /\ n \in up
  /\ peer' = [peer EXCEPT ![n] = "suspect"]
  /\ \E L \in SUBSET {f \in outbox : Sender(f) = n} : outbox' = outbox \ L
  /\ UNCHANGED <<route, calls, future, serving, sweeps>>

\* A clean close, or an operator's disconnect (also of a suspect): removed
\* without a sweep.
Leave(n) ==
  /\ n \in known
  /\ peer' = [peer EXCEPT ![n] = "gone"]
  /\ \E L \in SUBSET {f \in outbox : Sender(f) = n} : outbox' = outbox \ L
  /\ UNCHANGED <<route, calls, future, serving, sweeps>>

\* A sweep over T ends after its last entry.
WithSweep(others, T, n) == others \cup {w \in {[todo |-> T, name |-> n]} : T # {}}

\* The entries that the sweep of _fail_inflight_for acts on.
CalledBy(n) == {i \in InFlight : n = Src(i)}               \* mutant: callers only
Touching(n) == {i \in InFlight : n \in {Src(i), Dst(i)}}

\* The grace of a suspect elapsed: _on_lost removes it and begins a sweep.
Lost(n) ==
  /\ peer[n] = "suspect"
  /\ peer' = [peer EXCEPT ![n] = "lost"]
  /\ sweeps' = WithSweep(sweeps, Touching(n), n)
  /\ UNCHANGED <<route, calls, future, outbox, serving>>

-----------------------------------------------------------------------------
(* The callers.                                                            *)

\* runtime._call: park the future, queue the request.
Call(i, s, d) ==
  /\ future[i] = "unused"
  /\ future' = [future EXCEPT ![i] = "waiting"]
  /\ route' = [route EXCEPT ![i] = [src |-> s, dst |-> d]]
  /\ outbox' = outbox \cup {Request(i)}
  /\ UNCHANGED <<peer, calls, serving, sweeps>>

\* _broker_call: the cap and an unknown destination raise at the caller.
BrokerCall(i, d) ==
  /\ future[i] = "unused"
  /\ route' = [route EXCEPT ![i] = [src |-> Broker, dst |-> d]]
  /\ \/ /\ OwnAtCap \/ d \notin known
        /\ future' = [future EXCEPT ![i] = "raised"]
        /\ UNCHANGED <<calls, outbox, serving>>
     \/ /\ ~OwnAtCap /\ d \in known
        /\ future' = [future EXCEPT ![i] = "waiting"]
        /\ calls' = [calls EXCEPT ![i] = "open"]
        /\ ToCallee(i, d, outbox)
  /\ UNCHANGED <<peer, sweeps>>

\* The caller's wait_for times out.  The broker's own call takes its entry
\* along; a runtime knows only its pending table.
GiveUp(i) ==
  /\ future[i] = "waiting"
  /\ future' = [future EXCEPT ![i] = "gaveup"]
  /\ calls' = IF i \in Own THEN PopEntry(i) ELSE calls
  /\ UNCHANGED <<peer, route, outbox, serving, sweeps>>

\* The task of a broker-originated call is cancelled: CancelledError is no
\* Exception, so its entry stays for the reaper.
CancelCall(i) ==
  /\ future[i] = "waiting" /\ i \in Own
  /\ future' = [future EXCEPT ![i] = "gaveup"]
  /\ UNCHANGED <<peer, route, calls, outbox, serving, sweeps>>

-----------------------------------------------------------------------------
(* The broker's routing.                                                   *)

\* _route_request: to the host, to an unknown name, at the cap, or on.
RouteRequest(f) ==
  LET i == f.id IN
  /\ f.kind = "request" /\ Src(i) \in up
  /\ \/ /\ Dst(i) = Broker
        /\ serving' = [serving EXCEPT ![Broker] = @ \cup {i}]
        /\ outbox' = outbox \ {f}
        /\ UNCHANGED <<calls, future>>
     \/ /\ Dst(i) \in Ends \ known
        /\ ToCaller(i, "502")
        /\ outbox' = outbox \ {f}
        /\ UNCHANGED <<calls, serving>>
     \/ /\ Dst(i) \in known /\ TableAtCap
        /\ ToCaller(i, "503")
        /\ outbox' = outbox \ {f}
        /\ UNCHANGED <<calls, serving>>
     \/ /\ Dst(i) \in known /\ ~TableAtCap
        /\ calls' = [calls EXCEPT ![i] = "open"]
        /\ ToCallee(i, Dst(i), outbox \ {f})
        /\ UNCHANGED future
  /\ UNCHANGED <<peer, route, sweeps>>

\* _dispatch_to_host: a hosted plugin answers across the thread boundary.
HostReply(i) ==
  /\ i \in serving[Broker]
  /\ serving' = [serving EXCEPT ![Broker] = @ \ {i}]
  /\ ToCaller(i, "served")
  /\ UNCHANGED <<peer, route, calls, outbox, sweeps>>

\* _route_response: settle the broker's own call (if its entry is still
\* there), or send the response on, whether or not the entry is.
RouteResponse(f) ==
  LET i == f.id IN
  /\ f.kind = "response" /\ Dst(i) \in up
  /\ calls' = PopEntry(i)
  /\ outbox' = outbox \ {f}
  /\ \/ /\ Src(i) = Broker
        /\ future' = IF i \in InFlight THEN Resolve(i, f.status) ELSE future
     \/ /\ Src(i) # Broker
        /\ ToCaller(i, f.status)
  /\ UNCHANGED <<peer, route, serving, sweeps>>

\* Mutant: the slot of a handler that has answered is not released.
ServeKeepsSlot(n, i) ==
  /\ i \in serving[n]
  /\ outbox' = outbox \cup {Response(i, "served")}
  /\ UNCHANGED <<peer, route, calls, future, serving, sweeps>>
\* _serve_request: a result, an error or the handler's timeout; the slot is
\* released in every case.
Serve(n, i) ==
  /\ i \in serving[n]
  /\ serving' = [serving EXCEPT ![n] = @ \ {i}]
  /\ outbox' = outbox \cup {Response(i, "served")}
  /\ UNCHANGED <<peer, route, calls, future, sweeps>>

-----------------------------------------------------------------------------
(* Sweeps: fast-fail of a lost participant's calls, and the reaper.        *)

\* The deadline of an entry passes.
Expire(i) ==
  /\ calls[i] = "open"
  /\ calls' = [calls EXCEPT ![i] = "due"]
  /\ UNCHANGED <<peer, route, future, outbox, serving, sweeps>>

\* _reap_calls: one sweep at a time, over what is due now.
DueOwn   == {i \in Own : calls[i] = "due"}                 \* mutant: own calls only
DueCalls == {i \in InFlight : calls[i] = "due"}
Reap ==
  /\ \A w \in sweeps : w.name # Unset
  /\ DueCalls # {}
  /\ sweeps' = WithSweep(sweeps, DueCalls, Unset)
  /\ UNCHANGED <<peer, route, calls, future, outbox, serving>>

\* _fail_call: settle the broker's own future, or send the caller a 504.
FailCall(i) ==
  \/ Src(i) = Broker /\ future' = Resolve(i, "504")
  \/ Src(i) # Broker /\ ToCaller(i, "504")

\* One entry of the snapshot: popped, without a second look at the table,
\* which an answer may have left meanwhile; the entry of a caller that is
\* lost itself is only dropped.
SweepEntry(w, i) ==
  /\ i \in w.todo
  /\ calls' = PopEntry(i)
  /\ sweeps' = WithSweep(sweeps \ {w}, w.todo \ {i}, w.name)
  /\ \/ w.name \in {Unset, Dst(i)} /\ FailCall(i)
     \/ w.name \notin {Unset, Dst(i)} /\ UNCHANGED future
  /\ UNCHANGED <<peer, route, outbox, serving>>

-----------------------------------------------------------------------------
Network == \E n \in Ends : Connect(n) \/ Drop(n) \/ Leave(n) \/ Lost(n)

Callers == \E i \in Ids : \/ \E s \in Ends, d \in Parties : Call(i, s, d)
                          \/ \E d \in Ends : BrokerCall(i, d)
                          \/ GiveUp(i) \/ CancelCall(i)

Routing == \E f \in outbox : RouteRequest(f) \/ RouteResponse(f)

Handlers == \E i \in Ids : HostReply(i) \/ \E n \in Ends : Serve(n, i)

Sweeping == \/ \E i \in Ids : Expire(i)
            \/ Reap
            \/ \E w \in sweeps : \E i \in w.todo : SweepEntry(w, i)

CallsNext == Network \/ Callers \/ Routing \/ Handlers \/ Sweeping

\* The broker's loop keeps running its timers and its sweeps; nothing is
\* assumed of peers, handlers and the network.
Fairness == /\ \A i \in Ids : WF_callsVars(Expire(i))
            /\ WF_callsVars(Reap)
            /\ WF_callsVars(\E w \in sweeps : \E i \in w.todo : SweepEntry(w, i))

CallsSpec     == CallsInit /\ [][CallsNext]_callsVars
FairSpec == CallsSpec /\ Fairness

-----------------------------------------------------------------------------
(* Properties. *)

\* Whatever joins, leaves, answers and sweeps come between two requests, the
\* broker's own calls, the forwarded ones and each endpoint's handlers stay
\* within the caps, and an entry that was given up is still counted.
WithinCaps == /\ Cardinality(Own) <= CallCap
              /\ Cardinality(Forwarded) <= ForwardCap
              /\ \A n \in Ends : Cardinality(serving[n]) <= ReqCap

\* An entry of the table is a call nobody has answered yet: its caller waits
\* for it or gave up (a sweep or an answer that resolves it pops it as well).
EntriesAreOpen == \A i \in InFlight : future[i] \in {"waiting", "gaveup"}

\* The tables keep their shape, and an entry is an open call (_inflight, _pending).
EntriesSound == CallsTypeOK /\ EntriesAreOpen

\* No call to a participant that was declared lost outlives the sweep, the
\* ones that were routed while earlier sweeps were suspended included.
LostFailsFast ==
  \A i \in InFlight : peer[Dst(i)] = "lost"
                       => \E w \in sweeps : w.name = Dst(i) /\ i \in w.todo

\* The outcome of a call never changes: the second answer to one call (a
\* sweep's 504 after the response, a response after the 504 or after the
\* caller gave up) finds no pending future.
OutcomeKept == \A i \in Ids : future[i] \notin {"unused", "waiting"} => future'[i] = future[i]
OutcomeStable == [][OutcomeKept]_callsVars

\* Every entry leaves the table, also one whose callee never answers, whose
\* caller is gone, or whose task was cancelled.
EntriesLeave == \A i \in Ids : calls[i] # "none" ~> calls[i] = "none"

-----------------------------------------------------------------------------
(* What the proofs need besides: where the frames and entries of a call    *)
(* can be, for each way it may have come so far.                           *)

FramesOf(i)   == {f \in outbox : f.id = i}
HandlersOf(i) == {p \in Parties : i \in serving[p]}
Swept(i)      == \E w \in sweeps : i \in w.todo
Nowhere(i)    == FramesOf(i) = {} /\ HandlersOf(i) = {}

\* A call is in one place: a request, a handler of its callee, a response.
OnePlace(i) ==
  /\ FramesOf(i) \in {{}, {Request(i)}, {Response(i, "503")}, {Response(i, "served")}}
  /\ HandlersOf(i) # {} => HandlersOf(i) = {Dst(i)} /\ FramesOf(i) = {}

\* No table, frame, handler or sweep names an id before its call.
UnusedIsUnknown(i) ==
  /\ route[i] = Unset <=> future[i] = "unused"
  /\ route[i] = Unset => Nowhere(i) /\ calls[i] = "none" /\ ~Swept(i)

\* The broker knows nothing of a request it has not read.
UnreadIsOpen(i) ==
  Request(i) \in FramesOf(i) => /\ Src(i) \in Ends /\ future[i] \in {"waiting", "gaveup"}
                                /\ calls[i] = "none" /\ ~Swept(i)

\* A result or a refusal is the last trace of its call (a 504 is not).
AnsweredIsOver(i) == future[i] \in {"served", "502", "503", "raised"} => Nowhere(i)

CallSound(i) == OnePlace(i) /\ UnusedIsUnknown(i) /\ UnreadIsOpen(i) /\ AnsweredIsOver(i)

\* The table is finite and holds calls to participants.
TableSound == /\ IsFiniteSet(InFlight) /\ \A n \in Ends : IsFiniteSet(serving[n])
              /\ \A i \in InFlight : Dst(i) \in Ends

CallsInv == /\ CallsTypeOK /\ \A i \in Ids : CallSound(i)
            /\ TableSound /\ EntriesAreOpen /\ WithinCaps /\ LostFailsFast

-----------------------------------------------------------------------------
(* The tables, frames and sweeps implement the promise of CallService.     *)

StageOf(i) ==
  CASE route[i] = Unset                           -> "none"
    [] FramesOf(i) = {Request(i)}                -> "offered"
    [] HandlersOf(i) # {}                        -> "running"
    [] FramesOf(i) = {Response(i, "503")}        -> "refused"
    [] FramesOf(i) = {Response(i, "served")}     -> "finished"
    [] Nowhere(i) /\ future[i] = "served"        -> "delivered"
    [] OTHER                                     -> "dropped"

Service == INSTANCE CallService WITH Requests <- Ids,
                                     stage    <- [i \in Ids |-> StageOf(i)],
                                     answer   <- future

\* At most one execution and one outcome per call: every step of the two
\* tables and the frames between them, sweeps and lost connections included,
\* is a step of the abstract service or none.
ImplementsService == Service!Spec
=============================================================================
