--------------------------- MODULE GatewayEvents ---------------------------
(***************************************************************************)
(* The gateway's /events stream: the tap callback on the plugin-host loop, *)
(* the hand-over to the routing loop, the topology listener that runs on   *)
(* the routing loop itself, and one bounded, drop-oldest queue with a      *)
(* generator for each browser.                                             *)
(***************************************************************************)
EXTENDS Integers, Sequences

CONSTANTS
    Browsers,   \* the SSE clients, each connects at most once
    Depth,      \* sse_queue
    MaxEvents,  \* bound: events of the tap
    MaxTopo     \* bound: changes of the topology

ASSUME GatewayConstants == Depth \in Nat \ {0} /\ MaxEvents \in Nat /\ MaxTopo \in Nat

VARIABLES
    nevent,   \* events the tap delivered so far
    ntopo,    \* the version of the broker's topology
    handed,   \* frames handed to the routing loop, not run yet
    sse,      \* `_sse_clients'
    gwGen,      \* where each client's generator is
    gwBuf,      \* its queue
    wake,     \* its wake event
    lost,     \* its dropped counter is not zero
    since,    \* events before its connect
    view      \* what it was sent: the last topology, and the events

gtVars == <<nevent, ntopo, handed, sse, gwGen, gwBuf, wake, lost, since, view>>

Frames == ({"topology"} \X (0 .. MaxTopo)) \cup ({"event"} \X (1 .. MaxEvents))

GtInit ==
    /\ nevent = 0 /\ ntopo = 0 /\ handed = << >> /\ sse = {}
    /\ gwGen = [b \in Browsers |-> "away"]
    /\ gwBuf = [b \in Browsers |-> << >>]
    /\ wake = [b \in Browsers |-> FALSE]
    /\ lost = [b \in Browsers |-> FALSE]
    /\ since = [b \in Browsers |-> 0]
    /\ view = [b \in Browsers |-> [topo |-> -1, events |-> << >>]]

\* BoundedDropOldestQueue.push
Pushed(q, f) == IF Len(q) = Depth THEN Append(Tail(q), f) ELSE Append(q, f)

PushTo(clients, f) ==
    /\ gwBuf' = [b \in Browsers |-> IF b \in clients THEN Pushed(gwBuf[b], f) ELSE gwBuf[b]]
    /\ lost' = [b \in Browsers |-> lost[b] \/ (b \in clients /\ Len(gwBuf[b]) = Depth)]
    /\ wake' = [b \in Browsers |-> wake[b] \/ b \in clients]

PushAll(f) == PushTo(sse, f)

\* The tap, on the host loop; it looks at the client set of the other loop.
TapEvent ==
    /\ nevent < MaxEvents /\ nevent' = nevent + 1
    /\ handed' = IF sse = {} THEN handed ELSE Append(handed, <<"event", nevent + 1>>)
    /\ UNCHANGED <<ntopo, sse, gwGen, gwBuf, wake, lost, since, view>>

RunHanded ==
    /\ handed # << >> /\ handed' = Tail(handed)
    /\ PushAll(Head(handed))
    /\ UNCHANGED <<nevent, ntopo, sse, gwGen, since, view>>

TopologyListener ==
    /\ ntopo < MaxTopo /\ ntopo' = ntopo + 1
    /\ PushAll(<<"topology", ntopo + 1>>)
    /\ UNCHANGED <<nevent, handed, sse, gwGen, since, view>>

-----------------------------------------------------------------------------
(***************************************************************************)
(* _route_events: the queue is registered and given the topology in one    *)
(* step, before the response, and with it the generator, starts.           *)
(***************************************************************************)
Connect(b) ==
    /\ gwGen[b] = "away"
    /\ sse' = sse \cup {b}
    /\ gwGen' = [gwGen EXCEPT ![b] = "made"]
    /\ gwBuf' = [gwBuf EXCEPT ![b] = <<<<"topology", ntopo>>>>]
    /\ wake' = [wake EXCEPT ![b] = TRUE]
    /\ since' = [since EXCEPT ![b] = nevent]
    /\ UNCHANGED <<nevent, ntopo, handed, lost, view>>

Starts(b) ==
    /\ gwGen[b] = "made" /\ gwGen' = [gwGen EXCEPT ![b] = "waiting"]
    /\ UNCHANGED <<nevent, ntopo, handed, sse, gwBuf, wake, lost, since, view>>

Wakes(b) ==
    /\ gwGen[b] = "waiting" /\ wake[b]
    /\ wake' = [wake EXCEPT ![b] = FALSE]
    /\ gwGen' = [gwGen EXCEPT ![b] = "sending"]
    /\ UNCHANGED <<nevent, ntopo, handed, sse, gwBuf, lost, since, view>>

Received(v, f) ==
    IF f[1] = "topology" THEN [v EXCEPT !.topo = f[2]]
                         ELSE [v EXCEPT !.events = Append(@, f[2])]

\* One yield; the loop ends when the queue is empty.
SendSse(b) ==
    /\ gwGen[b] = "sending"
    /\ IF gwBuf[b] = << >>
       THEN gwGen' = [gwGen EXCEPT ![b] = "waiting"] /\ UNCHANGED <<gwBuf, view>>
       ELSE /\ view' = [view EXCEPT ![b] = Received(@, Head(gwBuf[b]))]
            /\ gwBuf' = [gwBuf EXCEPT ![b] = Tail(@)]
            /\ gwGen' = gwGen
    /\ UNCHANGED <<nevent, ntopo, handed, sse, wake, lost, since>>

\* The browser goes, while it waits (is_disconnected) or in a yield (cancelled).
Leaves(b) ==
    /\ gwGen[b] \in {"waiting", "sending"}
    /\ gwGen' = [gwGen EXCEPT ![b] = "gone"]
    /\ sse' = sse \ {b}
    /\ gwBuf' = [gwBuf EXCEPT ![b] = << >>]
    /\ view' = [view EXCEPT ![b] = [topo |-> -1, events |-> << >>]]
    /\ UNCHANGED <<nevent, ntopo, handed, wake, lost, since>>

\* It goes before the generator's first step: the finally clause never runs.
LeavesEarly(b) ==
    /\ gwGen[b] = "made" /\ gwGen' = [gwGen EXCEPT ![b] = "gone"]
    /\ UNCHANGED <<nevent, ntopo, handed, sse, gwBuf, wake, lost, since, view>>

GenStep(b) == Starts(b) \/ Wakes(b) \/ SendSse(b)

GtNext ==
    \/ TapEvent \/ RunHanded \/ TopologyListener
    \/ \E b \in Browsers : Connect(b) \/ GenStep(b) \/ Leaves(b) \/ LeavesEarly(b)

\* Both loops run what is ready.
GtFair == WF_gtVars(RunHanded) /\ \A b \in Browsers : WF_gtVars(GenStep(b))

GtSpec == GtInit /\ [][GtNext]_gtVars /\ GtFair

-----------------------------------------------------------------------------
GtTypeOK ==
    /\ nevent \in 0 .. MaxEvents /\ ntopo \in 0 .. MaxTopo
    /\ handed \in Seq(Frames) /\ sse \subseteq Browsers
    /\ gwGen \in [Browsers -> {"away", "made", "waiting", "sending", "gone"}]
    /\ gwBuf \in [Browsers -> Seq(Frames)]
    /\ \A b \in Browsers : Len(gwBuf[b]) <= Depth /\ view[b].topo \in -1 .. MaxTopo
    /\ wake \in [Browsers -> BOOLEAN] /\ lost \in [Browsers -> BOOLEAN]
    /\ since \in [Browsers -> 0 .. MaxEvents]

Served(b) == gwGen[b] \in {"made", "waiting", "sending"}
Seen(b) == [i \in DOMAIN view[b].events |-> <<"event", view[b].events[i]>>]

\* The frames a client was sent, will be sent, and that are on their way.
Line(b) == Seen(b) \o gwBuf[b] \o handed

\* Its events are in the tap's order; and event n is one of them.
Rising(line) ==
    \A i, j \in 1 .. Len(line) :
        i < j /\ line[i][1] = "event" /\ line[j][1] = "event" => line[i][2] < line[j][2]
Holds(n, line) == \E i \in 1 .. Len(line) : line[i] = <<"event", n>>

(***************************************************************************)
(* While its queue never overflowed, a client gets every event the tap saw *)
(* since it connected, once and in the tap's order, although the tap looks *)
(* at the set of clients from another thread and the routing loop pushes   *)
(* topologies of its own in between.  After an overflow the order stays.   *)
(***************************************************************************)
NoEventMissed ==
    \A b \in Browsers : Served(b) =>
        /\ Rising(Line(b))
        /\ ~lost[b] => \A n \in since[b] + 1 .. nevent : Holds(n, Line(b))

(***************************************************************************)
(* A client that is up to date with its queue and lost nothing holds the   *)
(* broker's topology of now: _route_events() takes the first snapshot and  *)
(* registers the queue with no suspension between.                         *)
(***************************************************************************)
TopologyIsCurrent ==
    \A b \in Browsers :
        gwGen[b] \in {"waiting", "sending"} /\ gwBuf[b] = << >> /\ ~lost[b]
            => view[b].topo = ntopo

(***************************************************************************)
(* What is queued for a connected client is sent: the wake event is        *)
(* cleared before the queue is emptied, so no push between two sends is    *)
(* slept over.                                                             *)
(***************************************************************************)
QueueIsSent == \A b \in Browsers : gwBuf[b] # << >> ~> (gwBuf[b] = << >> \/ gwGen[b] = "gone")
=============================================================================
