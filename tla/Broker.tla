------------------------------- MODULE Broker -------------------------------
(***************************************************************************)
(* Registration, resume, liveness and topology broadcast of the broker     *)
(* (broker.py).  The broker's routing loop is one asyncio loop: one        *)
(* coroutine runs at a time, and it gives the loop away only where a send  *)
(* blocks on a socket whose peer has stopped reading.  `run' is the        *)
(* coroutine on the loop, `waiting' the coroutines suspended in a send, in *)
(* the order in which they blocked (sends on one socket are FIFO).         *)
(*                                                                         *)
(* A socket is an identity, as the Python object is, and serves one        *)
(* connection: the number of Sockets bounds the connections of a run.  The *)
(* broker keeps nothing on disk, so a restart of it is Init.               *)
(***************************************************************************)
EXTENDS Naturals, FiniteSets, SequencesExt

CONSTANTS Names,     \* participant names, the broker's own excluded
          Sockets,   \* websocket connections
          None,
          MaxStalled,  \* bound: sockets stalled at one time
          MaxWaiting   \* bound: coroutines suspended at one time

VARIABLES
  registry,   \* name -> its current socket, or None
  order,      \* the registered names in dict insertion order
  liveness,   \* name -> "present", "suspect" or "none" (not registered)
  grace,      \* name -> the socket its grace timer was armed for, or None
  lost,       \* <<name, socket>> of the _on_lost tasks that are spawned
  link,       \* socket -> what became of the connection
  handler,    \* socket -> where its /register handler is
  owner,      \* socket -> the name it registered
  stalled,    \* sockets whose write buffer is full: a send blocks
  closing,    \* sockets the broker has begun to close
  run,        \* the coroutine on the routing loop, or None
  waiting,    \* coroutines blocked in a send, in the order they blocked
  view,       \* socket -> the last topology frame delivered to it
  host        \* the topology last handed to the hosted plugins

loopVars == <<run, waiting>>
partVars == <<registry, order, liveness, grace>>
sockVars == <<link, handler, owner, stalled, closing>>
vars     == <<registry, order, liveness, grace, lost, link, handler, owner,
              stalled, closing, run, waiting, view, host>>

-----------------------------------------------------------------------------
(* Types. *)

Liveness  == {"present", "suspect", "none"}
Frames    == [Names -> Liveness]
Pcs       == {"ack", "register", "suspect", "clean", "failing", "lost",
              "disconnect", "terminate", "rebroadcast"}

\* A coroutine: the sends it still has to do (rest), the topology frame it
\* sends (None for another frame), what it does after them (pc), for which
\* participant and socket, and the handler that awaits it (None if spawned).
Coroutine == [pc: Pcs, name: Names \cup {None}, ws: Sockets \cup {None},
              via: Sockets \cup {None}, rest: Seq(Sockets),
              frame: Frames \cup {None}]

ASSUME NoneAssumption == None \notin Names \cup Sockets
ASSUME IdleAssumption == None \notin Coroutine

\* Every variable keeps the shape the broker's tables have.
TypeOK ==
  /\ registry \in [Names -> Sockets \cup {None}]
  /\ order \in Seq(Names)
  /\ liveness \in Frames
  /\ grace \in [Names -> Sockets \cup {None}]
  /\ lost \subseteq Names \X Sockets
  /\ link \in [Sockets -> {"unused", "up", "dropped", "clean"}]
  /\ handler \in [Sockets -> {"none", "await", "loop", "done"}]
  /\ owner \in [Sockets -> Names \cup {None}]
  /\ stalled \subseteq Sockets
  /\ closing \subseteq Sockets
  /\ run \in Coroutine \cup {None}
  /\ waiting \in Seq(Coroutine)
  /\ view \in [Sockets -> Frames \cup {None}]
  /\ host \in [Names -> Liveness \cup {"lost"}]

Init ==
  /\ registry = [n \in Names |-> None]
  /\ order = <<>>
  /\ liveness = [n \in Names |-> "none"]
  /\ grace = [n \in Names |-> None]
  /\ lost = {}
  /\ link = [s \in Sockets |-> "unused"]
  /\ handler = [s \in Sockets |-> "none"]
  /\ owner = [s \in Sockets |-> None]
  /\ stalled = {}
  /\ closing = {}
  /\ run = None
  /\ waiting = <<>>
  /\ view = [s \in Sockets |-> None]
  /\ host = [n \in Names |-> "none"]

-----------------------------------------------------------------------------
(* Helpers. *)

Registered(n) == registry[n] # None

\* The order without n (dict.pop).
Position(n)     == CHOOSE i \in 1..Len(order) : order[i] = n
OrderWithout(n) == RemoveAt(order, Position(n))

\* _broadcast_topology: the frame is packed once, from the tables as they are
\* now, and goes to a snapshot of the registry, one send after another.
Broadcast(pc, n, s, via, reg, ord, live) ==
  [pc |-> pc, name |-> n, ws |-> s, via |-> via,
   rest |-> [i \in 1..Len(ord) |-> reg[ord[i]]], frame |-> live]

\* A coroutine with a single send of something other than a topology.
SendOne(pc, n, s, via, to) ==
  [pc |-> pc, name |-> n, ws |-> s, via |-> via, rest |-> <<to>>,
   frame |-> None]

\* A send blocks while the peer's buffer is full; a dead socket fails it.
\* The first coroutine blocked on a socket that is not stalled is ready.
Blocks(s) == s \in stalled
Ready(i)  == /\ Head(waiting[i].rest) \notin stalled
             /\ \A j \in 1..(i - 1) : Head(waiting[j].rest) # Head(waiting[i].rest)

\* The routing loop takes the next event once no coroutine is ready: an
\* event that overtakes a ready coroutine acts as if the socket had drained
\* after it.  (The last conjunct is the bound.)
LoopFree == /\ run = None
            /\ \A i \in 1..Len(waiting) : ~Ready(i)
            /\ Len(waiting) < MaxWaiting

\* What a delivered frame does to the peer: a topology replaces its snapshot.
Delivered(s, f) ==
  IF f # None /\ link[s] = "up" THEN [view EXCEPT ![s] = f] ELSE view

\* The teardown guard: is s still the socket of n?
AnySocket(n, s) == Registered(n)                         \* mutant: no guard
IsCurrent(n, s) == registry[n] = s

\* _arm_grace for the socket that dropped, in place of a timer that runs.
ArmGraceNow(n, s) == [grace EXCEPT ![n] = registry[n]]   \* mutant: late binding
ArmGrace(n, s)    == [grace EXCEPT ![n] = s]

\* The wire knows no "lost": a drop makes the participant suspect.
DropLost(n)    == [liveness EXCEPT ![n] = "lost"]        \* mutant: no grace
DropSuspect(n) == [liveness EXCEPT ![n] = "suspect"]

\* mutant: the frame that was broadcast, not a fresh snapshot.
HostFrame ==
  [n \in Names |-> IF run.frame[n] # "none" THEN run.frame[n]
                   ELSE IF host[n] \in {"present", "suspect"} THEN "lost"
                   ELSE "none"]

\* _deliver_topology_to_host: a fresh snapshot, plus a synthesized "lost" for
\* every participant of the previous delivery that is gone.
HostTopology ==
  [n \in Names |-> IF liveness[n] # "none" THEN liveness[n]
                   ELSE IF host[n] \in {"present", "suspect"} THEN "lost"
                   ELSE "none"]

\* mutant: the liveness entry outlives the participant.
ForgetSocket(n) ==
  /\ registry' = [registry EXCEPT ![n] = None]
  /\ order'    = OrderWithout(n)
  /\ grace'    = [grace EXCEPT ![n] = None]
  /\ UNCHANGED liveness

\* _remove_participant: name, metadata, resume key and timer go at once.
RemoveParticipant(n) ==
  /\ registry' = [registry EXCEPT ![n] = None]
  /\ order'    = OrderWithout(n)
  /\ liveness' = [liveness EXCEPT ![n] = "none"]
  /\ grace'    = [grace EXCEPT ![n] = None]

\* Removal followed by a broadcast of what is left.
RemoveAndBroadcast(pc, n, s, via) ==
  /\ RemoveParticipant(n)
  /\ run' = Broadcast(pc, n, s, via, registry', order', liveness')

-----------------------------------------------------------------------------
(* Registration.  A register frame that names a registered participant     *)
(* without its resume key is refused and changes nothing.                  *)

Accept(n, s) ==
  /\ LoopFree
  /\ link[s] = "unused"
  /\ registry' = [registry EXCEPT ![n] = s]
  /\ liveness' = [liveness EXCEPT ![n] = "present"]
  /\ link'     = [link EXCEPT ![s] = "up"]
  /\ handler'  = [handler EXCEPT ![s] = "await"]
  /\ owner'    = [owner EXCEPT ![s] = n]
  /\ run'      = SendOne("ack", n, s, s, s)
  /\ UNCHANGED <<lost, stalled, waiting, view, host>>

Register(n, s) ==
  /\ ~Registered(n)
  /\ Accept(n, s)
  /\ order' = Append(order, n)
  /\ UNCHANGED <<grace, closing>>

\* The valid key replaces the socket, whatever state the old one is in.  The
\* old socket's close is spawned; it takes effect in Closed.
Resume(n, s) ==
  /\ Registered(n)
  /\ Accept(n, s)
  /\ grace'   = [grace EXCEPT ![n] = None]
  /\ closing' = closing \cup {registry[n]}
  /\ UNCHANGED order

-----------------------------------------------------------------------------
(* The transport: peers and keepalive act in any order between two turns   *)
(* of the loop.  A peer that dies or drains while a coroutine runs acts as *)
(* if it did so just after the coroutine yielded, so only Stall, which can *)
(* separate two sends of one coroutine to one socket, is enabled then.     *)

\* The peer vanishes, or closes with code 1000/1001; a blocked send fails.
Down(s, how) ==
  /\ run = None
  /\ link[s] = "up"
  /\ link'    = [link EXCEPT ![s] = how]
  /\ stalled' = stalled \ {s}
  /\ view'    = [view EXCEPT ![s] = None]
  /\ UNCHANGED <<partVars, lost, handler, owner, closing, loopVars, host>>

PeerDrops(s)  == s \notin closing /\ Down(s, "dropped")
PeerCloses(s) == s \notin closing /\ Down(s, "clean")
\* The end of a close the broker began.
Closed(s)     == s \in closing /\ Down(s, "dropped")

Stall(s) ==
  /\ link[s] = "up" /\ s \notin stalled
  /\ Cardinality(stalled) < MaxStalled
  /\ stalled' = stalled \cup {s}
  /\ UNCHANGED <<partVars, lost, link, handler, owner, closing, loopVars, view, host>>

Drain(s) ==
  /\ run = None
  /\ s \in stalled
  /\ stalled' = stalled \ {s}
  /\ UNCHANGED <<partVars, lost, link, handler, owner, closing, loopVars, view, host>>

-----------------------------------------------------------------------------
(* The end of a connection, and the grace timer.                           *)

\* _on_socket_drop, from the handler's finally.  The guard: only the socket
\* that is still the registered one may change the participant's state.
SocketDrop(s) ==
  LET n == owner[s] IN
  /\ LoopFree
  /\ handler[s] = "loop" /\ link[s] \in {"dropped", "clean"}
  /\ handler' = [handler EXCEPT ![s] = "done"]
  /\ \/ /\ ~IsCurrent(n, s)
        /\ UNCHANGED <<partVars, run>>
     \/ /\ IsCurrent(n, s) /\ link[s] = "clean"
        /\ RemoveAndBroadcast("clean", n, s, None)
     \/ /\ IsCurrent(n, s) /\ link[s] = "dropped"
        /\ liveness' = DropSuspect(n)
        /\ run' = Broadcast("suspect", n, s, None, registry, order, liveness')
        /\ UNCHANGED <<registry, order, grace>>
  /\ UNCHANGED <<lost, link, owner, stalled, closing, waiting, view, host>>

\* The grace timer elapses and spawns _on_lost for the socket it was armed for.
FireLost(n) ==
  /\ run = None
  /\ grace[n] # None
  /\ lost'  = lost \cup {<<n, grace[n]>>}
  /\ grace' = [grace EXCEPT ![n] = None]
  /\ UNCHANGED <<registry, order, liveness, sockVars, loopVars, view, host>>

\* _on_lost, with the same guard.  The 504s of the calls in flight may block
\* on a requester's socket (`to'); then the removal is broadcast.
OnLost(n, s) ==
  /\ LoopFree
  /\ <<n, s>> \in lost
  /\ lost' = lost \ {<<n, s>>}
  /\ \/ /\ ~IsCurrent(n, s)
        /\ UNCHANGED <<partVars, run>>
     \/ /\ IsCurrent(n, s)
        /\ RemoveParticipant(n)
        /\ \/ run' = Broadcast("lost", n, s, None, registry', order', liveness')
           \/ \E m \in Names \ {n} :
                /\ Registered(m)
                /\ run' = SendOne("failing", n, s, None, registry[m])
  /\ UNCHANGED <<sockVars, waiting, view, host>>

\* _disconnect: from the gateway (via = None) or from the handler of the
\* participant whose control frame asks for it, which awaits it.
Disconnect(n, via) ==
  /\ LoopFree
  /\ Registered(n)
  /\ via # None => (handler[via] = "loop" /\ link[via] = "up")
  /\ RemoveAndBroadcast("disconnect", n, registry[n], via)
  /\ handler' = IF via = None THEN handler ELSE [handler EXCEPT ![via] = "await"]
  /\ UNCHANGED <<lost, link, owner, stalled, closing, waiting, view, host>>

\* A hosted plugin registered itself: the host loop asks for a rebroadcast.
\* One at a time may be blocked (the bound of this model, not of the code).
Rebroadcast ==
  /\ LoopFree
  /\ \A i \in 1..Len(waiting) : waiting[i].pc # "rebroadcast"
  /\ run' = Broadcast("rebroadcast", None, None, None, registry, order, liveness)
  /\ UNCHANGED <<partVars, lost, sockVars, waiting, view, host>>

-----------------------------------------------------------------------------
(* The coroutine on the loop.                                              *)

\* One send: it goes out, or the coroutine is suspended in it.
Send ==
  /\ run # None /\ run.rest # <<>>
  /\ \/ /\ Blocks(Head(run.rest))
        /\ waiting' = Append(waiting, run)
        /\ run' = None
        /\ UNCHANGED view
     \/ /\ ~Blocks(Head(run.rest))
        /\ run'  = [run EXCEPT !.rest = Tail(run.rest)]
        /\ view' = Delivered(Head(run.rest), run.frame)
        /\ UNCHANGED waiting
  /\ UNCHANGED <<partVars, lost, sockVars, host>>

\* The socket a coroutine is blocked on takes its frame (or fails the send).
Wake(i) ==
  LET c == waiting[i]
      s == Head(c.rest) IN
  /\ run = None
  /\ Ready(i)
  /\ run'     = [c EXCEPT !.rest = Tail(c.rest)]
  /\ view'    = Delivered(s, c.frame)
  /\ waiting' = RemoveAt(waiting, i)
  /\ UNCHANGED <<partVars, lost, sockVars, host>>

\* The handler that awaited the coroutine goes back to receiving.
HandlerReturns == IF run.via = None THEN handler
                  ELSE [handler EXCEPT ![run.via] = "loop"]

\* The sends before the broadcast are done: pack the topology now.
StartBroadcast ==
  /\ run # None /\ run.rest = <<>> /\ run.pc \in {"ack", "failing"}
  /\ run' = Broadcast(IF run.pc = "ack" THEN "register" ELSE "lost",
                      run.name, run.ws, run.via, registry, order, liveness)
  /\ UNCHANGED <<partVars, lost, sockVars, waiting, view, host>>

\* The broadcast is done: deliver to the host, then what the caller does next.
EndBroadcast ==
  /\ run # None /\ run.rest = <<>> /\ run.pc \notin {"ack", "failing", "terminate"}
  /\ host' = HostTopology
  /\ grace' = IF run.pc = "suspect" THEN ArmGrace(run.name, run.ws) ELSE grace
  /\ IF run.pc = "disconnect"
     THEN /\ run' = SendOne("terminate", run.name, run.ws, run.via, run.ws)
          /\ UNCHANGED handler
     ELSE /\ run' = None
          /\ handler' = HandlerReturns
  /\ UNCHANGED <<registry, order, liveness, lost, link, owner, stalled,
                 closing, waiting, view>>

\* The terminate frame of _disconnect is out: close the socket.
EndDisconnect ==
  /\ run # None /\ run.rest = <<>> /\ run.pc = "terminate"
  /\ run' = None
  /\ handler' = HandlerReturns
  /\ closing' = closing \cup {run.ws}
  /\ UNCHANGED <<partVars, lost, link, owner, stalled, waiting, view, host>>

-----------------------------------------------------------------------------
Transport == \E s \in Sockets : \/ PeerDrops(s) \/ PeerCloses(s) \/ Closed(s)
                                \/ Stall(s) \/ Drain(s)

Loop == Send \/ StartBroadcast \/ EndBroadcast \/ EndDisconnect

Next ==
  \/ \E n \in Names, s \in Sockets : Register(n, s) \/ Resume(n, s) \/ OnLost(n, s)
  \/ \E s \in Sockets : SocketDrop(s)
  \/ \E n \in Names : FireLost(n)
  \/ \E n \in Names, via \in Sockets \cup {None} : Disconnect(n, via)
  \/ Rebroadcast
  \/ \E i \in 1..Len(waiting) : Wake(i)
  \/ Transport
  \/ Loop

Spec == Init /\ [][Next]_vars

-----------------------------------------------------------------------------
(* Properties. *)

\* A socket's handler is alive while it can still notice the socket's end.
Served(s) == handler[s] \in {"await", "loop"}

\* The four tables of the broker agree after every step of every coroutine:
\* a registered name has a liveness, a place in the broadcast order and a
\* socket of its own, which it registered itself.
RegistryCoherent ==
  /\ \A n \in Names : /\ Registered(n) <=> liveness[n] # "none"
                      /\ Registered(n) => owner[registry[n]] = n
                      /\ Registered(n) <=> \E i \in 1..Len(order) : order[i] = n
  /\ \A i, j \in 1..Len(order) : order[i] = order[j] => i = j

\* Only a dead connection is suspect, and a dead connection is never left
\* `present' with no handler to notice it: the resume that races the drop of
\* the previous socket, or a late drop, must not mix up the two sockets.
LivenessTellsTheSocket ==
  \A n \in Names : Registered(n) =>
    /\ liveness[n] = "suspect" <=> handler[registry[n]] = "done"
    /\ liveness[n] = "suspect" => link[registry[n]] = "dropped"

\* A grace timer, or the _on_lost it spawned, that would pass the guard (its
\* socket is still the registered one) concerns a suspect participant.
LostMeansSuspect ==
  \A n \in Names :
    (Registered(n) /\ (grace[n] = registry[n] \/ <<n, registry[n]>> \in lost))
      => liveness[n] = "suspect"

\* A participant whose handler still serves its socket is never removed by
\* the liveness machinery, however late a timer or a drop of an earlier
\* socket comes: only a clean close or an operator's disconnect does that.
LiveStays ==
  \A n \in Names :
    (Registered(n) /\ registry'[n] = None /\ Served(registry[n]))
      => (run' # None /\ run'.pc \in {"disconnect", "clean"})
NoLiveEviction == [][LiveStays]_vars

\* Once no coroutine is under way, the hosted plugins hold the topology of
\* the tables, however the broadcasts overlapped; a participant that is gone
\* is absent or reported lost.
HostMatches ==
  \A n \in Names : IF Registered(n) THEN host[n] = liveness[n]
                   ELSE host[n] \in {"none", "lost"}
HostCurrent == (run = None /\ waiting = <<>>) => HostMatches

\* broker.py, module docstring: a suspect's grace timer `then declares it
\* lost'.  So for every suspect a timer is armed for its socket, or about to
\* be (its broadcast is under way), or has fired.
Arming(n) == LET C == (IF run = None THEN {} ELSE {run})
                        \cup {waiting[i] : i \in 1..Len(waiting)}
             IN \E c \in C : c.pc = "suspect" /\ c.name = n /\ c.ws = registry[n]
SuspectIsTimed ==
  \A n \in Names : liveness[n] = "suspect" =>
    grace[n] = registry[n] \/ <<n, registry[n]>> \in lost \/ Arming(n)

-----------------------------------------------------------------------------
(* The inductive strengthening of the safety properties (BrokerProofs).    *)

\* A coroutine that awaits nothing more than its sends: its handler is
\* suspended, and the socket it acts on is known.
WellPlaced(c) ==
  /\ c.via # None => handler[c.via] = "await"
  /\ c.pc \in {"suspect", "disconnect", "terminate"} => c.ws \in Sockets
  /\ c.pc = "suspect" => handler[c.ws] = "done"

\* Each handler awaits at most one coroutine.
OneAwait ==
  /\ run # None => WellPlaced(run)
  /\ \A i \in 1..Len(waiting) :
       /\ WellPlaced(waiting[i])
       /\ waiting[i].rest # <<>>
       /\ (run # None /\ run.via # None) => run.via # waiting[i].via
  /\ \A i, j \in 1..Len(waiting) :
       (i # j /\ waiting[i].via # None) => waiting[i].via # waiting[j].via

\* An unused socket has no handler; a handler knows the name it registered.
HandlersKnown ==
  \A s \in Sockets : /\ handler[s] = "none" <=> link[s] = "unused"
                     /\ handler[s] # "none" => owner[s] \in Names

\* A timer, or the task it spawned, was armed by a handler that has ended.
TimersAreLate ==
  /\ \A n \in Names : grace[n] # None => handler[grace[n]] = "done"
  /\ \A n \in Names, s \in Sockets : <<n, s>> \in lost => handler[s] = "done"

\* A registered socket was opened.
RegisteredOpened == \A n \in Names : Registered(n) => handler[registry[n]] # "none"

\* Hosted plugins that lag behind have a broadcast coming.
HostLagsBehind ==
  HostMatches \/ (run # None /\ run.pc # "terminate")
              \/ \E i \in 1..Len(waiting) : waiting[i].pc # "terminate"

IndInv == /\ TypeOK /\ RegistryCoherent /\ LivenessTellsTheSocket
          /\ OneAwait /\ HandlersKnown /\ TimersAreLate /\ RegisteredOpened
          /\ HostLagsBehind

=============================================================================
