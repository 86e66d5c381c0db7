----------------------------- MODULE RuntimeLife -----------------------------
(***************************************************************************)
(* The life of one endpoint runtime (runtime.py): start() and stop() on a  *)
(* user thread, the transport coroutine that connects, registers, serves   *)
(* and reconnects, the work loop that handles frames, and the loss of      *)
(* peers, which no frame says and the runtime infers from two topologies.  *)
(*                                                                         *)
(* The broker is external: it acknowledges a registration, sends the       *)
(* topology with the acknowledgement and after every change, can terminate *)
(* the endpoint, and can restart, after which it knows nobody until they   *)
(* are back.  The transport reads frames off the socket (net) and hands    *)
(* them to the work loop (workq).                                            *)
(***************************************************************************)
EXTENDS Naturals, Sequences

CONSTANTS Peers,        \* other participants
          MaxFrames     \* frames on their way to the runtime (bound)

ASSUME LifeBounds == MaxFrames \in Nat

\* A peer as the broker knows it; gone and away are both missing from a
\* topology frame: gone by a clean close or past its grace, away since the
\* broker restarted.
Known    == {"present", "suspect"}
Standing == Known \cup {"gone", "away"}
ViewFrames   == [kind: {"ack", "inuse", "refused", "terminate"}]
              \cup [kind: {"topology"}, view: [Peers -> Standing]]

VARIABLES
  caller,       \* the thread that calls start() and stop()
  transport,         \* _transport_main
  tun,        \* the ssh process of the tunnel
  sock,       \* the socket: none, open, dropped (not noticed yet)
  net, workq,   \* frames on the socket; frames handed to the work loop
  stopping, terminated, fatal,
  closeReq,   \* a _graceful_close is scheduled on the transport loop
  registered, ready,
  topo,       \* _topology
  heard,       \* what consumers and served plugins were last told of a peer
  released,   \* on_host_stop was called
  mine,       \* broker: this participant
  standing        \* broker: the peers

rlVars == <<caller, transport, tun, sock, net, workq, stopping, terminated, fatal, closeReq,
            registered, ready, topo, heard, released, mine, standing>>
flags  == <<stopping, terminated, fatal, closeReq>>
learned   == <<registered, ready, topo, heard>>

\* Every variable keeps its type.
RlTypeOK ==
  /\ caller \in {"new", "wait", "ready", "late", "raised", "close", "cancel", "teardown",
               "join", "stopped"}
  /\ transport \in {"off", "tunnel", "connect", "register", "serve", "leave", "sleep",
             "cancelled", "end"}
  /\ tun \in {"none", "spawn", "up", "left"}
  /\ sock \in {"none", "open", "dropped"}
  /\ net \in Seq(ViewFrames) /\ workq \in Seq(ViewFrames)
  /\ {stopping, terminated, fatal, closeReq, registered, ready, released} \subseteq BOOLEAN
  /\ topo \in [Peers -> Known \cup {"none"}]
  /\ heard \in [Peers -> Known \cup {"none", "lost"}]
  /\ mine \in Standing
  /\ standing \in [Peers -> Standing]

RlInit ==
  /\ caller = "new" /\ transport = "off" /\ tun = "none" /\ sock = "none"
  /\ net = <<>> /\ workq = <<>>
  /\ stopping = FALSE /\ terminated = FALSE /\ fatal = FALSE /\ closeReq = FALSE
  /\ registered = FALSE /\ ready = FALSE /\ released = FALSE
  /\ topo = [p \in Peers |-> "none"] /\ heard = topo
  /\ mine = "gone" /\ standing = [p \in Peers |-> "gone"]

-----------------------------------------------------------------------------
(* The broker (external). *)

TopologyFrame(v) == [kind |-> "topology", view |-> v]

\* The broker takes the registration, or refuses the name or the credential.
Answers == {<<[kind |-> "ack"], TopologyFrame(standing)>>, <<[kind |-> "inuse"]>>,
            <<[kind |-> "refused"]>>}

\* A peer comes, is lost from sight, comes back, leaves or runs out its grace.
PeerMoves(p, to) ==
  /\ to \in Known \cup {"gone"} /\ to # standing[p]
  /\ (to = "suspect" => standing[p] = "present") /\ (to = "gone" => standing[p] \in Known)
  /\ Len(net) + Len(workq) < MaxFrames
  /\ standing' = [standing EXCEPT ![p] = to]
  /\ net' = IF sock = "open" /\ mine = "present" THEN Append(net, TopologyFrame(standing')) ELSE net
  /\ UNCHANGED <<caller, transport, tun, sock, workq, flags, learned, released, mine>>

\* The socket breaks; frames that arrived before can still be read.
Breaks ==
  /\ sock = "open" /\ sock' = "dropped"
  /\ \E n \in 0..Len(net) : net' = SubSeq(net, 1, n)
  /\ mine' = IF mine = "present" THEN "suspect" ELSE mine
  /\ UNCHANGED <<caller, transport, tun, workq, flags, learned, released, standing>>

OwnGraceOver ==
  /\ mine = "suspect" /\ mine' = "gone"
  /\ UNCHANGED <<caller, transport, tun, sock, net, workq, flags, learned, released, standing>>

\* disconnect: the participant is removed and told to terminate.
Terminates ==
  /\ sock = "open" /\ mine = "present" /\ Len(net) + Len(workq) < MaxFrames
  /\ net' = Append(net, [kind |-> "terminate"]) /\ sock' = "dropped" /\ mine' = "gone"
  /\ UNCHANGED <<caller, transport, tun, workq, flags, learned, released, standing>>

BrokerRestarts ==
  /\ sock' = IF sock = "open" THEN "dropped" ELSE sock
  /\ net' = <<>> /\ mine' = "gone"
  /\ standing' = [p \in Peers |-> IF standing[p] \in Known THEN "away" ELSE standing[p]]
  /\ (sock # sock' \/ standing # standing')
  /\ UNCHANGED <<caller, transport, tun, workq, flags, learned, released>>

-----------------------------------------------------------------------------
(* start(). *)

Start(tunnel) ==
  /\ caller = "new" /\ caller' = "wait"
  /\ transport' = IF tunnel THEN "tunnel" ELSE "connect"
  /\ tun' = IF tunnel THEN "spawn" ELSE tun
  /\ UNCHANGED <<sock, net, workq, flags, learned, released, mine, standing>>

\* Both waits are bounded by one deadline; a fatal failure raises.
StartWaited ==
  /\ caller = "wait"
  /\ caller' \in (IF fatal THEN {"raised"} ELSE IF registered /\ ready THEN {"ready"} ELSE {"late"})
  /\ UNCHANGED <<transport, tun, sock, net, workq, flags, learned, released, mine, standing>>

-----------------------------------------------------------------------------
(* The transport loop. *)

\* The coroutine leaves its connection: back to the loop's condition.
Onward == IF stopping \/ fatal THEN "end" ELSE "connect"

TunnelOpens(ok) ==
  /\ tun = "spawn"
  /\ IF transport = "tunnel"
     THEN /\ transport' = IF ok THEN "connect" ELSE "end"
          /\ tun' = IF ok THEN "up" ELSE "none"
          /\ fatal' = ~ok
     ELSE tun' = (IF ok THEN "left" ELSE "none") /\ UNCHANGED <<transport, fatal>>
  /\ UNCHANGED <<caller, sock, net, workq, stopping, terminated, closeReq, learned, released, mine,
                 standing>>

\* websockets.connect, and the register frame is sent; or the loop is over.
ReachesBroker(answer) ==
  /\ transport = "connect"
  /\ IF Onward = "end"
     THEN transport' = "end" /\ UNCHANGED <<sock, net, mine>>
     ELSE /\ answer \in Answers /\ Len(workq) < MaxFrames
          /\ transport' = "register" /\ sock' = "open" /\ net' = answer
          /\ mine' = IF answer[1].kind = "ack" THEN "present" ELSE mine
  /\ UNCHANGED <<caller, tun, workq, flags, learned, released, standing>>

\* No connection (OSError) or an untrusted certificate.
ConnectFails(tls) ==
  /\ transport = "connect" /\ Onward = "connect"
  /\ transport' = IF tls THEN "end" ELSE "sleep"
  /\ fatal' = tls
  /\ UNCHANGED <<caller, tun, sock, net, workq, stopping, terminated, closeReq, learned, released,
                 mine, standing>>

\* _do_register returns, and _serve_ws begins unless the runtime is stopping.
DoRegister ==
  /\ transport = "register" /\ net # <<>>
  /\ LET a == Head(net).kind
     IN /\ registered' = (registered \/ a = "ack")
        /\ fatal' = (fatal \/ a = "refused")
        /\ transport' = IF a = "ack" THEN IF stopping THEN "leave" ELSE "serve"
                 ELSE IF a = "refused" THEN "end" ELSE "sleep"
        /\ sock' = IF a = "ack" THEN sock ELSE "none"
        /\ net' = IF a = "ack" THEN Tail(net) ELSE <<>>
  /\ UNCHANGED <<caller, tun, workq, stopping, terminated, closeReq, ready, topo, heard, released,
                 mine, standing>>

\* recv: the frame goes to the work loop; then the loop looks at _stopping.
Recv ==
  /\ transport = "serve" /\ net # <<>>
  /\ net' = Tail(net) /\ workq' = Append(workq, Head(net))
  /\ transport' = IF stopping THEN "leave" ELSE "serve"
  /\ UNCHANGED <<caller, tun, sock, flags, learned, released, mine, standing>>

\* recv raises: the connection is gone.
AfterLoss     == IF stopping THEN "end" ELSE "sleep"
LostSight ==
  /\ transport \in {"register", "serve"} /\ sock = "dropped" /\ net = <<>>
  /\ sock' = "none" /\ transport' = AfterLoss
  /\ UNCHANGED <<caller, tun, net, workq, flags, learned, released, mine, standing>>

Wakes ==
  /\ transport = "sleep" /\ transport' = "connect"
  /\ UNCHANGED <<caller, tun, sock, net, workq, flags, learned, released, mine, standing>>

\* The close handshake: the broker takes a clean close as a departure.
HasClosed ==
  /\ sock' = "none" /\ net' = <<>>
  /\ mine' = IF sock = "open" /\ mine = "present" THEN "gone" ELSE mine

LeaveSocket ==
  /\ transport = "leave" \/ (transport = "cancelled" /\ caller # "stopped")
  /\ HasClosed /\ transport' = "end"
  /\ UNCHANGED <<caller, tun, workq, flags, learned, released, standing>>

\* _graceful_close: _ws is set only while _serve_ws runs.
Graceful ==
  /\ closeReq /\ closeReq' = FALSE
  /\ IF transport = "serve" THEN HasClosed /\ transport' = "end"
     ELSE UNCHANGED <<transport, sock, net, mine>>
GracefulClose ==
  /\ Graceful
  /\ UNCHANGED <<caller, tun, workq, stopping, terminated, fatal, learned, released, standing>>

-----------------------------------------------------------------------------
(* The work loop. *)

Shown(v) == [p \in Peers |-> IF v[p] \in Known THEN v[p] ELSE "none"]

\* _synthesize_lost: missing now, and present or suspect before.
LostPresent(prev, curr) ==                         \* mutant: a suspect is not lost
  {p \in Peers : curr[p] = "none" /\ prev[p] = "present"}
SynthesizeLost(prev, curr) ==
  {p \in Peers : curr[p] = "none" /\ prev[p] \in Known}

OnTopology(v) ==
  /\ topo' = Shown(v)
  /\ heard' = [p \in Peers |-> IF topo'[p] # "none" THEN topo'[p]
                              ELSE IF p \in SynthesizeLost(topo, topo') THEN "lost" ELSE heard[p]]
  /\ ready' = TRUE
  /\ UNCHANGED <<stopping, terminated, closeReq>>

ControlUnmarked ==                                 \* mutant: only the flag of the transport
  /\ stopping' = TRUE /\ closeReq' = TRUE
  /\ UNCHANGED <<terminated, ready, topo, heard>>
OnControl ==
  /\ stopping' = TRUE /\ terminated' = TRUE /\ closeReq' = TRUE
  /\ UNCHANGED <<ready, topo, heard>>

OnFrame ==
  /\ caller # "stopped" /\ workq # <<>> /\ workq' = Tail(workq)
  /\ IF Head(workq).kind = "topology" THEN OnTopology(Head(workq).view) ELSE OnControl
  /\ UNCHANGED <<caller, transport, tun, sock, net, fatal, registered, released, mine, standing>>

-----------------------------------------------------------------------------
(* stop(). *)

\* A caller stops when it likes; the endpoint program as soon as it sees the
\* runtime terminated or failed.
StopCalled ==
  /\ caller \in {"ready", "late", "raised"} /\ caller' = "close"
  /\ stopping' = TRUE /\ closeReq' = TRUE
  /\ UNCHANGED <<transport, tun, sock, net, workq, terminated, fatal, learned, released, mine,
                 standing>>
ServeLoop == (terminated \/ fatal) /\ StopCalled

\* The wait for the close returns or times out; the coroutine is cancelled.
StopCancels ==
  /\ caller = "close" /\ caller' = "teardown"
  /\ closeReq' = FALSE
  /\ transport' = IF transport \in {"off", "end"} THEN transport
                  ELSE IF sock = "none" THEN "end" ELSE "cancelled"
  /\ UNCHANGED <<tun, sock, net, workq, stopping, terminated, fatal, learned, released, mine,
                 standing>>

\* _work_teardown, bounded.
Teardown(intime) ==
  /\ caller = "teardown" /\ caller' = "join"
  /\ released' = intime
  /\ UNCHANGED <<transport, tun, sock, net, workq, flags, learned, mine, standing>>

\* The loops are stopped, in the middle of a close too; the tunnel goes down.
JoinTunnel == IF tun = "up" THEN "none" ELSE tun
StopJoins ==
  /\ caller = "join" /\ caller' = "stopped"
  /\ transport' = "end" /\ sock' = "none" /\ net' = <<>> /\ workq' = <<>>
  /\ mine' = IF sock = "open" /\ mine = "present" THEN "suspect" ELSE mine
  /\ tun' = JoinTunnel
  /\ UNCHANGED <<flags, learned, released, standing>>

-----------------------------------------------------------------------------
TransportMoves ==
  \/ DoRegister \/ Recv \/ LostSight \/ Wakes \/ LeaveSocket \/ GracefulClose
  \/ transport = "connect" /\ Onward = "end" /\ ReachesBroker(<<>>)
  \/ \E ok \in BOOLEAN : TunnelOpens(ok)
UserStep == StartWaited \/ ServeLoop \/ StopCancels \/ StopJoins
              \/ \E intime \in BOOLEAN : Teardown(intime)
GetsThrough == transport = "connect" /\ ReachesBroker(<<[kind |-> "ack"], TopologyFrame(standing)>>)

RlNext ==
  \/ \E tunnel \in BOOLEAN : Start(tunnel)
  \/ StopCalled \/ UserStep \/ TransportMoves \/ OnFrame
  \/ \E a \in Answers : ReachesBroker(a)
  \/ \E tls \in BOOLEAN : ConnectFails(tls)
  \/ Breaks \/ OwnGraceOver \/ Terminates \/ BrokerRestarts
  \/ \E p \in Peers, to \in Standing : PeerMoves(p, to)

\* Both loops and the calling thread run; the broker's grace elapses.  It is
\* not assumed that the broker answers or that a connection lasts.
RlFair == WF_rlVars(TransportMoves) /\ WF_rlVars(UserStep) /\ WF_rlVars(OnFrame)
            /\ WF_rlVars(OwnGraceOver)
RlSpec == RlInit /\ [][RlNext]_rlVars

\* The broker is reachable again and again, for long enough to register.
Reachable == SF_rlVars(GetsThrough)
               /\ SF_rlVars(/\ transport = "register" /\ sock = "open"
                            /\ net # <<>> /\ Head(net).kind = "ack" /\ DoRegister)

-----------------------------------------------------------------------------
(* Properties. *)

\* While the runtime is connected and no frame is on its way, its topology is
\* the broker's, and what consumers and plugins were last told of every peer
\* agrees with it: a peer told alive is alive, also one that disappeared while
\* the connection was down (_on_topology, _synthesize_lost).
TopologyCurrent ==
  (transport = "serve" /\ sock = "open" /\ net = <<>> /\ workq = <<>>) =>
    /\ topo = Shown(standing)
    /\ \A p \in Peers : IF topo[p] = "none" THEN heard[p] \in {"none", "lost"}
                        ELSE heard[p] = topo[p]

\* After stop() nothing of the runtime is left: the transport is over, the
\* broker does not take it for present, and no tunnel process is left but one
\* that was still being spawned when the stop came.
StoppedIsOff ==
  caller = "stopped" => transport = "end" /\ sock = "none" /\ mine # "present" /\ tun # "up"

\* The runtime: what it tells of its peers is current, and a stop leaves nothing
\* behind (_on_topology, _synthesize_lost, stop).
RuntimeSound == RlTypeOK /\ TopologyCurrent /\ StoppedIsOff

\* An endpoint that is sent terminate ends: its program stops the runtime and the broker
\* sees it gone, although a reconnect may be under way when the work loop gets
\* to the frame (_on_control, terminated).
TerminateEnds ==
  (\E i \in 1..Len(workq) : workq[i].kind = "terminate")
    ~> (caller = "stopped" /\ mine \notin Known)

\* A connection that is lost is made again, unless the runtime is stopped,
\* terminated or has failed for good (_transport_main).
Reconnects ==
  (transport \in {"connect", "sleep"} \/ (transport = "serve" /\ sock = "dropped"))
    ~> ((transport = "serve" /\ sock = "open") \/ stopping \/ fatal)

=============================================================================
