------------------------------ MODULE HostLoop ------------------------------
(***************************************************************************)
(* The broker's two event loops (broker.py, broker_plugin_host.py): the    *)
(* routing loop, which owns registry and topology, and the host loop, on   *)
(* its own thread, which runs the hosted plugins.  Work crosses in both    *)
(* directions: requests and topology deliveries to the host, topology      *)
(* announcements of dynamically registered plugins to the router.          *)
(*                                                                         *)
(* A delivery walks the plugin table and awaits one handler after the      *)
(* other, so that deliveries overlap and the table may change under one.   *)
(* The shutdown blocks the routing loop on the host, for a bounded time.   *)
(***************************************************************************)
EXTENDS Naturals, Sequences, SequencesExt

CONSTANTS
    NHosted,      \* the plugins of --plugins, numbered in the order of loading
    HCalls,       \* requests for a hosted plugin (call_host)
    MaxDyn,       \* bound: dynamic registrations
    MaxDeliver    \* bound: topology deliveries

ASSUME HostConstants == NHosted \in Nat /\ MaxDyn \in Nat /\ MaxDeliver \in Nat

VARIABLES
    life,       \* the broker: new, up, closing, blocked, down
    hloop,      \* the host loop: off, running, stopped
    hosted,      \* BrokerPluginHost._plugins, in insertion order
    dyn,        \* dynamic registrations so far
    prev,       \* _host_topology_prev: whether it lists a participant, a child
    walks,      \* the deliveries, oldest first
    hcall,      \* per request: idle, posted, handling, answered
    winding     \* host.shutdown(): off, running, over

hlVars == <<life, hloop, hosted, dyn, prev, walks, hcall, winding>>

Statics == 1..NHosted
Dyn(i)  == NHosted + i                 \* the i-th dynamic instance
HNames   == 1..NHosted + MaxDyn

HlInit ==
    /\ life = "new" /\ hloop = "off"
    /\ hosted = << >> /\ dyn = 0
    /\ prev = FALSE
    /\ walks = << >>
    /\ hcall = [c \in HCalls |-> "idle"]
    /\ winding = "off"

\* The routing loop takes its next callback: it runs, and nothing blocks it.
Routing == life \in {"up", "closing"}

-----------------------------------------------------------------------------
(* startup(): the loop thread, then the plugins, built on that loop.       *)

\* A plugin that is not enabled here, or whose constructor fails, is left out.
Loaded ==
    {q \in UNION {[1..n -> Statics] : n \in 0..NHosted} :
        \A i, j \in DOMAIN q : i < j => q[i] < q[j]}

Startup ==
    /\ life = "new"
    /\ hosted' \in Loaded
    /\ life' = "up" /\ hloop' = "running"
    /\ UNCHANGED <<dyn, prev, walks, hcall, winding>>

TakesPrev(listed) == prev' = listed

\* _deliver_topology_to_host(), once the participants' sends are through: the
\* child has come or gone, or the broadcast is about something else.
DeliverToHost(listed) ==
    /\ Routing /\ Len(walks) < MaxDeliver
    /\ walks' = Append(walks,
         [says |-> IF listed THEN "present" ELSE IF prev THEN "lost" ELSE "absent",
          over |-> FALSE, broken |-> FALSE, size |-> 0, heard |-> {}])
    /\ TakesPrev(listed)
    /\ UNCHANGED <<life, hloop, hosted, dyn, hcall, winding>>

-----------------------------------------------------------------------------
(* on_topology_change() on the host loop: one walk per delivery.  `size'   *)
(* is the size of the dictionary when the walk began (0 before): its       *)
(* iterator raises when that differs.  Between two steps of a walk the     *)
(* handler of the plugin heard last is awaited.                            *)

RestOf(w) == {i \in 1..Len(hosted) : hosted[i] \notin w.heard}
Over(w, how) == [w EXCEPT !.over = TRUE, !.broken = how, !.size = 0]

\* The iterator is advanced: the next handler, the end, or an exception.
Advanced(w, size) ==
    CASE size # Len(hosted) -> Over(w, TRUE)
      [] size = Len(hosted) /\ RestOf(w) = {} -> Over(w, FALSE)
      [] OTHER -> [w EXCEPT !.size = size, !.heard = @ \cup {hosted[Min(RestOf(w))]}]

HostOnly == UNCHANGED <<life, hloop, hosted, dyn, prev, hcall, winding>>

Begun(w) == w.over \/ w.size > 0

Begin(i) ==
    /\ hloop = "running" /\ i \in 1..Len(walks)
    /\ ~Begun(walks[i])
    /\ \A j \in 1..i - 1 : Begun(walks[j])
    /\ walks' = [walks EXCEPT ![i] = Advanced(@, Len(hosted))]
    /\ HostOnly

HandlerReturns(i) ==
    /\ hloop = "running" /\ i \in 1..Len(walks)
    /\ Begun(walks[i]) /\ ~walks[i].over
    /\ walks' = [walks EXCEPT ![i] = Advanced(@, @.size)]
    /\ HostOnly

RaiseNoted(w) == Advanced(w, w.size)

HandlerRaises(i) ==
    /\ hloop = "running" /\ i \in 1..Len(walks)
    /\ Begun(walks[i]) /\ ~walks[i].over
    /\ walks' = [walks EXCEPT ![i] = RaiseNoted(@)]
    /\ HostOnly

-----------------------------------------------------------------------------
(* Dynamic plugins.  _host_broadcast hands the announcement to the routing *)
(* loop and does not wait for it: one of the deliveries above.  What       *)
(* becomes of the plugin's sessions is in PluginSessions.                  *)

RegisterDynamic ==
    /\ hloop = "running" /\ dyn < MaxDyn /\ ToSet(hosted) \subseteq Statics
    /\ dyn' = dyn + 1
    /\ hosted' = Append(hosted, Dyn(dyn + 1))
    /\ UNCHANGED <<life, hloop, prev, walks, hcall, winding>>

DeregisterDynamic ==
    /\ hloop = "running"
    /\ \E i \in 1..Len(hosted) : hosted[i] \notin Statics /\ hosted' = RemoveAt(hosted, i)
    /\ UNCHANGED <<life, hloop, dyn, prev, walks, hcall, winding>>

-----------------------------------------------------------------------------
(* call_host(): a request of a participant or of the gateway.              *)

\* Without a host it answers 503 at once.
CallHost(c) ==
    /\ life \in {"new", "up", "closing"} /\ hcall[c] = "idle"
    /\ hcall' = [hcall EXCEPT ![c] = IF life = "new" THEN "answered" ELSE "posted"]
    /\ UNCHANGED <<life, hloop, hosted, dyn, prev, walks, winding>>

\* handle_request(): no route is a 404 at once, else the handler is awaited.
HandleRequest(c) ==
    /\ hloop = "running" /\ hcall[c] = "posted"
    /\ \E to \in {"handling", "handled"} : hcall' = [hcall EXCEPT ![c] = to]
    /\ UNCHANGED <<life, hloop, hosted, dyn, prev, walks, winding>>

RaiseAnswered == "handled"             \* an error status is the answer

HostRequestEnds(c) ==
    /\ hloop = "running" /\ hcall[c] = "handling"
    /\ \E to \in {"handled", RaiseAnswered} : hcall' = [hcall EXCEPT ![c] = to]
    /\ UNCHANGED <<life, hloop, hosted, dyn, prev, walks, winding>>

\* The result crosses back and _dispatch_to_host sends the response.
Respond(c) ==
    /\ Routing /\ hcall[c] = "handled"
    /\ hcall' = [hcall EXCEPT ![c] = "answered"]
    /\ UNCHANGED <<life, hloop, hosted, dyn, prev, walks, winding>>

-----------------------------------------------------------------------------
(* shutdown(), on the routing loop.                                        *)

\* The reaper is cancelled, the senders paused; then the sockets' closes.
ShutdownCloses ==
    /\ life = "up"
    /\ life' = "closing"
    /\ UNCHANGED <<hloop, hosted, dyn, prev, walks, hcall, winding>>

\* _shutdown_host_plugins(): host.shutdown() is posted and waited for.
ShutdownPosts ==
    /\ life = "closing"
    /\ life' = "blocked"
    /\ winding' = "running"
    /\ UNCHANGED <<hloop, hosted, dyn, prev, walks, hcall>>

\* Every plugin's shutdown() came back or raised.
PluginsShutDown ==
    /\ hloop = "running" /\ winding = "running"
    /\ winding' = "over"
    /\ UNCHANGED <<life, hloop, hosted, dyn, prev, walks, hcall>>

TimeIsUp == winding = "running"

\* _stop_host_thread(), after the answer or after 5 seconds.
StopHost ==
    /\ life = "blocked"
    /\ winding = "over" \/ TimeIsUp
    /\ life' = "down" /\ hloop' = "stopped"
    /\ UNCHANGED <<hosted, dyn, prev, walks, hcall, winding>>

-----------------------------------------------------------------------------
HlNext ==
    \/ Startup
    \/ \E listed \in BOOLEAN : DeliverToHost(listed)
    \/ \E i \in 1..MaxDeliver : Begin(i) \/ HandlerReturns(i) \/ HandlerRaises(i)
    \/ RegisterDynamic \/ DeregisterDynamic
    \/ \E c \in HCalls : CallHost(c) \/ HandleRequest(c) \/ HostRequestEnds(c) \/ Respond(c)
    \/ ShutdownCloses \/ ShutdownPosts \/ PluginsShutDown \/ StopHost

(* Both loops run their callbacks, handlers of requests come back, and 5   *)
(* seconds pass.  A topology handler and a plugin's shutdown need not.     *)
HlFair ==
    /\ \A c \in HCalls : WF_hlVars(HandleRequest(c)) /\ WF_hlVars(HostRequestEnds(c))
                      /\ WF_hlVars(Respond(c))
    /\ WF_hlVars(ShutdownPosts) /\ WF_hlVars(StopHost)

HlSpec == HlInit /\ [][HlNext]_hlVars /\ HlFair

-----------------------------------------------------------------------------
\* Every variable has its type.
HlTypeOK ==
    /\ life \in {"new", "up", "closing", "blocked", "down"}
    /\ hloop \in {"off", "running", "stopped"}
    /\ ToSet(hosted) \subseteq HNames
    /\ dyn \in 0..MaxDyn
    /\ prev \in BOOLEAN
    /\ \A i \in 1..Len(walks) :
         /\ walks[i].says \in {"present", "lost", "absent"}
         /\ walks[i].heard \subseteq HNames
    /\ hcall \in [HCalls -> {"idle", "posted", "handling", "handled", "answered"}]
    /\ winding \in {"off", "running", "over"}

StaticsLoaded == Statics \cap ToSet(hosted)

(* Every delivery reaches every plugin of --plugins that was loaded, also  *)
(* when a handler raises and when deliveries overlap, unless the plugin    *)
(* table changed while it was under way.                                   *)
DeliveredToAll ==
    \A i \in 1..Len(walks) : walks[i].over /\ ~walks[i].broken => StaticsLoaded \subseteq walks[i].heard

(* A participant that went is told `lost' once: between two deliveries     *)
(* that say so there is one in which it is present, so that no plugin      *)
(* finalises a pilot a second time after its child came back.              *)
LostToldOnce ==
    \A i, j \in 1..Len(walks) :
        i < j /\ walks[i].says = "lost" /\ walks[j].says = "lost"
            => \E k \in i + 1..j - 1 : walks[k].says = "present"

(* A request to a hosted plugin is answered, across both loops, unless the *)
(* broker is shut down meanwhile: the blocked routing loop takes nothing   *)
(* from the host.                                                          *)
HostCallAnswered ==
    \A c \in HCalls : hcall[c] = "posted" ~> hcall[c] = "answered" \/ life \in {"blocked", "down"}

(* The shutdown gets through whatever the hosted plugins do.               *)
BrokerGoesDown == life = "closing" ~> life = "down"

=============================================================================
