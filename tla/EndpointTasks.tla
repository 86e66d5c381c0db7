---------------------------- MODULE EndpointTasks ----------------------------
(***************************************************************************)
(* Tasks that a client sends through the dispatcher to one endpoint        *)
(* (_route_submit_endpoint_mode, plugin_task_dispatcher.py): there is no   *)
(* pool and no record, only a map from task id to endpoint, written to     *)
(* disk, by which the task's end is re-emitted and a later get or cancel   *)
(* is forwarded.  Requests suspend while a client is fetched and while     *)
(* rhapsody's submit runs in a thread; events come from the broker's tap;  *)
(* the broker may stop at any point, and loses what is under way.          *)
(***************************************************************************)
EXTENDS Naturals, FiniteSets

CONSTANTS
    EmReqs,        \* submit requests
    EmIds,         \* task ids
    EmEndpoints,   \* endpoints with a rhapsody plugin
    EmNone,        \* no endpoint
    MaxEmStops     \* bound: restarts of the broker

ASSUME EndpointConstants == EmNone \notin EmEndpoints \cup EmIds /\ MaxEmStops \in Nat

VARIABLES
    emMap,      \* _endpoint_mode_tasks
    emDisk,     \* endpoint_mode.json
    emReq,      \* per request: where it is, its id and endpoint
    emRemote,   \* executions on the endpoints: <<request, state>>
    emTold,     \* requests whose task's end was re-emitted
    emCancel,   \* the cancel that is being forwarded: <<id, endpoint>>, or <<>>
    emStops     \* restarts so far

emVars == <<emMap, emDisk, emReq, emRemote, emTold, emCancel, emStops>>

EmIdle == [pc |-> "new", id |-> EmNone, to |-> EmNone]

EmInit ==
    /\ emMap = [i \in EmIds |-> EmNone]
    /\ emDisk = emMap
    /\ emReq = [r \in EmReqs |-> EmIdle]
    /\ emRemote = {} /\ emTold = {} /\ emCancel = <<>>
    /\ emStops = 0

EmGoes(r, pc) == emReq' = [emReq EXCEPT ![r].pc = pc]

\* _persist_endpoint_mode() writes the map as it is now (an OSError, which is
\* only logged, is left out).
EmStore(map) == emMap' = map /\ emDisk' = map

-----------------------------------------------------------------------------
(* The submit.                                                             *)

\* The target is connected and runs rhapsody: its client is fetched.
EmSubmit(r, i, e) ==
    /\ emReq[r].pc = "new"
    /\ emReq' = [emReq EXCEPT ![r] = [pc |-> "client", id |-> i, to |-> e]]
    /\ UNCHANGED <<emMap, emDisk, emRemote, emTold, emCancel, emStops>>

EmNoClient(r) ==
    /\ emReq[r].pc = "client"
    /\ EmGoes(r, "refused")
    /\ UNCHANGED <<emMap, emDisk, emRemote, emTold, emCancel, emStops>>

\* "map before submitting": the task can end before the call returns.
EmMaps(r) == EmStore([emMap EXCEPT ![emReq[r].id] = emReq[r].to])

EmCalls(r) ==
    /\ emReq[r].pc = "client"
    /\ EmMaps(r)
    /\ EmGoes(r, "call")
    /\ UNCHANGED <<emRemote, emTold, emCancel, emStops>>

\* External: the endpoint's rhapsody takes the task.
EmTaken(r) ==
    /\ emReq[r].pc = "call"
    /\ emRemote' = emRemote \cup {<<r, "runs">>}
    /\ EmGoes(r, "taken")
    /\ UNCHANGED <<emMap, emDisk, emTold, emCancel, emStops>>

EmReturns(r) ==
    /\ emReq[r].pc = "taken"
    /\ EmGoes(r, "ok")
    /\ UNCHANGED <<emMap, emDisk, emRemote, emTold, emCancel, emStops>>

EmForgets(r) == EmStore([emMap EXCEPT ![emReq[r].id] = EmNone])

\* The call raises, with or without the task having been taken.
EmRaises(r) ==
    /\ emReq[r].pc \in {"call", "taken"}
    /\ EmForgets(r)
    /\ EmGoes(r, "failed")
    /\ UNCHANGED <<emRemote, emTold, emCancel, emStops>>

-----------------------------------------------------------------------------
(* The end, and the requests that follow the map.                          *)

EmEnds(r) ==
    /\ <<r, "runs">> \in emRemote
    /\ emRemote' = (emRemote \ {<<r, "runs">>}) \cup {<<r, "event">>}
    /\ UNCHANGED <<emMap, emDisk, emReq, emTold, emCancel, emStops>>

\* _handle_task_terminal(): known by its id alone, whoever's event it is.
EmTerminal(r) ==
    LET i == emReq[r].id IN
    /\ <<r, "event">> \in emRemote
    /\ emRemote' = emRemote \ {<<r, "event">>}
    /\ \/ /\ emMap[i] = EmNone
          /\ UNCHANGED <<emMap, emDisk, emTold>>
       \/ /\ emMap[i] # EmNone
          /\ EmStore([emMap EXCEPT ![i] = EmNone])
          /\ emTold' = emTold \cup {r}
    /\ UNCHANGED <<emReq, emCancel, emStops>>

EmTarget(i) == {emMap[i]} \ {EmNone}

\* Cancel (and get, which changes nothing): read the map, fetch the client ...
EmCancelBegins(i) ==
    /\ emCancel = <<>>
    /\ \E e \in EmTarget(i) : emCancel' = <<i, e>>
    /\ UNCHANGED <<emMap, emDisk, emReq, emRemote, emTold, emStops>>

\* ... and ask that endpoint, which may know no such task by now.
EmCancelAsks ==
    /\ emCancel # <<>>
    /\ emRemote' = {IF x[2] = "runs" /\ emReq[x[1]].id = emCancel[1]
                                     /\ emReq[x[1]].to = emCancel[2]
                    THEN <<x[1], "event">> ELSE x : x \in emRemote}
    /\ emCancel' = <<>>
    /\ UNCHANGED <<emMap, emDisk, emReq, emTold, emStops>>

\* The broker stops and starts again: requests and events are gone.
EmRestart ==
    /\ emStops < MaxEmStops
    /\ emStops' = emStops + 1
    /\ emMap' = emDisk
    /\ emReq' = [r \in EmReqs |->
                   IF emReq[r].pc \in {"client", "call", "taken"}
                   THEN [emReq[r] EXCEPT !.pc = IF @ = "client" THEN "refused" ELSE "cut"]
                   ELSE emReq[r]]
    /\ emRemote' = {x \in emRemote : x[2] = "runs"}
    /\ emCancel' = <<>>
    /\ UNCHANGED <<emDisk, emTold>>

-----------------------------------------------------------------------------
EmNext ==
    \/ \E r \in EmReqs :
         \/ \E i \in EmIds, e \in EmEndpoints : EmSubmit(r, i, e)
         \/ EmNoClient(r) \/ EmCalls(r) \/ EmTaken(r) \/ EmReturns(r) \/ EmRaises(r)
         \/ EmEnds(r) \/ EmTerminal(r)
    \/ \E i \in EmIds : EmCancelBegins(i)
    \/ EmCancelAsks \/ EmRestart

EmSpec == EmInit /\ [][EmNext]_emVars

-----------------------------------------------------------------------------
\* Every variable has its type.
EmTypeOK ==
    /\ emMap \in [EmIds -> EmEndpoints \cup {EmNone}]
    /\ emDisk \in [EmIds -> EmEndpoints \cup {EmNone}]
    /\ emReq \in [EmReqs -> [pc : {"new", "client", "call", "taken", "ok", "refused",
                                   "failed", "cut"},
                             id : EmIds \cup {EmNone}, to : EmEndpoints \cup {EmNone}]]
    /\ emRemote \subseteq EmReqs \X {"runs", "event"}
    /\ emTold \subseteq EmReqs
    /\ emStops \in 0..MaxEmStops

\* No other request uses the id: the map cannot tell two of them apart.
OwnId(r) == \A q \in EmReqs \ {r} : emReq[q].id # emReq[r].id

(* A task that was accepted and runs, or has ended without having been     *)
(* reported, is known with its endpoint, in memory and on disk: its end    *)
(* will be re-emitted and a cancel reaches it, also when the broker        *)
(* restarted in between ("so an in-flight task survives a broker           *)
(* restart").                                                              *)
UnderWayIsMapped ==
    \A x \in emRemote :
        OwnId(x[1]) /\ emReq[x[1]].pc \in {"taken", "ok", "cut"}
            => /\ emMap[emReq[x[1]].id] = emReq[x[1]].to
               /\ emDisk = emMap

(* A submit that was answered with an error leaves no entry, so that a get *)
(* or cancel of that id is not forwarded for ever.                         *)
FailedIsForgotten ==
    \A r \in EmReqs :
        OwnId(r) /\ emReq[r].pc \in {"failed", "refused"} => emMap[emReq[r].id] = EmNone

(* A cancel is only ever sent to an endpoint to which a task of that id    *)
(* was submitted, however the map changed while its client was fetched.    *)
CancelIsAddressed ==
    emCancel # <<>> =>
        \E r \in EmReqs : emReq[r].id = emCancel[1] /\ emReq[r].to = emCancel[2]
=============================================================================
