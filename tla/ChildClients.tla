---------------------------- MODULE ChildClients ----------------------------
(***************************************************************************)
(* The dispatcher's cached client of one plugin on one endpoint            *)
(* (_get_child_client, _probe_touch, _touch_child_sessions and the         *)
(* invalidation in on_topology_change, plugin_task_dispatcher.py): any     *)
(* coroutine may find the cache empty and register a session in a worker   *)
(* thread, a housekeeping pass touches the cached session so that it does  *)
(* not expire, and a lost endpoint empties the cache.  An endpoint of an   *)
(* older release has no touch route: its session is registered persistent. *)
(* The endpoint itself is external: it may come back with a new process,   *)
(* and so without its sessions and of another release, at any time.        *)
(***************************************************************************)
EXTENDS Naturals

CONSTANTS
    Users,        \* coroutines that ask for the client
    MaxClients,   \* bound: sessions registered
    MaxRestarts   \* bound: restarts of the endpoint

ASSUME ChildConstants == MaxClients \in Nat \ {0} /\ MaxRestarts \in Nat

VARIABLES
    cached,      \* _child_clients: the client under the key, 0: none
    ccFlagged,     \* _child_persistent holds the key
    touchable,   \* _child_touchable of the endpoint: yes, no, unknown
    ccClient,      \* per client: its session
    ccMade,        \* clients made so far
    asker,       \* per coroutine: where _get_child_client is, and its client
    touching,    \* the client that the pass touches, 0: none
    knows,       \* the endpoint's release has the touch route
    restarts     \* restarts so far

ccVars == <<cached, ccFlagged, touchable, ccClient, ccMade, asker, touching, knows, restarts>>

CcClients == 1..MaxClients

CcInit ==
    /\ cached = 0 /\ ccFlagged = FALSE /\ touchable = "unknown"
    /\ ccClient = [c \in CcClients |-> [session |-> "none", ttl |-> FALSE]]
    /\ ccMade = 0
    /\ asker = [u \in Users |-> [pc |-> "idle", probe |-> "unknown"]]
    /\ touching = 0
    /\ knows \in BOOLEAN
    /\ restarts = 0

-----------------------------------------------------------------------------
\* A cached client is the answer; else the probe, unless it is known.
Ask(u) ==
    /\ asker[u].pc = "idle" /\ cached = 0
    /\ asker' = [asker EXCEPT ![u] = [pc |-> IF touchable = "unknown" THEN "probe" ELSE "register",
                                      probe |-> touchable]]
    /\ UNCHANGED <<cached, ccFlagged, touchable, ccClient, ccMade, touching, knows, restarts>>

\* _probe_touch(): what the endpoint answers now, or nothing conclusive.
Probe(u) ==
    /\ asker[u].pc = "probe"
    /\ \E found \in {IF knows THEN "yes" ELSE "no", "unknown"} :
         asker' = [asker EXCEPT ![u] = [pc |-> "register", probe |-> found]]
    /\ UNCHANGED <<cached, ccFlagged, touchable, ccClient, ccMade, touching, knows, restarts>>

FlagsAnew(ttl) == ccFlagged' = ~ttl

\* register_session came back: flag, probe and cache, without an await.
CcRegistered(u) ==
    /\ asker[u].pc = "register" /\ ccMade < MaxClients
    /\ ccMade' = ccMade + 1
    /\ ccClient' = [ccClient EXCEPT ![ccMade + 1] =
                    [session |-> "live", ttl |-> asker[u].probe = "yes"]]
    /\ FlagsAnew(asker[u].probe = "yes")
    /\ touchable' = IF asker[u].probe # "unknown" THEN asker[u].probe ELSE touchable
    /\ cached' = ccMade + 1
    /\ asker' = [asker EXCEPT ![u].pc = "idle"]
    /\ UNCHANGED <<touching, knows, restarts>>

RegistrationFails(u) ==
    /\ asker[u].pc = "register"
    /\ asker' = [asker EXCEPT ![u].pc = "idle"]
    /\ UNCHANGED <<cached, ccFlagged, touchable, ccClient, ccMade, touching, knows, restarts>>

-----------------------------------------------------------------------------
\* A pass of the housekeeping: the cached client, unless it is persistent.
TouchBegins ==
    /\ touching = 0 /\ cached # 0 /\ ~ccFlagged
    /\ touching' = cached
    /\ UNCHANGED <<cached, ccFlagged, touchable, ccClient, ccMade, asker, knows, restarts>>

\* Mutant: the entry goes whoever is in it by now.
DropsAny(c)  == cached' = 0
DropsSame(c) == cached' = IF cached = c THEN 0 ELSE cached

TouchFindsEnded ==
    /\ touching # 0 /\ ccClient[touching].session = "ended"
    /\ DropsSame(touching)
    /\ touching' = 0
    /\ UNCHANGED <<ccFlagged, touchable, ccClient, ccMade, asker, knows, restarts>>

\* Touched, or not reached: the entry stays.
TouchKeeps ==
    /\ touching # 0 /\ ccClient[touching].session = "live"
    /\ touching' = 0
    /\ UNCHANGED <<cached, ccFlagged, touchable, ccClient, ccMade, asker, knows, restarts>>

\* on_topology_change() finds the endpoint lost.
EndpointLost ==
    /\ cached' = 0 /\ touchable' = "unknown"
    /\ ccFlagged' = (ccFlagged /\ cached = 0)      \* only the keys it pops
    /\ UNCHANGED <<ccClient, ccMade, asker, touching, knows, restarts>>

\* External: a new process, without the old one's sessions.
EndpointRestarts ==
    /\ restarts < MaxRestarts
    /\ restarts' = restarts + 1
    /\ knows' \in BOOLEAN
    /\ ccClient' = [c \in CcClients |->
                    IF ccClient[c].session = "live" THEN [ccClient[c] EXCEPT !.session = "ended"]
                    ELSE ccClient[c]]
    /\ UNCHANGED <<cached, ccFlagged, touchable, ccMade, asker, touching>>

-----------------------------------------------------------------------------
CcNext ==
    \/ \E u \in Users : Ask(u) \/ Probe(u) \/ CcRegistered(u) \/ RegistrationFails(u)
    \/ TouchBegins \/ TouchFindsEnded \/ TouchKeeps
    \/ EndpointLost \/ EndpointRestarts

(* Housekeeping goes on, and every touch is bounded by the call timeout.   *)
CcFair == WF_ccVars(TouchBegins) /\ WF_ccVars(TouchFindsEnded \/ TouchKeeps)

CcSpec == CcInit /\ [][CcNext]_ccVars /\ CcFair

-----------------------------------------------------------------------------
\* Every variable has its type.
CcTypeOK ==
    /\ cached \in 0..MaxClients /\ touching \in 0..MaxClients /\ ccMade \in 0..MaxClients
    /\ ccFlagged \in BOOLEAN /\ knows \in BOOLEAN
    /\ touchable \in {"yes", "no", "unknown"}
    /\ ccClient \in [CcClients -> [session : {"none", "live", "ended"}, ttl : BOOLEAN]]
    /\ asker \in [Users -> [pc : {"idle", "probe", "register"},
                            probe : {"yes", "no", "unknown"}]]
    /\ restarts \in 0..MaxRestarts

(* The cached session is skipped by the touch passes exactly when it was   *)
(* registered persistent: a session with a time to live that no pass       *)
(* touches expires under a pool that waits for work, whichever of two      *)
(* overlapping registrations came last and whatever release came back.     *)
SkippedIsPersistent == cached # 0 => (ccFlagged <=> ~ccClient[cached].ttl)

(* A touch pass drops the entry only of a session that ended: the answer   *)
(* about an old client, late, leaves the one registered since alone.       *)
DropsOnlyEnded ==
    [][cached # 0 /\ cached' = 0 /\ touching # 0 /\ touching' = 0
         => ccClient[cached].session = "ended"]_ccVars

(* An ended session with a time to live does not stay cached, so that the  *)
(* pool's next submit registers a fresh one.                               *)
EndedIsDropped ==
    \A c \in CcClients :
        cached = c /\ ccClient[c].ttl /\ ccClient[c].session = "ended" ~> cached # c
=============================================================================
