--------------------------- MODULE PluginSessions ---------------------------
(***************************************************************************)
(* The sessions of one plugin instance (plugin_base.py): clients register, *)
(* use, touch and unregister them by sid, a background sweep ends the idle *)
(* ones, and the host takes the plugin down (plugin_host_base.py).  All of *)
(* it runs on one event loop; a step ends where the code awaits, which is  *)
(* in the handlers and in session.close().                                 *)
(*                                                                         *)
(* _sessions and _records change together and are one table.  A session    *)
(* object is numbered by its creation, so that a sid that is used again is *)
(* told apart from its earlier session.  Time is the age since last use.   *)
(***************************************************************************)
EXTENDS Naturals, FiniteSets

CONSTANTS PSids,       \* sids that clients use
          Default,    \* the reserved sid 'default'
          Reqs,       \* requests under way at a time (bound)
          MaxObj,     \* session objects (bound)
          Timeout     \* idle timeout of a session that has one

ASSUME PluginSids ==
  /\ Default \in PSids /\ Timeout \in Nat /\ MaxObj \in Nat
  /\ Reqs \cap {"none", "sweep", "host"} = {}

Objs  == 1..MaxObj
NoObj == 0

VARIABLES
  table,     \* _sessions and _records
  obj,       \* the session objects
  made,      \* how many there are
  ended,     \* _ended: sids that answer 410
  psReq,       \* requests: idle, running a handler, or awaiting a close
  sweep,     \* _cleanup_task: off, asleep, working, awaiting a close
  overdue,       \* what is left of the sweep's list
  host,      \* the plugin on its host: up, ..., gone
  todo       \* sids that shutdown has still to drop

psVars == <<table, obj, made, ended, psReq, sweep, overdue, host, todo>>

ObjRec == [sid: PSids, ttl: BOOLEAN, age: 0..Timeout + 1, busy: BOOLEAN, late: BOOLEAN,
           st: {"open", "closing", "closed", "cut"},
           why: {"none", "expired", "closed", "dropped"},
           by: Reqs \cup {"none", "sweep", "host"}]

\* Every variable keeps its type.
PsTypeOK ==
  /\ made \in 0..MaxObj
  /\ table \in [PSids -> 0..made]
  /\ obj \in [1..made -> ObjRec]
  /\ ended \subseteq PSids
  /\ psReq \in [Reqs -> [pc: {"idle", "run", "close"}, obj: 0..made]]
  /\ sweep \in {"off", "sleep", "work", "close"}
  /\ overdue \subseteq 1..made
  /\ host \in {"up", "cancel", "list", "drop", "close", "gone"}
  /\ todo \subseteq PSids

PsInit ==
  /\ table = [s \in PSids |-> NoObj] /\ obj = <<>> /\ made = 0 /\ ended = {}
  /\ psReq = [r \in Reqs |-> [pc |-> "idle", obj |-> NoObj]]
  /\ sweep = "off" /\ overdue = {} /\ host = "up" /\ todo = {}

\* The loop is at an await: neither the sweep nor the shutdown is between two.
LoopFree == host \notin {"list", "drop"} /\ sweep # "work"

-----------------------------------------------------------------------------
(* Expiry. *)

\* _is_expired and _is_busy: a running request or the session's own probe.
Due(o)    == obj[o].ttl /\ obj[o].age > Timeout
InUse(o)  == \/ obj[o].busy
             \/ \E r \in Reqs : psReq[r] = [pc |-> "run", obj |-> o]
Expires(o) == Due(o) /\ ~InUse(o)

Touched(o) == [obj EXCEPT ![o].age = 0]

\* _end_session and _drop_session up to the close they await.
EndLate(o, why, by) ==                             \* mutant: forgotten after the close
  /\ obj' = [obj EXCEPT ![o].st = "closing", ![o].why = why, ![o].by = by]
  /\ ended' = IF obj[o].ttl /\ why # "dropped" THEN ended \cup {obj[o].sid} ELSE ended
  /\ UNCHANGED table
End(o, why, by) ==
  /\ obj' = [obj EXCEPT ![o].st = "closing", ![o].why = why, ![o].by = by]
  /\ ended' = IF obj[o].ttl /\ why # "dropped" THEN ended \cup {obj[o].sid} ELSE ended
  /\ table' = [table EXCEPT ![obj[o].sid] = NoObj]

\* session.close() is over, whether it failed or not.
CloseReturns(o) ==
  /\ LoopFree /\ obj[o].st = "closing"
  /\ obj' = [obj EXCEPT ![o] = [@ EXCEPT !.st = "closed", !.age = 0, !.busy = FALSE,
                                         !.by = "none"]]
  /\ psReq' = IF obj[o].by \in Reqs THEN [psReq EXCEPT ![obj[o].by] = [pc |-> "idle", obj |-> NoObj]] ELSE psReq
  /\ sweep' = IF obj[o].by = "sweep" THEN "work" ELSE sweep
  /\ host' = IF obj[o].by = "host" THEN "drop" ELSE host
  /\ UNCHANGED <<table, made, ended, overdue, todo>>

-----------------------------------------------------------------------------
(* Routes.  They answer until the host strips them. *)

New(s, ttl) ==
  /\ made < MaxObj /\ made' = made + 1
  /\ obj' = [o \in 1..made' |->
       IF o = made' THEN [sid |-> s, ttl |-> ttl, age |-> 0, busy |-> FALSE,
                          late |-> host # "up", st |-> "open", why |-> "none", by |-> "none"]
       ELSE obj[o]]
  /\ table' = [table EXCEPT ![s] = made']

Sweeping  == IF sweep = "off" THEN "sleep" ELSE sweep

\* _open_session: reconnect (the timeout set at creation stays) or create.
OpenSession(s, ttl) ==
  IF table[s] = NoObj THEN New(s, ttl) /\ UNCHANGED ended
  ELSE obj' = Touched(table[s]) /\ UNCHANGED <<table, ended, made>>

\* 'default' is made on demand, by a registration or a request.
EnsureDefault == New(Default, FALSE) /\ UNCHANGED ended

\* _expire_if_due in a route: the request ends the session, awaits its close
\* and answers 410.
ExpireIfDue(r, o) ==
  /\ o # NoObj /\ Expires(o)
  /\ End(o, "expired", r)
  /\ psReq' = [psReq EXCEPT ![r] = [pc |-> "close", obj |-> o]] /\ UNCHANGED made

\* register_session: _normalize_session_policy ends a session that is due and
\* refuses an ended sid.
Refused(s)    == s \in ended
Register(r, s, ttl) ==
  /\ LoopFree /\ host # "gone" /\ psReq[r].pc = "idle" /\ (s = Default => ~ttl)
  /\ sweep' = Sweeping
  /\ \/ ExpireIfDue(r, table[s])
     \/ /\ IF table[s] = NoObj THEN ~Refused(s) ELSE ~Expires(table[s])
        /\ OpenSession(s, ttl) /\ UNCHANGED psReq
  /\ UNCHANGED <<overdue, host, todo>>

\* _forward: the session's method runs as long as it likes.
Forward(r, o) ==
  /\ obj' = Touched(o)
  /\ psReq' = [psReq EXCEPT ![r] = [pc |-> "run", obj |-> o]]
  /\ UNCHANGED <<table, ended, made>>

\* A {sid} route: _accessed, then the handler.
Request(r, s) ==
  /\ LoopFree /\ host # "gone" /\ psReq[r].pc = "idle"
  /\ \/ /\ table[s] = NoObj /\ s = Default
        /\ EnsureDefault
        /\ psReq' = [psReq EXCEPT ![r] = [pc |-> "run", obj |-> made']]
     \/ ExpireIfDue(r, table[s])
     \/ table[s] # NoObj /\ ~Expires(table[s]) /\ Forward(r, table[s])
  /\ UNCHANGED <<sweep, overdue, host, todo>>

RequestEnds(r) ==
  /\ LoopFree /\ psReq[r].pc = "run"
  /\ obj' = IF obj[psReq[r].obj].st = "closed" THEN obj ELSE Touched(psReq[r].obj)
  /\ psReq' = [psReq EXCEPT ![r] = [pc |-> "idle", obj |-> NoObj]]
  /\ UNCHANGED <<table, made, ended, sweep, overdue, host, todo>>

Unregister(r, s) ==
  /\ LoopFree /\ host # "gone" /\ psReq[r].pc = "idle" /\ table[s] # NoObj
  /\ End(table[s], "closed", r)
  /\ psReq' = [psReq EXCEPT ![r] = [pc |-> "close", obj |-> table[s]]]
  /\ UNCHANGED <<made, sweep, overdue, host, todo>>

\* The session's own work begins or ends, or it notifies (notify touches it).
Work(o) ==
  /\ LoopFree /\ obj[o].st = "open"
  /\ \/ obj' = [obj EXCEPT ![o].busy = ~@]
     \/ obj' = Touched(o) /\ obj[o].age > 0
  /\ UNCHANGED <<table, made, ended, psReq, sweep, overdue, host, todo>>

Tick ==
  /\ LoopFree /\ \E o \in 1..made : obj[o].st = "open" /\ obj[o].age <= Timeout
  /\ obj' = [o \in 1..made |-> IF obj[o].st = "open" /\ obj[o].age <= Timeout
                               THEN [obj[o] EXCEPT !.age = @ + 1] ELSE obj[o]]
  /\ UNCHANGED <<table, made, ended, psReq, sweep, overdue, host, todo>>

-----------------------------------------------------------------------------
(* The sweep. *)

SweepWakes ==
  /\ LoopFree /\ sweep = "sleep"
  /\ overdue' = {o \in 1..made : table[obj[o].sid] = o /\ Due(o)}
  /\ sweep' = "work"
  /\ UNCHANGED <<table, obj, made, ended, psReq, host, todo>>

\* Each candidate is decided afresh: an earlier close may have taken long.
SweptStale(o) ==                                   \* mutant: decided when listed
  IF table[obj[o].sid] = o THEN End(o, "expired", "sweep") /\ sweep' = "close"
  ELSE UNCHANGED <<table, obj, ended, sweep>>
Swept(o) ==
  IF table[obj[o].sid] = o /\ Due(o)
  THEN IF InUse(o) THEN obj' = Touched(o) /\ UNCHANGED <<table, ended, sweep>>
       ELSE End(o, "expired", "sweep") /\ sweep' = "close"
  ELSE UNCHANGED <<table, obj, ended, sweep>>
SweepNext(o) ==
  /\ sweep = "work" /\ o \in overdue
  /\ overdue' = overdue \ {o}
  /\ Swept(o)
  /\ UNCHANGED <<made, psReq, host, todo>>

SweepEnds ==
  /\ sweep = "work" /\ overdue = {} /\ sweep' = "sleep"
  /\ UNCHANGED <<table, obj, made, ended, psReq, overdue, host, todo>>

-----------------------------------------------------------------------------
(* deregister_dynamic_plugin, and shutdown of the plugin. *)

\* The sweep is cancelled, in a close too, and awaited.
HostStop ==
  /\ LoopFree /\ host = "up"
  /\ host' = IF sweep = "off" THEN "list" ELSE "cancel"
  /\ sweep' = "off" /\ overdue' = {}
  /\ obj' = [o \in 1..made |-> IF obj[o].st = "closing" /\ obj[o].by = "sweep"
                               THEN [obj[o] EXCEPT !.st = "cut", !.by = "none"] ELSE obj[o]]
  /\ UNCHANGED <<table, made, ended, psReq, todo>>

ToDrop    == {s \in PSids : table[s] # NoObj}
HostLists ==
  /\ host = "list" \/ (host = "cancel" /\ LoopFree)
  /\ host' = "drop" /\ todo' = ToDrop
  /\ UNCHANGED <<table, obj, made, ended, psReq, sweep, overdue>>

HostDrops(s) ==
  /\ host = "drop" /\ s \in todo /\ todo' = todo \ {s}
  /\ IF table[s] = NoObj THEN UNCHANGED <<table, obj, ended, host>>
     ELSE End(table[s], "dropped", "host") /\ host' = "close"
  /\ UNCHANGED <<made, psReq, sweep, overdue>>

\* The routes are stripped and the new topology announced.
HostStrips ==
  /\ host = "drop" /\ todo = {} /\ host' = "gone"
  /\ UNCHANGED <<table, obj, made, ended, psReq, sweep, overdue, todo>>

-----------------------------------------------------------------------------
PsNext ==
  \/ \E r \in Reqs : \/ RequestEnds(r)
                     \/ \E s \in PSids : \/ Request(r, s) \/ Unregister(r, s)
                                         \/ \E ttl \in BOOLEAN : Register(r, s, ttl)
  \/ \E o \in 1..made : CloseReturns(o) \/ Work(o) \/ SweepNext(o)
  \/ Tick \/ SweepWakes \/ SweepEnds
  \/ HostStop \/ HostLists \/ HostStrips \/ \E s \in PSids : HostDrops(s)

PsSpec == PsInit /\ [][PsNext]_psVars

\* The sweep comes round every few seconds, a close returns, and the host's
\* shutdown goes on; requests and time itself are not assumed fair.
SweepStep == SweepWakes \/ SweepEnds \/ \E o \in 1..made : SweepNext(o)
HostStep  == HostLists \/ HostStrips \/ \E s \in PSids : HostDrops(s)
PsFair ==
  /\ WF_psVars(SweepStep) /\ WF_psVars(HostStep)
  /\ \A o \in Objs : WF_psVars(o <= made /\ CloseReturns(o))

-----------------------------------------------------------------------------
(* Properties. *)

\* The table holds exactly the open sessions: a session that is being closed is
\* never handed to a request, and none is open without a sid to reach it by.
TableIsOpen ==
  /\ \A s \in PSids : table[s] # NoObj => obj[table[s]].st = "open"
  /\ \A o \in 1..made : obj[o].st = "open" => table[obj[o].sid] = o

\* A session expires only while it is idle past its timeout, with no request
\* running on it and no work of its own, at the moment it is ended
\* (_expire_if_due), however long ago the sweep put it on its list.
ExpiresOnlyIdle ==
  [][\A o \in 1..made :
       (obj[o].st = "open" /\ obj'[o].why = "expired") => Due(o) /\ ~InUse(o)]_psVars

\* A sid that answers 410 is never a session again.
EndedStaysEnded == \A s \in ended : table[s] = NoObj

\* Once the host is done with the plugin, no session that was there when the
\* shutdown began is left open.
GoneIsClosedApart ==
  host = "gone" => \A o \in 1..made : obj[o].st = "open" => obj[o].late

Overdue(o) == o <= made /\ obj[o].st = "open" /\ Expires(o)
\* A session that is idle past its timeout does not stay so, although a sweep
\* can be held up in a close and the host may end the plugin under it.
OverdueEnds ==
  \A o \in Objs : Overdue(o) ~> ~Overdue(o)
=============================================================================
