--------------------------- MODULE RhapsodyClient ---------------------------
(***************************************************************************)
(* A rhapsody client on a runtime's subscriptions (plugin_rhapsody.py):    *)
(* register_session makes or joins a session and moves the client's own    *)
(* callbacks to it; task notifications fill _completed under _cond, and    *)
(* wait_tasks blocks on it.  The runtime's registry is module              *)
(* Subscriptions, on one connection that stands; a call leaves through the *)
(* same outbox as the subscription frames and is handled after them.       *)
(*                                                                         *)
(* Three threads of the client: one registers and submits, one waiter, one  *)
(* runs callbacks.  Endpoint and broker are reduced to what the client     *)
(* sees: sessions that get ready (or fail) once, tasks that end once, and  *)
(* events the broker sends if one of the client's patterns matches.  Task  *)
(* uids are only unique per client: other clients use the same ones.       *)
(***************************************************************************)
EXTENDS Subscriptions

CONSTANTS Task, Stat,   \* the callbacks _on_task_done and _on_session_status
          Uids, NoUid,
          MaxSwitch     \* calls of register_session (bound)

ASSUME ClientCbs == Cbs = {Task, Stat} /\ KeyOf[Task] # KeyOf[Stat] /\ Wild = {}

VARIABLES
  sid,        \* _sid
  pc,         \* the registering and submitting thread
  arg,        \* its session or task uid
  calls,      \* register_session calls so far
  queued,     \* frames in the outbox before its call
  completed,  \* _completed
  submitted,  \* _submitted
  outcomes,   \* of the running register_session: sessions seen ready or failed
  waiter,     \* wait_tasks: the session it began in and the uid, or none
  evq,        \* events on their way to the work loop
  cbq,        \* callbacks on the dispatcher's queue
  session,    \* endpoint: its sessions
  task,       \* endpoint: tasks per session and uid
  sure,       \* the broker knew Task's scope once: from then on nothing may be missed
  due         \* uids that ended in the client's session since then

clVars == <<sid, pc, arg, calls, queued, completed, submitted, outcomes, waiter,
            evq, cbq, session, task, sure, due>>
NoWait == <<NoSid, NoUid>>
Event  == [key: Keys, sid: Sids, uid: Uids \cup {NoUid}]

\* Every variable keeps its type, and a session id is set before it is waited in.
ClTypeOK ==
  /\ sid \in Sids \cup {NoSid}
  /\ pc \in {"idle", "listen", "asked", "answered", "init", "released", "ready", "submit"}
  /\ arg \in Sids \cup Uids \cup {NoSid} /\ calls \in 0..MaxSwitch /\ queued \in Nat
  /\ completed \in [Uids -> Sids \cup {NoSid}] /\ submitted \subseteq Uids
  /\ outcomes \subseteq Sids
  /\ waiter \in {NoWait} \cup (Sids \X Uids)
  /\ evq \in Seq(Event)
  /\ \A i \in DOMAIN cbq : cbq[i].cb \in Cbs /\ cbq[i].ev \in Event
  /\ session \in [Sids -> {"none", "init", "over"}]
  /\ task \in [Sids -> [Uids -> {"none", "run", "done"}]]
  /\ sure \in BOOLEAN /\ due \subseteq Uids

ClInit ==
  /\ SubInit /\ caps[0]
  /\ sid = NoSid /\ pc = "idle" /\ arg = NoSid /\ calls = 0 /\ queued = 0
  /\ completed = [u \in Uids |-> NoSid] /\ submitted = {} /\ outcomes = {}
  /\ waiter = NoWait
  /\ evq = <<>> /\ cbq = <<>>
  /\ session \in [Sids -> {"none", "over"}]
  /\ task = [s \in Sids |-> [u \in Uids |-> "none"]]
  /\ sure = FALSE /\ due = {}

-----------------------------------------------------------------------------
(* register_session. *)

user   == <<pc, arg, calls, queued>>
own    == <<sid, completed, submitted, due>>
remote == <<evq, cbq, session, task>>

\* _register_own of the status waiter, unscoped: the sid is not known yet.
RegisterSession(s) ==
  /\ pc = "idle" /\ calls < MaxSwitch
  /\ RegisterCallback(Stat, NoSid)
  /\ pc' = "listen" /\ arg' = s /\ calls' = calls + 1 /\ queued' = queued
  /\ outcomes' = {}
  /\ UNCHANGED <<own, waiter, remote, sure>>

\* _hold_own: the plain patterns of the scoped callbacks.
HoldOwn == Hold(IF reg[Task] = "off" THEN {} ELSE {KeyOf[Task]})
Post ==
  /\ pc = "listen" /\ pc' = "asked"
  /\ HoldOwn
  /\ queued' = Len(out')
  /\ UNCHANGED <<arg, calls, own, outcomes, waiter, remote, sure>>

\* The endpoint handles the POST: a new session, or the existing one.
Posted ==
  /\ pc = "asked" /\ queued = 0 /\ pc' = "answered"
  /\ session' = [session EXCEPT ![arg] = IF @ = "none" THEN "init" ELSE @]
  /\ outcomes' = IF session[arg] = "over" THEN outcomes \cup {arg} ELSE outcomes
  /\ UNCHANGED <<subVars, arg, calls, queued, own, waiter, evq, cbq, task, sure>>

Forget(s) == IF s = sid THEN UNCHANGED <<completed, submitted>>
             ELSE completed' = [u \in Uids |-> NoSid] /\ submitted' = {}
\* The answer: sid, accumulators and callbacks change in one _cond section.
Switch ==
  /\ pc = "answered" /\ pc' = "init"
  /\ Forget(arg)
  /\ due' = IF arg = sid THEN due ELSE {}
  /\ sid' = arg
  /\ Rescope({c \in Cbs : reg[c] \notin {"off", arg}}, arg)
  /\ UNCHANGED <<arg, calls, queued, outcomes, waiter, remote, sure>>

ReleaseOwn ==
  /\ pc = "init" /\ pc' = "released"
  /\ Release({k \in Keys : hold[k] > 0})
  /\ UNCHANGED <<arg, calls, queued, own, outcomes, waiter, remote, sure>>

\* _wait_ready has its outcome, or the POST's answer did, or it timed out: the
\* status waiter goes (its closure with it).
RegisterEnds ==
  /\ pc = "released"
  /\ UnregisterCallback(Stat)
  /\ cbq' = SelectSeq(cbq, LAMBDA e : e.cb # Stat)
  /\ \/ arg \in outcomes /\ pc' = "ready"
     \/ pc' = "idle"
  /\ UNCHANGED <<arg, calls, queued, own, outcomes, waiter, evq, session, task, sure>>

\* _start_task_listener, once per client.
StartListener ==
  /\ pc = "ready" /\ pc' = "idle"
  /\ IF reg[Task] = "off" THEN RegisterCallback(Task, sid) ELSE UNCHANGED subVars
  /\ UNCHANGED <<arg, calls, queued, own, outcomes, waiter, remote, sure>>

-----------------------------------------------------------------------------
(* submit_tasks and wait_tasks. *)

SubmitTasks(u) ==
  /\ pc = "idle" /\ reg[Task] # "off" /\ u \notin submitted /\ task[sid][u] = "none"
  /\ submitted' = submitted \cup {u}
  /\ pc' = "submit" /\ arg' = u /\ queued' = Len(out)
  /\ UNCHANGED <<subVars, calls, sid, completed, due, outcomes, waiter, remote, sure>>

SubmitHandled ==
  /\ pc = "submit" /\ queued = 0 /\ pc' = "idle"
  /\ task' = [task EXCEPT ![sid][arg] = IF @ = "none" THEN "run" ELSE @]
  /\ UNCHANGED <<subVars, arg, calls, queued, own, outcomes, waiter, evq, cbq, session, sure>>

Wait(u) ==
  /\ waiter = NoWait /\ (u \in submitted \/ completed[u] # NoSid)
  /\ waiter' = <<sid, u>>
  /\ UNCHANGED <<subVars, user, own, outcomes, remote, sure>>

\* The loop's test, whenever the thread gets _cond: the result first, then the
\* session.
WaitEnds ==
  /\ waiter # NoWait /\ waiter' = NoWait
  /\ completed[waiter[2]] # NoSid \/ sid # waiter[1]
  /\ UNCHANGED <<subVars, user, own, outcomes, remote, sure>>

-----------------------------------------------------------------------------
(* Events. *)

\* The broker's outbound queue for this runtime.
Ingest(e) == IF subs[<<e.key, NoSid>>] > 0 \/ subs[<<e.key, e.sid>>] > 0
             THEN Append(evq, e) ELSE evq

\* The initialization of a session ends.
SessionOver(s) ==
  /\ session[s] = "init"
  /\ session' = [session EXCEPT ![s] = "over"]
  /\ evq' = Ingest([key |-> KeyOf[Stat], sid |-> s, uid |-> NoUid])
  /\ UNCHANGED <<subVars, user, own, outcomes, waiter, cbq, task, sure>>

\* Another client submits a task of the same uid in a session.
OtherSubmits(s, u) ==
  /\ session[s] = "over" /\ task[s][u] = "none"
  /\ task' = [task EXCEPT ![s][u] = "run"]
  /\ UNCHANGED <<subVars, user, own, outcomes, waiter, evq, cbq, session, sure>>

TaskEnds(s, u) ==
  /\ task[s][u] = "run"
  /\ task' = [task EXCEPT ![s][u] = "done"]
  /\ evq' = Ingest([key |-> KeyOf[Task], sid |-> s, uid |-> u])
  /\ due' = IF sure /\ sid = s THEN due \cup {u} ELSE due
  /\ UNCHANGED <<subVars, user, sid, completed, submitted, outcomes, waiter, cbq, session, sure>>

\* _on_event: other sessions' events are dropped before the callback queue.
OnEvent ==
  /\ evq # <<>> /\ evq' = Tail(evq)
  /\ LET e == Head(evq)
         C == {c \in Cbs : KeyOf[c] = e.key /\ reg[c] \in {NoSid, e.sid}}
     IN cbq' = cbq \o SetToSeq([cb: C, ev: {e}])
  /\ UNCHANGED <<subVars, user, own, outcomes, waiter, session, task, sure>>

\* _on_task_done under _cond, and _on_session_status.
OwnSid(e) == e.sid = sid
OnCallback ==
  /\ cbq # <<>> /\ cbq' = Tail(cbq)
  /\ LET e == Head(cbq).ev
     IN IF Head(cbq).cb = Stat
        THEN outcomes' = outcomes \cup {e.sid} /\ UNCHANGED completed
        ELSE /\ completed' = IF OwnSid(e) THEN [completed EXCEPT ![e.uid] = e.sid]
                             ELSE completed
             /\ UNCHANGED outcomes
  /\ UNCHANGED <<subVars, user, sid, submitted, due, waiter, evq, session, task, sure>>

\* The transport sends a frame, or the runtime learns of the broker's caps.
Transport ==
  /\ SendsFrame \/ Topology
  /\ queued' = IF Len(out') < Len(out) /\ queued > 0 THEN queued - 1 ELSE queued
  /\ sure' = (sure \/ (reg[Task] # "off" /\ ahead'[Task] = 0))
  /\ UNCHANGED <<pc, arg, calls, own, outcomes, waiter, remote>>

-----------------------------------------------------------------------------
ClNext ==
  \/ \E s \in Sids : RegisterSession(s) \/ SessionOver(s)
  \/ Post \/ Posted \/ Switch \/ ReleaseOwn \/ RegisterEnds \/ StartListener
  \/ \E u \in Uids : \/ SubmitTasks(u) \/ Wait(u)
                     \/ \E s \in Sids : OtherSubmits(s, u) \/ TaskEnds(s, u)
  \/ SubmitHandled \/ WaitEnds \/ OnEvent \/ OnCallback \/ Transport

-----------------------------------------------------------------------------
(* Properties. *)

OnTheWay(k, s, u) ==
  LET e == [key |-> k, sid |-> s, uid |-> u]
  IN \/ \E i \in DOMAIN evq : evq[i] = e
     \/ \E i \in DOMAIN cbq : cbq[i].ev = e

\* _completed holds results of the client's current session only, although
\* late notifications of the old one are still queued when it switches.
CompletedIsOurs == \A u \in Uids : completed[u] \in {NoSid, sid}

\* From the moment the broker first knew the client's scope, a task that ends
\* in the client's session is recorded or on its way: a switch to a session
\* that is already sending loses nothing, for the plain pattern is held.
NoResultLost == \A u \in due : completed[u] # NoSid \/ OnTheWay(KeyOf[Task], sid, u)

\* register_session never waits for an outcome that has been and gone: it is
\* pending, on its way, or recorded.
ReadyNotMissed ==
  pc \in {"init", "released"} =>
     \/ arg \in outcomes \/ session[arg] = "init" \/ OnTheWay(KeyOf[Stat], arg, NoUid)

=============================================================================
