----------------------------- MODULE Federation -----------------------------
(***************************************************************************)
(* The federation plugin (plugin_federation.py, federation_state.py,       *)
(* federation_policy.py): resources join with their members, a member is   *)
(* added to the dispatcher's pool of its class, tasks are submitted to the *)
(* class the policy picks and followed in a ledger, and topology attaches  *)
(* and detaches members.  The dispatcher is seen through the routes that   *)
(* the federation calls in process.                                        *)
(*                                                                         *)
(* All coroutines share one loop.  Calls to the dispatcher suspend in two  *)
(* cases only: the removal of a member waits for its pilots' cancels, and  *)
(* so does the cancel of a running task; a join also waits for the         *)
(* endpoint's own answers.  `ops' are the operations suspended there; what *)
(* lies between two suspensions is one action.                             *)
(*                                                                         *)
(* Left out: usage figures (a member is never short of node hours), the    *)
(* upgrade of pre-class-pool state files, refused requests that change     *)
(* nothing.  A member of Allocated has an end_time; time is the action     *)
(* AllocationEnds.                                                         *)
(***************************************************************************)
EXTENDS Naturals, Sequences, FiniteSets, SequencesExt

CONSTANTS Res,        \* resource names; also the name of a resource's endpoint
          Mem,        \* member ids
          Classes,    \* capability classes
          Tasks, None,
          Order,      \* the members of a resource, in the order of declaration
          ClassOf,    \* the class of a member
          Rank,       \* position of a class in the order of the policy's keys
          Versions,   \* different bodies of a join
          Changing,   \* members whose declaration differs from body to body
          Allocated,  \* members that are an allocation, with an end_time
          Overlap     \* operations under way at the same time

Owns == [r \in Res |-> ToSet(Order[r])]
ASSUME FedShape ==
  /\ Order \in [Res -> Seq(Mem)]
  /\ \A m \in Mem : \E r \in Res : m \in Owns[r]
  /\ \A r \in Res : Order[r] # <<>> /\ (Owns[r] \cap Allocated # {} => Len(Order[r]) = 1)
  /\ \A r, s \in Res : r # s => Owns[r] \cap Owns[s] = {}
  /\ ClassOf \in [Mem -> Classes] /\ Rank \in [Classes -> Nat]
  /\ Changing \subseteq Mem /\ Allocated \subseteq Mem
  /\ Overlap \in Nat \ {0} /\ Versions \in Nat \ {0}
ASSUME FiniteAssumption == IsFiniteSet(Res)

VARIABLES
  joined,    \* the record of a resource: which body it joined with, 0 for none
  live,      \* liveness of the record and of its members
  ledger,    \* the ledger entry of a task
  attached,  \* _attached
  declared,  \* _pools, as classes
  replayed,  \* _replayed
  net,       \* _participants: liveness of a resource's endpoint
  ended,     \* members whose end_time has passed
  pool,      \* dispatcher: the declaration of a member in its pool, 0 for none
  made,      \* dispatcher: classes whose pool exists
  session,   \* dispatcher: the session `fed' is live
  task,      \* dispatcher: task records
  lapsed,    \* tasks that a leave with cancel_tasks let go: their cancel failed,
             \* or they came to the resource while it waited for the others
  ops,       \* suspended operations
  raced      \* resources on which two operations have overlapped (history)

state == <<joined, ledger>>                       \* state.json
plug  == <<live, attached, declared, replayed, net, ended>>
disp  == <<pool, made, session, task>>
vars  == <<state, plug, disp, lapsed, ops, raced>>

Final   == {"DONE", "FAILED", "CANCELED"}
NoTask  == [st |-> "NONE", member |-> None, class |-> None]
TaskRec == [st: {"NONE", "QUEUED", "RUNNING"} \cup Final, member: Mem \cup {None},
            class: Classes \cup {None}]
Entry   == [res: Res \cup {None}, member: Mem \cup {None}, st: {"QUEUED", "RUNNING"} \cup Final]
ASSUME NoneIsNone == None \notin Res \cup Mem \cup Classes \cup Tasks /\ None \notin Entry

\* The operations that may be suspended, with what they hold meanwhile.
Joining(r, v, l)       == [kind |-> "join", r |-> r, v |-> v, live |-> l]
RollingBack(todo)      == [kind |-> "rollback", todo |-> todo]
Leaving(r, c, todo)    == [kind |-> "leave", r |-> r, cancel |-> c, todo |-> todo]
Cancelling(r, T)       == [kind |-> "cancel", r |-> r, tasks |-> T]
Heard                  == [kind |-> "topology"]
Syncing(res, ver, todo) == [kind |-> "sync", res |-> res, ver |-> ver, todo |-> todo]

\* Every variable keeps its type.
TypeOK ==
  /\ joined \in [Res -> 0..Versions] /\ pool \in [Mem -> 0..Versions]
  /\ live \in [Res -> {"ok", "suspect", "lost"}]
  /\ net \in [Res -> {"present", "suspect", "lost"}]
  /\ ledger \in [Tasks -> Entry \cup {None}] /\ task \in [Tasks -> TaskRec]
  /\ attached \subseteq Mem /\ ended \subseteq Allocated /\ lapsed \subseteq Tasks /\ raced \subseteq Res
  /\ declared \subseteq Classes /\ made \subseteq Classes
  /\ replayed \in BOOLEAN /\ session \in BOOLEAN
  /\ Cardinality(ops) <= Overlap

Init ==
  /\ joined = [r \in Res |-> 0] /\ ledger = [t \in Tasks |-> None]
  /\ live = [r \in Res |-> "lost"] /\ net = [r \in Res |-> "lost"]
  /\ attached = {} /\ declared = {} /\ replayed = FALSE /\ ended = {}
  /\ pool = [m \in Mem |-> 0] /\ made = {} /\ session = FALSE
  /\ task = [t \in Tasks |-> NoTask]
  /\ lapsed = {} /\ ops = {} /\ raced = {}

ResOf       == [m \in Mem |-> CHOOSE r \in Res : m \in Owns[r]]   \* split_member_id
Decl(m, v)  == IF m \in Changing THEN v ELSE 1         \* _member_decl
Room        == Cardinality(ops) < Overlap
Replace(o, S) == ops' = (ops \ {o}) \cup S
FirstIn(seq, S) == SelectInSeq(seq, LAMBDA x : x \in S)
Before(seq, i)  == ToSet(IF i = 0 THEN seq ELSE SubSeq(seq, 1, i - 1))
From(seq, i)    == SubSeq(seq, i, Len(seq))

\* History: an operation on the resources R starts while another one is under way.
Touched(o) == CASE o.kind = "sync" -> ToSet(o.res) [] o.kind = "rollback" -> {ResOf[o.todo[1]]}
                [] o.kind = "topology" -> {} [] OTHER -> {o.r}
Busy       == UNION {Touched(o) : o \in ops}
Race(R)    == raced' = raced \cup (R \cap Busy)

\* _liveness_for; a member whose allocation has ended is lost in any case.
Liveness(r) ==
  CASE net[r] = "present" -> "ok" [] net[r] = "suspect" -> "suspect" [] OTHER -> "lost"
Target(r)   == IF Owns[r] \cap ended # {} THEN "lost" ELSE Liveness(r)

-----------------------------------------------------------------------------
(* The dispatcher's routes. *)

\* register_session with the pools of every class that J's members declare: a
\* pool that exists is left alone, a new one starts with the declared members.
PoolsOf(J) == {ClassOf[m] : m \in {n \in Mem : J[ResOf[n]] # 0}}
Materialised(J) ==
  [m \in Mem |-> IF ClassOf[m] \in made \/ J[ResOf[m]] = 0 THEN pool[m]
                 ELSE Decl(m, J[ResOf[m]])]
Register(J) == session' = TRUE /\ made' = made \cup PoolsOf(J) /\ declared' = PoolsOf(J)

\* add_member answers 409 to a member that is there with another declaration.
Clash(P, m, v) == P[m] \notin {0, Decl(m, v)}

\* del_member answers 404 for a member that is not in the pool.
Present(m) == session /\ pool[m] # 0
There      == {m \in Mem : Present(m)}

\* del_member drops the member, fails its tasks if asked to (Failed) and suspends;
\* after the cancels the tasks of its pilots are queued again, and unless the
\* member may come back (sweep) a task that nobody can run fails.
Failed(T, m) == [t \in Tasks |-> IF T[t].st = "RUNNING" /\ T[t].member = m
                                 THEN [T[t] EXCEPT !.st = "FAILED"] ELSE T[t]]
Requeued(S) == [t \in Tasks |-> IF task[t].st = "RUNNING" /\ task[t].member \in S
                                 THEN [task[t] EXCEPT !.st = "QUEUED", !.member = None] ELSE task[t]]
Drained(m, sweep) ==
  [t \in Tasks |->
     LET r == Requeued({m})[t]
     IN IF /\ sweep /\ r.st = "QUEUED" /\ r.class = ClassOf[m]
           /\ \A n \in Mem : ClassOf[n] = r.class => pool[n] = 0
        THEN [r EXCEPT !.st = "FAILED"] ELSE r]

-----------------------------------------------------------------------------
(* Join. *)

\* _route_join up to the endpoint's answers (_discover_capabilities).
JoinStart(r, v) ==
  /\ Room /\ replayed /\ joined[r] = 0 /\ (Owns[r] \cap Changing = {} => v = 1) /\ Liveness(r) # "lost"
  /\ ops' = ops \cup {Joining(r, v, "unread")} /\ Race({r})
  /\ UNCHANGED <<state, plug, disp, lapsed>>

\* A resource that is an allocation is built from the endpoint's second answer
\* (_job_allocation), after its liveness was read.
JoinSized(o) ==
  /\ o.kind = "join" /\ o.live = "unread" /\ Owns[o.r] \cap Allocated # {}
  /\ Replace(o, {Joining(o.r, o.v, Liveness(o.r))})
  /\ UNCHANGED <<state, plug, disp, lapsed, raced>>

\* The rest of _route_join: register every pool, add the members one by one, and
\* at the first refusal take the added ones out again.
JoinFinish(o) ==
  LET seq   == Order[o.r]
      J     == [joined EXCEPT ![o.r] = o.v]
      P     == Materialised(J)
      k     == FirstIn(seq, {m \in Mem : Clash(P, m, o.v)})
      added == ToSet(SubSeq(seq, 1, k - 1))
  IN /\ o.kind = "join" /\ (o.live = "unread" => Owns[o.r] \cap Allocated = {})
     /\ Register(J)
     /\ \/ /\ k = 0
           /\ pool' = [m \in Mem |-> IF m \in Owns[o.r] THEN Decl(m, o.v) ELSE P[m]]
           /\ joined' = J /\ attached' = attached \cup Owns[o.r]
           /\ live' = [live EXCEPT ![o.r] = IF o.live = "unread" THEN Liveness(o.r) ELSE o.live]
           /\ ended' = ended \ Owns[o.r]
           /\ Replace(o, {})
        \/ /\ k # 0
           /\ pool' = [m \in Mem |-> IF m \in added THEN (IF m = seq[1] THEN 0 ELSE Decl(m, o.v))
                                     ELSE P[m]]
           /\ Replace(o, IF added = {} THEN {}
                         ELSE {RollingBack(SubSeq(seq, 1, k - 1))})
           /\ UNCHANGED <<joined, attached, live, ended>>
     /\ UNCHANGED <<ledger, replayed, net, task, lapsed, raced>>

\* The removal of Head(todo) has returned: take out the next one.
Rollback(o) ==
  LET rest == Tail(o.todo)
      i    == FirstIn(rest, There)
  IN /\ o.kind = "rollback"
     /\ task' = Drained(Head(o.todo), TRUE)
     /\ IF i = 0 THEN pool' = pool /\ Replace(o, {})
        ELSE /\ pool' = [pool EXCEPT ![rest[i]] = 0]
             /\ Replace(o, {RollingBack(From(rest, i))})
     /\ UNCHANGED <<state, plug, made, session, lapsed, raced>>

-----------------------------------------------------------------------------
(* Leave. *)

\* drop_resource and save.
DroppedAll(r, all) ==                                  \* mutant: live entries go too
  [t \in Tasks |-> IF ledger[t] # None /\ ledger[t].res = r THEN None ELSE ledger[t]]
Dropped(r, all) ==
  [t \in Tasks |->
     CASE ledger[t] = None -> None
       [] ledger[t] # None /\ ledger[t].res # r -> ledger[t]
       [] OTHER -> IF all \/ ledger[t].st \in Final THEN None
                   ELSE [ledger[t] EXCEPT !.res = None, !.member = None]]
Forget(r, all) == joined' = [joined EXCEPT ![r] = 0] /\ ledger' = Dropped(r, all)

\* _cancel_ledger, for tasks S of which those in F could not be cancelled.
Cancelled(T, S, F) == [t \in Tasks |-> IF t \in S \ F /\ T[t].st \notin Final
                                        THEN [T[t] EXCEPT !.st = "CANCELED"] ELSE T[t]]
Mine(r) == {t \in Tasks : /\ ledger[t] # None
                          /\ ledger[t].res = r /\ ledger[t].st \notin Final}

\* _route_leave with the members in todo still to be taken out, those in gone
\* just taken out, T the tasks and O the other operations: members the
\* dispatcher does not have are asked for in vain, the next one it has is taken
\* out; when there is none the tasks are cancelled, if asked to, and the record
\* is dropped.
LeaveOn(O, r, cancel, gone, todo, T) ==
  LET i    == FirstIn(todo, There)
      work == IF cancel THEN Mine(r) ELSE {}
      wait == \E t \in work : T[t].st = "RUNNING"
  IN /\ attached' = attached \ (gone \cup Before(todo, i))
     /\ \/ /\ i # 0
           /\ pool' = [pool EXCEPT ![todo[i]] = 0]
           /\ task' = IF cancel THEN Failed(T, todo[i]) ELSE T
           /\ ops' = O \cup {Leaving(r, cancel, From(todo, i))}
           /\ UNCHANGED state
        \/ /\ i = 0 /\ wait
           /\ task' = T
           /\ ops' = O \cup {Cancelling(r, work)}
           /\ UNCHANGED <<state, pool>>
        \/ /\ i = 0 /\ ~wait
           /\ task' = Cancelled(T, work, {})
           /\ Forget(r, cancel)
           /\ ops' = O
           /\ UNCHANGED pool
     /\ UNCHANGED <<live, declared, replayed, net, ended, made, session, lapsed>>

LeaveStart(r, cancel) ==
  /\ Room /\ replayed /\ joined[r] # 0
  /\ LeaveOn(ops, r, cancel, {}, Order[r], task)
  /\ Race({r})
LeaveNext(o) ==
  /\ o.kind = "leave"
  /\ LeaveOn(ops \ {o}, o.r, o.cancel, {Head(o.todo)}, Tail(o.todo), Drained(Head(o.todo), TRUE))
  /\ UNCHANGED raced
LeaveEnds(o) ==
  /\ o.kind = "cancel"
  /\ \E F \in SUBSET {t \in o.tasks : task[t].st = "RUNNING"} :
       /\ task' = Cancelled(task, o.tasks, F)
       /\ lapsed' = lapsed \cup F \cup (Mine(o.r) \ o.tasks)
  /\ Forget(o.r, TRUE) /\ Replace(o, {})
  /\ UNCHANGED <<plug, pool, made, session, raced>>

-----------------------------------------------------------------------------
(* Topology and restart. *)

\* _replay_attachments; with no record there is nothing to register.
ReplayUnposted ==                                      \* mutant: trusts the old pools
  /\ Register(joined) /\ pool' = Materialised(joined) /\ task' = task
  /\ attached' = {m \in Mem : joined[ResOf[m]] # 0}
Replay ==
  LET P  == Materialised(joined)
      on == {m \in Mem : /\ joined[ResOf[m]] # 0 /\ m \notin ended
                         /\ ~Clash(P, m, joined[ResOf[m]])}
  IN IF PoolsOf(joined) = {} THEN UNCHANGED <<pool, made, session, declared, attached, task>>
     ELSE /\ Register(joined) /\ attached' = on /\ task' = Requeued(ended)
          /\ pool' = [m \in Mem |-> IF m \in on THEN Decl(m, joined[ResOf[m]])
                                     ELSE IF m \in ended THEN 0 ELSE P[m]]

\* _require_session of the first route after a start.
FirstRoute ==
  /\ ~replayed /\ replayed' = TRUE
  /\ Replay
  /\ UNCHANGED <<state, live, net, ended, lapsed, ops, raced>>

\* on_topology_change: endpoint r is now v.  The passes over the members follow.
Deliver(r, v) ==
  /\ Room /\ (v # net[r] \/ ~replayed)
  /\ net' = [net EXCEPT ![r] = v]
  /\ replayed' = TRUE
  /\ IF replayed THEN UNCHANGED <<pool, made, session, declared, attached, task>>
     ELSE Replay
  /\ ops' = ops \cup {Heard} /\ Race({r})
  /\ UNCHANGED <<state, live, ended, lapsed>>

\* _sync_attachments over the resources in res, up to the first member that is
\* detached and whose pilots have to be cancelled; O are the other operations.
\* ver are the records that the pass found when it started; att and lv are
\* _attached and the liveness.
ToDetach(seq, att) == FirstIn(seq, {m \in att : Present(m)})
Unrest(att) == {r \in Res : Target(r) = "lost" /\ ToDetach(Order[r], att) # 0}
SyncOn(O, ver, res, att, lv) ==
  LET i    == FirstIn(res, Unrest(att))
      pass == Before(res, i)
      Is(m, l) == ResOf[m] \in pass /\ Target(ResOf[m]) = l
      want == {m \in Mem : Is(m, "ok") /\ m \notin att}
      reg  == \E m \in want : ClassOf[m] \notin declared
      P    == IF reg THEN Materialised(joined) ELSE pool
      on   == {m \in want : ~Clash(P, m, ver[ResOf[m]])}
      Q    == [m \in Mem |-> IF m \in on THEN Decl(m, ver[ResOf[m]]) ELSE P[m]]
      off  == {m \in Mem : Is(m, "lost")}
  IN /\ IF reg THEN Register(joined) ELSE UNCHANGED <<session, made, declared>>
     /\ live' = [r \in Res |-> IF r \notin pass THEN lv[r]
                               ELSE IF \E m \in want \ on : ResOf[m] = r THEN "lost"
                               ELSE Target(r)]
     /\ \/ /\ i = 0 /\ pool' = Q /\ attached' = (att \cup on) \ off /\ ops' = O
        \/ LET seq == Order[res[i]]
               j   == ToDetach(seq, att)
           IN /\ i # 0 /\ pool' = [Q EXCEPT ![seq[j]] = 0]
              /\ attached' = (att \cup on) \ (off \cup Before(seq, j))
              /\ ops' = O \cup {Syncing(From(res, i), ver, From(seq, j))}
     /\ UNCHANGED <<state, replayed, net, ended, lapsed>>

Records == {r \in Res : joined[r] # 0}
SyncStart(o) ==
  /\ o.kind = "topology"
  /\ \E res \in SetToSeqs(Records) : SyncOn(ops \ {o}, joined, res, attached, live)
  /\ task' = task /\ Race(Records)

\* _detach has returned for the first member of todo.
SyncNext(o) ==
  LET m    == Head(o.todo)
      rest == Tail(o.todo)
      j    == ToDetach(rest, attached)
  IN /\ o.kind = "sync"
     /\ task' = Drained(m, FALSE)
     /\ \/ /\ j # 0
           /\ attached' = attached \ ({m} \cup Before(rest, j))
           /\ pool' = [pool EXCEPT ![rest[j]] = 0]
           /\ Replace(o, {Syncing(o.res, o.ver, From(rest, j))})
           /\ UNCHANGED <<state, live, declared, replayed, net, ended, made, session, lapsed>>
        \/ /\ j = 0
           /\ SyncOn(ops \ {o}, o.ver, Tail(o.res), attached \ ToSet(o.todo),
                     [live EXCEPT ![Head(o.res)] = "lost"])
     /\ UNCHANGED raced

\* The broker stops; the dispatcher and the federation come back from their files,
\* a record is lost until topology says otherwise.
Restart ==
  /\ replayed
  /\ live' = [r \in Res |-> "lost"] /\ net' = [r \in Res |-> "lost"]
  /\ attached' = {} /\ declared' = {} /\ replayed' = FALSE
  /\ session' = FALSE /\ ops' = {}
  /\ UNCHANGED <<state, ended, pool, made, task, lapsed, raced>>

AllocationEnds(m) ==
  /\ m \in Allocated \ ended /\ joined[ResOf[m]] # 0
  /\ ended' = ended \cup {m}
  /\ UNCHANGED <<state, live, attached, declared, replayed, net, disp, lapsed, ops, raced>>

-----------------------------------------------------------------------------
(* Tasks. *)

\* BudgetLoadPolicy.eligible and pick_class.
Eligible == {m \in Mem : /\ joined[ResOf[m]] # 0 /\ live[ResOf[m]] = "ok" /\ m \notin ended}
Offered  == {ClassOf[m] : m \in Eligible}
Picked   == CHOOSE c \in Offered : \A d \in Offered : Rank[c] <= Rank[d]

\* _route_submit, after the usage refresh.  The dispatcher refuses a task that no
\* member of the pool can run; a task it knows and that has not failed is
\* answered from its record.
Submit(t) ==
  LET known == task[t].st \in {"QUEUED", "RUNNING", "DONE"} /\ task[t].class = Picked
      st    == IF known THEN task[t].st ELSE "QUEUED"
  IN /\ replayed /\ Offered # {}
     /\ session /\ \E m \in Mem : ClassOf[m] = Picked /\ pool[m] # 0
     /\ known \/ task[t].st \notin {"QUEUED", "RUNNING", "DONE"}    \* one pool per task id
     /\ task' = IF known THEN task
                ELSE [task EXCEPT ![t] = [st |-> "QUEUED", member |-> None, class |-> Picked]]
     /\ \E m \in Eligible : /\ ClassOf[m] = Picked
                            /\ ledger' = [ledger EXCEPT ![t] = [res |-> ResOf[m], member |-> None, st |-> st]]
     /\ lapsed' = lapsed \ {t}
     /\ UNCHANGED <<joined, plug, pool, made, session, ops, raced>>

\* _route_task: the dispatcher's state and placement replace the entry's.
Poll(t) ==
  LET e == ledger[t]
      d == task[t]
  IN /\ replayed /\ session /\ e # None
     /\ ledger' = [ledger EXCEPT ![t] =
          [st     |-> d.st,
           member |-> IF d.member # None \/ d.st \notin Final THEN d.member ELSE e.member,
           res    |-> IF d.member # None /\ d.member # e.member THEN ResOf[d.member] ELSE e.res]]
     /\ ledger' # ledger
     /\ UNCHANGED <<joined, plug, disp, lapsed, ops, raced>>

\* The dispatcher's own steps (external): place, finish, queue again.
TaskStep(t) ==
  /\ \/ \E m \in Mem : /\ task[t].st = "QUEUED" /\ Present(m) /\ ClassOf[m] = task[t].class
                       /\ task' = [task EXCEPT ![t].st = "RUNNING", ![t].member = m]
     \/ \E s \in {"DONE"} :
           task[t].st = "RUNNING" /\ task' = [task EXCEPT ![t].st = s]
     \/ /\ task[t].st = "RUNNING"
        /\ task' = [task EXCEPT ![t].st = "QUEUED", ![t].member = None]
  /\ UNCHANGED <<state, plug, pool, made, session, lapsed, ops, raced>>

\* The first pass of a topology change follows it without a suspension.
Pending == \E o \in ops : o.kind = "topology"
Routes ==
  \/ \E r \in Res, v \in 1..Versions : JoinStart(r, v)
  \/ \E r \in Res, c \in BOOLEAN : LeaveStart(r, c)
  \/ FirstRoute
  \/ \E t \in Tasks : Submit(t) \/ Poll(t)
Resumed(o) ==
  \/ JoinSized(o) \/ JoinFinish(o) \/ Rollback(o)
  \/ LeaveNext(o) \/ LeaveEnds(o)
  \/ SyncNext(o)
World ==
  \/ \E r \in Res, v \in {"present", "suspect", "lost"} : Deliver(r, v)
  \/ Restart
  \/ \E m \in Mem : AllocationEnds(m)
  \/ \E t \in Tasks : TaskStep(t)
Next ==
  \/ \E o \in ops : SyncStart(o)
  \/ ~Pending /\ (Routes \/ World \/ \E o \in ops : Resumed(o))

Spec == Init /\ [][Next]_vars

-----------------------------------------------------------------------------
Quiet == ops = {}

\* A resource that left has no member in any pool, if no two operations
\* overlapped on it: operations on different resources do not disturb each
\* other (_route_leave, _sync_attachments).
LeftIsGoneApart ==
  \A m \in Mem : pool[m] # 0 =>
    joined[ResOf[m]] # 0 \/ ResOf[m] \in raced \cup Busy

\* What the policy may pick is served: every member of a record that is `ok' is
\* in its pool, under the declaration it joined with.
JoinedIsServed ==
  \A m \in Mem : LET r == ResOf[m] IN
    joined[r] # 0 /\ live[r] = "ok" /\ r \notin raced \cup Busy =>
      /\ m \in attached /\ session
      /\ pool[m] = Decl(m, joined[r])

\* A record is `ok' only while its endpoint is present, as of the last topology
\* that has been applied (_sync_attachments).
OkIsPresent ==
  Quiet => \A r \in Res : joined[r] # 0 /\ live[r] = "ok" /\ r \notin raced => net[r] = "present"

\* A task that was accepted and has not ended can be polled: a leave keeps or
\* cancels it, but does not lose its entry (drop_resource).
LiveTaskKnown ==
  \A t \in Tasks : task[t].st \in {"QUEUED", "RUNNING"} => ledger[t] # None \/ t \in lapsed

\* The ledger does not place a live task on a resource that has left.
PlacedIsJoined ==
  \A t \in Tasks : ledger[t] # None /\ ledger[t].st \notin Final /\ ledger[t].member # None =>
     LET r == ResOf[ledger[t].member] IN joined[r] # 0 \/ r \in raced

\* Records, pools and topology agree: what left is gone, what joined and is
\* `ok' is served, and `ok' means present (_route_join, _route_leave,
\* _sync_attachments, _replay_attachments).
MembersSound == TypeOK /\ LeftIsGoneApart /\ JoinedIsServed /\ OkIsPresent

\* The ledger knows the live tasks, and where they are (drop_resource,
\* _cancel_ledger, _route_task).
LedgerSound == LiveTaskKnown /\ PlacedIsJoined

-----------------------------------------------------------------------------
(* What the proofs need besides. *)

\* A suspended operation holds what it needs to go on.
OpType(o) ==
  \/ /\ o.kind = "join" /\ o.r \in Res /\ o.v \in 1..Versions
     /\ o.live \in {"unread", "ok", "suspect", "lost"}
  \/ /\ o.kind = "rollback" /\ o.todo \in Seq(Mem) /\ o.todo # <<>>
     /\ \A m \in ToSet(o.todo) : ResOf[m] = ResOf[o.todo[1]]
  \/ /\ o.kind = "leave" /\ o.r \in Res /\ o.cancel \in BOOLEAN
     /\ o.todo \in Seq(Owns[o.r]) /\ o.todo # <<>>
  \/ o.kind = "cancel" /\ o.r \in Res /\ o.tasks \subseteq Tasks
  \/ o.kind = "topology"
  \/ /\ o.kind = "sync" /\ o.res \in Seq(Res) /\ o.res # <<>> /\ o.ver \in [Res -> 0..Versions]
     /\ o.todo \in Seq(Owns[o.res[1]]) /\ o.todo # <<>>
OpsTyped == IsFiniteSet(ops) /\ \A o \in ops : OpType(o)

\* Before the first route or topology after a start nothing is under way; a
\* class with a joined member has its pool, and a session if there was a start.
Started ==
  /\ ~replayed => ops = {} /\ attached = {} /\ \A r \in Res : live[r] = "lost"
  /\ \A m \in Mem : joined[ResOf[m]] # 0 => ClassOf[m] \in made
  /\ \A r \in Res : joined[r] # 0 /\ replayed => session

\* Operations that have not met on a resource: at most one is at it, and what
\* it found there still holds.
OneAt(r) == \A o, p \in ops : r \in Touched(o) \cap Touched(p) => o = p
Holds(o, r) ==
  /\ o.kind = "join" => joined[r] = 0 /\ (o.live = "ok" => net[r] = "present")
  /\ o.kind # "rollback"
  /\ o.kind = "leave" => /\ joined[r] # 0
                         /\ \A m \in Owns[r] : /\ m \notin ToSet(Tail(o.todo)) => pool[m] = 0
                                               /\ m \in attached => m \in ToSet(o.todo)
  /\ o.kind = "cancel" => /\ joined[r] # 0
                          /\ \A m \in Owns[r] : pool[m] = 0 /\ m \notin attached
  /\ o.kind = "sync" => joined[r] # 0 /\ joined[r] = o.ver[r]

Draining(m) == \E o \in ops : o.kind \in {"leave", "sync"} /\ o.todo[1] = m
AtLeave(r)  == \E o \in ops : o.kind \in {"leave", "cancel"} /\ o.r = r
AtSync(r)   == \E o \in ops : o.kind = "topology" \/ (o.kind = "sync" /\ r \in ToSet(o.res))

\* A resource on which no two operations have overlapped.
ResSound(r) ==
  /\ OneAt(r)
  /\ \A o \in ops : r \in Touched(o) => Holds(o, r)
  /\ \A m \in Owns[r] :
       /\ pool[m] # 0 => joined[r] # 0
       /\ m \in attached /\ ~AtLeave(r) /\ ~Draining(m)
            => joined[r] # 0 /\ pool[m] = Decl(m, joined[r])
  /\ joined[r] # 0 /\ live[r] = "ok" =>
       /\ net[r] = "present" \/ AtSync(r)
       /\ r \notin Busy => Owns[r] \subseteq attached

\* A task runs on a member that its pool has or is about to lose, or that is
\* declared again at the start; the ledger's entry knows that it ended only when
\* it has, and the resource of the member it names.
TaskSound(t) ==
  /\ task[t].st \in {"NONE", "QUEUED"} => task[t].member = None
  /\ task[t].st = "RUNNING" =>
       /\ task[t].member # None
       /\ LET m == task[t].member IN
            \/ ResOf[m] \in raced \/ pool[m] # 0 \/ Draining(m)
            \/ ~replayed /\ joined[ResOf[m]] # 0
  /\ ledger[t] # None =>
       /\ task[t].st # "NONE"
       /\ ledger[t].st \in Final => task[t].st \in Final
       /\ ledger[t].member # None => ledger[t].res = ResOf[ledger[t].member]

IndInv ==
  /\ TypeOK /\ OpsTyped /\ Started
  /\ \A r \in Res \ raced : ResSound(r)
  /\ (\A t \in Tasks : TaskSound(t)) /\ LiveTaskKnown /\ PlacedIsJoined
=============================================================================
