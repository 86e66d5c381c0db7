------------------------------ MODULE Placement ------------------------------
(***************************************************************************)
(* Which member and which pilot of a pool may run a task: the requirements *)
(* of a submission, the gate that refuses what no member can host, the     *)
(* growth of a member for the backlog, the choice of a pilot, and members  *)
(* that join and leave meanwhile (plugin_task_dispatcher,                  *)
(* task_dispatcher_match, task_dispatcher_strategy_conservative).          *)
(*                                                                         *)
(* The bookkeeping of claims, late events and restarts is in Dispatcher,   *)
(* that of batch jobs in Pilots: a rhapsody or psij call is one step here. *)
(***************************************************************************)
EXTENDS Integers, FiniteSets, FiniteSetsExt, SequencesExt

CONSTANTS
  PlTasks,     \* client-chosen task ids
  PlPilots,    \* live pilots of the pool; the record of an ended one is reused
  PlMembers,   \* member ids
  PlDecls,     \* member declarations: [size, sizes, attributes]
  PlRaws,      \* requirements blocks as submitted, 0 for an absent number
  PlLegacy,    \* the declaration of a legacy pool's implicit member
  NoPilot,     \* pilot_id None
  NoDecl,      \* a member that is not declared
  NoReq,       \* the requirements of a task that has ended
  PlRequeues,  \* policy.max_requeues
  PlFloor      \* min_pilots of a member

\* Sizes and requirements are numbers; the names of nothing are no names.
ASSUME PlacementConstants ==
  /\ IsFiniteSet(PlTasks) /\ PlRequeues \in Nat
  /\ NoPilot \notin PlPilots /\ NoDecl \notin PlDecls \cup {PlLegacy}
  /\ \A d \in PlDecls \cup {PlLegacy} : d.size.cpus \in Nat /\ d.size.gpus \in Nat
  /\ \A raw \in PlRaws : /\ {"cores", "ranks", "gpus"} \subseteq DOMAIN raw
                         /\ raw.cores \in Nat /\ raw.ranks \in Nat /\ raw.gpus \in Nat

VARIABLE fleet \* the pool: its kind, members, pilots, tasks and removals

plVars == <<fleet>>

----------------------------------------------------------------------------
(* Requirements *)

\* 'ranks' without 'cores' means that many processes.
DerivedCores(raw) == IF raw.cores = 0 /\ raw.ranks > 1 THEN raw.ranks ELSE raw.cores
Parsed(raw) == [raw EXCEPT !.cores = DerivedCores(raw)]

\* What _REQ_DEFAULTS says of an absent number.
OrOne(n) == IF n = 0 THEN 1 ELSE n
ShapeValid(raw) ==
  LET r == Parsed(raw) IN
  /\ OrOne(r.cores) >= OrOne(r.ranks)
  /\ r.gpus % OrOne(r.ranks) = 0

NO_MPI_BACKENDS == {"dragon_v1"}

\* satisfies() returns None.  Labels map a key to the values it may have.
Satisfies(r, attributes, size) ==
  /\ r.software \subseteq attributes.software
  /\ r.cores <= size.cpus /\ r.gpus <= size.gpus
  /\ attributes.mem # 0 => r.mem <= attributes.mem
  /\ \A k \in DOMAIN r.labels : /\ k \in DOMAIN attributes.labels
                                /\ r.labels[k] \in attributes.labels[k]
  /\ r.mpi => size.backend \notin NO_MPI_BACKENDS

\* reject_reason() is None: judged on the size the member is grown with.
Accepts(decl, r) == Satisfies(r, decl.attributes, decl.size)
Declared(f) == {m \in PlMembers : f.decl[m] # NoDecl}
SomeMember(f, r) == \E m \in Declared(f) : Accepts(f.decl[m], r)

\* check_requirements_against_pool.  A legacy pool passes when some size fits,
\* one dimension at a time, and looks at no attribute.
GateClass(f, r) == SomeMember(f, r)
GateLegacy(f, r) ==
  LET sizes == PlLegacy.sizes IN
  /\ \E z \in sizes : OrOne(r.cores) <= z.cpus
  /\ \E z \in sizes : r.gpus <= z.gpus
  /\ r.mpi => \E z \in sizes : z.backend \notin NO_MPI_BACKENDS
Gate(f, r) == IF f.kind = "class" THEN GateClass(f, r) ELSE GateLegacy(f, r)

\* backend_kwargs: what the pilot's backend is asked for, its own defaults
\* where nothing is emitted.
Asked(r, backend) ==
  LET R == OrOne(r.ranks)
      per == [ranks |-> R, cores |-> 1, gpus |-> r.gpus \div R]
      bare == [ranks |-> 1, cores |-> 1, gpus |-> 0]
  IN CASE backend = "radical_pilot" -> [per EXCEPT !.cores = OrOne(r.cores) \div R]
       [] backend = "dragon_v2"     -> per
       [] backend = "dragon_v3"     -> IF r.mpi THEN [per EXCEPT !.gpus = 0] ELSE bare
       [] backend = "dragon_v1"     -> [per EXCEPT !.gpus = 0]
       [] backend = "dask"          -> [bare EXCEPT !.gpus = r.gpus]
       [] OTHER                     -> bare

----------------------------------------------------------------------------
(* Dispatch *)

Live(f)      == {p \in PlPilots : f.pilot[p].st # "gone"}
LiveOf(f, m) == {p \in Live(f) : f.pilot[p].member = m}

\* The elements of a queue that are in S.
KeptOf(q, S) ==
  LET Kept[n \in 0..Len(q)] ==
        IF n = 0 THEN <<>>
        ELSE IF q[n] \in S THEN Append(Kept[n - 1], q[n]) ELSE Kept[n - 1]
  IN Kept[Len(q)]
Pending(f) == KeptOf(f.order, {t \in PlTasks : f.task[t].st = "queued"})

\* nodes * cpus_per_node, with one node.
FreeCapacity(rec) ==
  IF rec.st = "active" /\ rec.open /\ rec.load < rec.decl.size.cpus
  THEN rec.decl.size.cpus - rec.load ELSE 0

\* A pilot is judged on its own snapshot, whatever its member declares now.
Serves(f, p, t) == LET d == f.pilot[p].decl IN Accepts(d, f.task[t].req)

Candidates(f, t) ==
  {p \in Live(f) : FreeCapacity(f.pilot[p]) > 0 /\ ~f.pilot[p].late /\ Serves(f, p, t)}

\* pick_dispatch and _claim for one task: the least loaded candidate.
DispatchOne(f, t) ==
  LET c == Candidates(f, t)
      p == CHOOSE x \in c : \A y \in c : f.pilot[x].load <= f.pilot[y].load
  IN IF f.task[t].st # "queued" \/ c = {} THEN f
     ELSE [f EXCEPT !.task[t] = [@ EXCEPT !.st = "running", !.pilot = p, !.waits = FALSE],
                    !.pilot[p].load = @ + 1]

\* _drain_pending: a task no pilot can take is skipped.  Claims only use slots
\* up, so one pass in queue order picks what the repeated picks pick.
DrainPending(f) ==
  LET q == Pending(f)
      Done[n \in 0..Len(q)] == IF n = 0 THEN f ELSE DispatchOne(Done[n - 1], q[n])
  IN Done[Len(q)]

\* A task that is not queued or running: "none" when a submission of its id
\* executes, never submitted, failed or canceled alike, else "done".  What else
\* the record of an ended task or pilot says is read no more.
OverTask(st) == [st |-> st, req |-> NoReq, pilot |-> NoPilot, tries |-> 0, waits |-> FALSE]
GonePilot == [st |-> "gone", member |-> NoPilot, decl |-> NoDecl,
              open |-> FALSE, load |-> 0, late |-> FALSE]

Held(f, S) == {t \in PlTasks : f.task[t].st = "running" /\ f.task[t].pilot \in S}

\* _mark_task_failed for each task of S, and every other end of a task.
PlEndTasks(f, S, st) ==
  LET Freed(p) == Cardinality({t \in S : f.task[t].pilot = p}) IN
  [f EXCEPT !.task  = [t \in PlTasks |-> IF t \in S THEN OverTask(st) ELSE f.task[t]],
            !.order = KeptOf(@, PlTasks \ S),
            !.pilot = [p \in PlPilots |->
                         [f.pilot[p] EXCEPT !.load = Max({0, @ - Freed(p)})]]]
PlEndTask(f, t, st) == PlEndTasks(f, {t}, st)

\* _finalize_pilot: the tasks are queued again, or failed past the limit.
FinalizePilot(f, p) ==
  LET mine   == Held(f, {p})
      tooOft == {t \in mine : f.task[t].tries + 1 > PlRequeues}
      freed  == [f EXCEPT !.pilot[p] = GonePilot,
                          !.task = [t \in PlTasks |->
                             IF t \notin mine THEN f.task[t]
                             ELSE [f.task[t] EXCEPT !.st = "queued", !.tries = @ + 1,
                                               !.pilot = NoPilot]]]
  IN PlEndTasks(freed, tooOft, "none")

----------------------------------------------------------------------------
NewTask(r) == [st |-> "queued", req |-> r, pilot |-> NoPilot, tries |-> 0, waits |-> FALSE]

\* pending_queue orders by priority, then by arrival.
Inserted(f, t, r) ==
  LET others == ToSet(f.order) \ {t}
      sooner == {x \in others : f.task[x].req.priority >= r.priority}
  IN KeptOf(f.order, sooner) \o <<t>> \o KeptOf(f.order, others \ sooner)

\* The gate runs before the cached record is looked at; a task that is queued,
\* running or done is answered as it is.
PlSubmit(t, raw) ==
  /\ fleet.task[t].st = "none"
  /\ ShapeValid(raw) /\ Gate(fleet, Parsed(raw))
  /\ fleet' = DrainPending([fleet EXCEPT !.order = Inserted(fleet, t, Parsed(raw)),
                                         !.task[t] = NewTask(Parsed(raw))])

\* Only a new member changes anything: the same declaration again is answered
\* with what is there, another one is a 409.
AddMember(m, d) ==
  /\ fleet.kind = "class" /\ fleet.decl[m] = NoDecl
  /\ fleet' = [fleet EXCEPT !.decl[m] = d]

\* The end of _route_remove_member: fail what no member left can run, or leave
\* it waiting for the member to come back.
Unservable(f) == {t \in PlTasks : f.task[t].st = "queued" /\ ~SomeMember(f, f.task[t].req)}
Swept(f, failThem) ==
  IF failThem THEN PlEndTasks(f, Unservable(f), "none")
  ELSE [f EXCEPT !.task = [t \in PlTasks |-> [f.task[t] EXCEPT !.waits = @ \/ t \in Unservable(f)]]]
RemovalEnds(f, m, failThem) ==
  DrainPending(Swept([f EXCEPT !.removal[m] = [on |-> FALSE, left |-> {}, failThem |-> FALSE]],
                     failThem))

\* Up to the first await: the pilots are paused, the member is gone, and with
\* cancel_tasks its tasks are failed.  Without pilots nothing is awaited.
\* Bound: a member is not removed again while its last removal is under way.
PlRemoveMember(m, cancelTasks, failThem) ==
  LET doomed == LiveOf(fleet, m)
      paused == [fleet EXCEPT !.decl[m] = NoDecl,
                   !.pilot = [p \in PlPilots |->
                                [fleet.pilot[p] EXCEPT !.open = @ /\ p \notin doomed]]]
      failed == IF cancelTasks THEN PlEndTasks(paused, Held(paused, doomed), "none") ELSE paused
  IN /\ fleet.kind = "class" /\ fleet.decl[m] # NoDecl /\ ~fleet.removal[m].on
     /\ fleet' = IF doomed = {} THEN RemovalEnds(failed, m, failThem)
                 ELSE [failed EXCEPT !.removal[m] =
                         [on |-> TRUE, left |-> doomed, failThem |-> failThem]]

\* A cancel of the loop returns, whether the pilot still lived or not.
RemovalCancels(m, p) ==
  LET r == fleet.removal[m]
      f == [FinalizePilot(fleet, p) EXCEPT !.removal[m].left = @ \ {p}]
  IN /\ r.on /\ p \in r.left
     /\ fleet' = IF r.left = {p} THEN RemovalEnds(f, m, r.failThem) ELSE f

\* Whom a tick may grow for: a member below its floor, or one that can run the
\* oldest task no live pilot could ever take, else the oldest.  Back-off,
\* dwell, ceilings and budgets may rule out any of them.
Runway(f, p) == IF f.pilot[p].late THEN 0 ELSE FreeCapacity(f.pilot[p])
Backlog(f) ==
  LET q        == Pending(f)
      hopeful  == {p \in Live(f) : \E i \in DOMAIN q : Serves(f, p, q[i])}
      free     == MapThenSumSet(LAMBDA p : Runway(f, p), hopeful)
      unserved == {i \in DOMAIN q : \A p \in Live(f) : ~Serves(f, p, q[i])}
      head     == q[IF unserved # {} THEN Min(unserved) ELSE 1]
  IN IF q = <<>> \/ (unserved = {} /\ Len(q) <= free) THEN {}
     ELSE {m \in Declared(f) : Accepts(f.decl[m], f.task[head].req)}

NewPilot(f, p, m) ==
  [f EXCEPT !.pilot[p] = [st |-> "pending", member |-> m, decl |-> f.decl[m],
                          open |-> TRUE, load |-> 0, late |-> FALSE]]
Spare(f) == {p \in PlPilots \ Live(f) : \A m \in PlMembers : p \notin f.removal[m].left}
Floor(f) == {m \in Declared(f) : Cardinality(LiveOf(f, m)) < PlFloor}
PlTick ==
  \/ fleet' = DrainPending(fleet)
  \/ \E m \in Floor(fleet) \cup Backlog(fleet), p \in Spare(fleet) : fleet' = DrainPending(NewPilot(fleet, p, m))

\* on_topology_change, for the child endpoint of one pilot.
ChildPresent(p) ==
  /\ fleet.pilot[p].st \in {"pending", "active"} /\ fleet.pilot[p].decl.size.cpus > 0
  /\ fleet' = IF fleet.pilot[p].st = "pending"
              THEN DrainPending([fleet EXCEPT !.pilot[p].st = "active"])
              ELSE IF fleet.pilot[p].open THEN fleet
              ELSE DrainPending([fleet EXCEPT !.pilot[p].open = TRUE])
ChildSuspect(p) ==
  /\ fleet.pilot[p].st = "active" /\ fleet' = [fleet EXCEPT !.pilot[p].open = FALSE]
ChildLost(p) ==
  /\ fleet.pilot[p].st \in {"pending", "active"}
  /\ fleet' = DrainPending(FinalizePilot(fleet, p))

\* A client cancels a pilot, or the sweeper gives up on its handshake.
PilotEnds(p) ==
  /\ fleet.pilot[p].st # "gone" /\ fleet' = FinalizePilot(fleet, p)

\* The pilot's walltime comes closer than min_remaining_sec.
RunsLate(p) ==
  /\ fleet.pilot[p].st = "active" /\ fleet' = [fleet EXCEPT !.pilot[p].late = TRUE]

TaskEnds(t) ==
  /\ fleet.task[t].st = "running"
  /\ \E st \in {"done", "none"} : fleet' = DrainPending(PlEndTask(fleet, t, st))
CancelTask(t) ==
  /\ fleet.task[t].st \in {"queued", "running"} /\ fleet' = PlEndTask(fleet, t, "none")

PlInit ==
  \E k \in {"class", "legacy"}, d \in PlDecls :
    fleet = [kind    |-> k,
             decl    |-> [m \in PlMembers |->
                            IF m # CHOOSE x \in PlMembers : TRUE THEN NoDecl
                            ELSE IF k = "class" THEN d ELSE PlLegacy],
             pilot   |-> [p \in PlPilots |-> GonePilot],
             task    |-> [t \in PlTasks |-> OverTask("none")],
             order   |-> <<>>,
             removal |-> [m \in PlMembers |-> [on |-> FALSE, left |-> {}, failThem |-> FALSE]]]

PlNext ==
  \/ \E t \in PlTasks, raw \in PlRaws : PlSubmit(t, raw)
  \/ \E m \in PlMembers, d \in PlDecls : AddMember(m, d)
  \/ \E m \in PlMembers, c, u \in BOOLEAN : PlRemoveMember(m, c, u)
  \/ \E m \in PlMembers, p \in PlPilots : RemovalCancels(m, p)
  \/ PlTick
  \/ \E p \in PlPilots : ChildPresent(p)
  \/ \E p \in PlPilots : ChildSuspect(p)
  \/ \E p \in PlPilots : ChildLost(p)
  \/ \E p \in PlPilots : PilotEnds(p)
  \/ \E p \in PlPilots : RunsLate(p)
  \/ \E t \in PlTasks : TaskEnds(t)
  \/ \E t \in PlTasks : CancelTask(t)

PlSpec == PlInit /\ [][PlNext]_plVars

----------------------------------------------------------------------------
\* The fields of a pool and the slots in use stay in their sets
\* (PilotRecord, TaskRecord).
PlTypeOK ==
  /\ \A p \in PlPilots : fleet.pilot[p].load \in 0..Cardinality(PlTasks)
  /\ \A t \in PlTasks : /\ fleet.task[t].pilot \in PlPilots \cup {NoPilot}
                        /\ fleet.task[t].tries \in 0..PlRequeues
                        /\ fleet.task[t].st = "queued" => fleet.task[t].pilot = NoPilot

\* A queued task of a class pool can be run by a member that is declared,
\* however members left and came back and pilots ended, unless a removal was
\* told to leave it waiting: nothing queues forever because the gate and the
\* sweep of a removal judge differently, or too early
\* (check_requirements_against_pool, _route_remove_member).
QueuedIsServable ==
  fleet.kind = "class" /\ (\A m \in PlMembers : ~fleet.removal[m].on)
  => \A t \in PlTasks : fleet.task[t].st = "queued" /\ ~fleet.task[t].waits
                        => SomeMember(fleet, fleet.task[t].req)

\* A running task is on a live pilot whose own node has what the task asked
\* for, also when its member has been removed and declared anew with another
\* shape meanwhile (pick_dispatch, the snapshot of _submit_pilot).
RunsWhereItFits ==
  \A t \in PlTasks : fleet.task[t].st = "running" =>
    LET p == fleet.task[t].pilot IN
    p \in Live(fleet) /\ Satisfies(fleet.task[t].req, fleet.pilot[p].decl.attributes,
                                   fleet.pilot[p].decl.size)

\* The ranks, cores and GPUs a backend is asked for together fit the node the
\* task was placed on (parse_requirements, backend_kwargs).
AskFits ==
  \A t \in PlTasks : fleet.task[t].st = "running" =>
    LET z == fleet.pilot[fleet.task[t].pilot].decl.size
        a == Asked(fleet.task[t].req, z.backend)
    IN a.ranks * a.cores <= z.cpus /\ a.ranks * a.gpus <= z.gpus
=============================================================================
