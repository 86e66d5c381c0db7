------------------------------- MODULE Pilots -------------------------------
(***************************************************************************)
(* The pilots of one pool of the task dispatcher: the conservative policy  *)
(* (task_dispatcher_strategy_conservative.py) decides on submissions, a    *)
(* coroutine submits the batch job through psij, the topology tells of the *)
(* job's endpoint, a sweep asks psij about overdue pilots, and members and *)
(* sessions are removed with the pilots they have (plugin_task_dispatcher  *)
(* .py).  A member is grown by batch jobs (`submit') or is an endpoint     *)
(* that is adopted as the one pilot (`endpoint').  An action is what runs  *)
(* between two awaits.                                                     *)
(*                                                                         *)
(* The pool's file is rewritten as a whole on every change but one, the    *)
(* binding of the child's name: `unsaved' is what it lacks.  Tasks are in  *)
(* module Dispatcher, with the pausing of a suspect pilot; here the        *)
(* backlog and the budgets are open: at any tick any members may be wanted *)
(* and any may be out of budget.  What only waits for time to pass (dwell  *)
(* between submissions, the handshake timeout) may happen at any time.     *)
(***************************************************************************)
EXTENDS Naturals, Sequences, FiniteSets, SequencesExt

CONSTANTS Members,      \* member ids; also the name of a member's endpoint
          Pids,         \* pilot ids (bound); also the name of a job's endpoint
          None,
          Bare,         \* members whose endpoint serves no rhapsody
          MinPilots, MaxPilots,   \* of a member with batch jobs
          MaxInFlight,  \* max_in_flight_submissions
          MaxFailures   \* max_consecutive_failures

ASSUME PilotNames  == None \notin Members \cup Pids /\ Members \cap Pids = {}
ASSUME FiniteAssumption == IsFiniteSet(Pids)
ASSUME PilotBounds == /\ MinPilots \in Nat /\ MaxPilots \in Nat
                      /\ MaxInFlight \in Nat \ {0} /\ MaxFailures \in Nat \ {0}

PreActive == {"PENDING", "STARTING"}
LiveStates == PreActive \cup {"ACTIVE"}
Terminal  == {"DONE", "FAILED"}
Endpoints == Members \cup Pids
PilotRec  == [state: {"NONE"} \cup LiveStates \cup Terminal, member: Members \cup {None},
              adopted: BOOLEAN, job: BOOLEAN, child: Endpoints \cup {None},
              active: BOOLEAN]

VARIABLES
  open,       \* the pool is in _pool_states
  owner,      \* its session is live
  order,      \* members in the order of their declaration
  mode,       \* how each member is grown
  pilot,      \* pilot records
  unsaved,    \* pilots whose child name is not in the saved file
  fails,      \* policy: consecutive failures, up to MaxFailures
  paused,     \* policy: members inside their backoff window
  co,         \* _do_pilot_submit and _do_pilot_cancel coroutines
  sweep,      \* the _reconcile_pilot coroutine, if any
  jobs,       \* batch jobs (external)
  net,        \* endpoints in the last topology
  stray       \* jobs that were let go: lost, refused, or forgotten in a crash

pool   == <<open, owner, order, mode>>
policy == <<fails, paused>>
world  == <<jobs, net>>
vars   == <<pool, pilot, unsaved, policy, co, sweep, world, stray>>

\* Every variable keeps its type; the policy's counter stays in its range.
TypeOK ==
  /\ open \in BOOLEAN /\ owner \in BOOLEAN
  /\ order \in Seq(Members)
  /\ mode \in [Members -> {"submit", "endpoint"}]
  /\ pilot \in [Pids -> PilotRec]
  /\ unsaved \subseteq Pids
  /\ fails \in [Members -> 0..MaxFailures]
  /\ paused \subseteq Members
  /\ co \subseteq [pid: Pids, pc: {"client", "submitting", "undo", "start", "cancelling"}]
  /\ sweep \in {None} \cup [pid: Pids, said: {"nothing", "ended", "alive"}]
  /\ jobs \in [Pids -> {"none", "queued", "running", "ended"}]
  /\ net \subseteq Endpoints
  /\ stray \subseteq Pids

NoPilot == [state |-> "NONE", member |-> None, adopted |-> FALSE, job |-> FALSE,
            child |-> None, active |-> FALSE]

Init ==
  /\ open = TRUE /\ owner = TRUE
  /\ order = <<>>
  /\ mode = [m \in Members |-> "submit"]
  /\ pilot = [p \in Pids |-> NoPilot]
  /\ unsaved = {}
  /\ fails = [m \in Members |-> 0]
  /\ paused = {}
  /\ co = {} /\ sweep = None
  /\ jobs = [p \in Pids |-> "none"]
  /\ net = {}
  /\ stray = {}

-----------------------------------------------------------------------------
(* Records and the policy's view of them. *)

Ended(p)       == pilot[p].state \in Terminal
LivePilots     == {p \in Pids : pilot[p].state \in LiveStates}
LiveFor(m)     == {p \in LivePilots : pilot[p].member = m}
InFlight(S)    == {p \in S : pilot[p].state \in PreActive}
Declared       == ToSet(order)

\* PoolMember.__post_init__: an endpoint is one pilot, no more and no less.
FloorOf(m)     == IF mode[m] = "endpoint" THEN 1 ELSE MinPilots
CeilingOf(m)   == IF mode[m] = "endpoint" THEN 1 ELSE MaxPilots

\* on_pilot_state for every pilot whose state differs between pilot and q: a
\* pilot that never was active and failed is charged to its member.
NewlyActive(q, m) == \E p \in Pids : /\ q[p].member = m /\ q[p].state = "ACTIVE"
                                     /\ pilot[p].state # "ACTIVE"
ChargedTwice(q, m) ==                                  \* mutant: any failure counts
  {p \in Pids : q[p].member = m /\ q[p].state = "FAILED" /\ q # pilot}
Charged(q, m) ==
  {p \in Pids : /\ q[p].member = m /\ q[p].state = "FAILED"
                /\ pilot[p].state \in PreActive \cup {"NONE"}}
Least(a, b) == IF a < b THEN a ELSE b
Signal(q) ==
  /\ fails' = [m \in Members |->
                 IF NewlyActive(q, m) THEN 0
                 ELSE Least(MaxFailures, fails[m] + Cardinality(Charged(q, m)))]
  /\ paused' = {m \in Members : /\ ~NewlyActive(q, m)
                                /\ \/ m \in paused
                                   \/ Charged(q, m) # {} /\ fails'[m] = MaxFailures}

\* The records become q, the file is rewritten and the policy is told.
Write(q) == pilot' = q /\ unsaved' = {} /\ Signal(q)

\* _finalize_pilot, whatever state the record is in.
Finalize(p, st) == Write([pilot EXCEPT ![p].state = st])

-----------------------------------------------------------------------------
(* on_topology_change and _reconcile_pilots_for.  st is the end of a pilot *)
(* with a batch job that is lost: DONE at its walltime, else FAILED.       *)

\* _activate_pilot
Activate(r) ==
  IF r.adopted /\ r.child \in Bare THEN [r EXCEPT !.state = "FAILED"]
  ELSE [r EXCEPT !.state = "ACTIVE", !.active = TRUE]

Reconciled(r, liveness, st) ==
  IF r.state \notin LiveStates \/ r.child = None THEN r
  ELSE CASE liveness = "present" /\ r.state \in PreActive -> Activate(r)
         [] liveness = "lost" -> [r EXCEPT !.state = IF r.adopted THEN "DONE" ELSE st]
         [] OTHER -> r

\* The records of q after a delivery in which endpoint x is v and the others
\* are as in the last topology.
Seen(r, x, v) == IF r.child = x THEN v ELSE IF r.child \in net THEN "present" ELSE "absent"
ReconcileAll(q, x, v, st) == [p \in Pids |-> Reconciled(q[p], Seen(q[p], x, v), st)]

\* Bound: what becomes of a job that nobody looks at any more is left open.
Watched(x) == x \in Pids => pilot[x].state \in LiveStates \/ \E c \in co : c.pid = x

\* A batch job's endpoint registers only while the job runs; an endpoint that
\* stays away is reported as lost, once.
Deliver(x, v, st) ==
  LET q == ReconcileAll(pilot, x, v, st) IN
  /\ Watched(x)
  /\ \/ v = "present" /\ x \notin net /\ (x \in Pids => jobs[x] = "running")
     \/ v = "lost" /\ x \in net
  /\ net' = IF v = "lost" THEN net \ {x} ELSE net \cup {x}
  /\ stray' = stray \cup {p \in Pids : v = "lost" /\ p = x}
  /\ IF open /\ q # pilot THEN Write(q) ELSE UNCHANGED <<pilot, unsaved, policy>>
  /\ UNCHANGED <<pool, co, sweep, jobs>>

-----------------------------------------------------------------------------
(* ConservativePolicy.on_tick and _submit_pilot. *)

BelowCap(m)   == Cardinality(LiveFor(m)) < CeilingOf(m)

\* _pass_guards
PassGuards(m) ==
  /\ m \notin paused
  /\ BelowCap(m)
  /\ Cardinality(InFlight(LiveFor(m))) < MaxInFlight

First(S) == order[CHOOSE i \in DOMAIN order : /\ order[i] \in S
                                              /\ \A j \in 1..(i - 1) : order[j] \notin S]

\* F: members of the floor that pass the guards and have budget left.  The
\* first of them in the order of declaration; when there is none, the backlog
\* grows any member that is wanted.  `funded' and `wanted' are open.
Floor == {m \in Declared : Cardinality(LiveFor(m)) < FloorOf(m)}
Chosen(m, funded, wanted) ==
  LET F == {n \in Floor \cap funded : PassGuards(n)} IN
  /\ PassGuards(m) /\ m \in funded
  /\ IF F # {} THEN m = First(F) ELSE m \in wanted

Most(a, b) == IF a > b THEN a ELSE b
UnderPoolCeiling == Cardinality(InFlight(LivePilots)) < Most(MaxInFlight, Len(order))

NewPilot(m) == [NoPilot EXCEPT !.state = "PENDING", !.member = m,
                               !.adopted = (mode[m] = "endpoint"),
                               !.child = IF mode[m] = "endpoint" THEN m ELSE None]

\* A pilot is recorded and saved.  A batch job is submitted by a coroutine;
\* an endpoint is adopted by applying the last topology to all records.
Tick(m, p) ==
  LET q == [pilot EXCEPT ![p] = NewPilot(m)] IN
  /\ open /\ owner /\ sweep = None
  /\ \E funded, wanted \in SUBSET Declared : Chosen(m, funded, wanted)
  /\ UnderPoolCeiling
  /\ pilot[p].state = "NONE"
  /\ \/ /\ mode[m] = "submit"
        /\ Write(q)
        /\ co' = co \cup {[pid |-> p, pc |-> "client"]}
     \/ /\ mode[m] = "endpoint"
        /\ Write(ReconcileAll(q, None, "absent", "FAILED"))
        /\ UNCHANGED co
  /\ UNCHANGED <<pool, sweep, world, stray>>

-----------------------------------------------------------------------------
(* _do_pilot_submit. *)

Move(c, pc) == co' = (co \ {c}) \cup {[c EXCEPT !.pc = pc]}

\* _get_psij_client returned: without a client the pilot fails; with one the
\* child's name is bound, but not yet saved, and psij is asked.
ClientReady(c) ==
  /\ c.pc = "client"
  /\ pilot' = [pilot EXCEPT ![c.pid].child = c.pid]
  /\ unsaved' = unsaved \cup {c.pid}
  /\ Move(c, "submitting")
  /\ UNCHANGED <<pool, policy, sweep, world, stray>>

NoClient(c) ==
  /\ c.pc = "client"
  /\ Finalize(c.pid, "FAILED")
  /\ co' = co \ {c}
  /\ UNCHANGED <<pool, sweep, world, stray>>

ReturnsBlind(c) ==                                     \* mutant: nothing is looked at
  /\ c.pc = "submitting" /\ jobs[c.pid] # "none"
  /\ Write([pilot EXCEPT ![c.pid].job = TRUE, ![c.pid].state = "STARTING"])
  /\ co' = co \ {c}
  /\ UNCHANGED <<pool, sweep, world, stray>>

ReturnsNoUndo(c) ==                                    \* mutant: the job is kept
  /\ c.pc = "submitting" /\ jobs[c.pid] # "none"
  /\ IF Ended(c.pid) THEN UNCHANGED <<pilot, unsaved, policy>>
     ELSE Write([pilot EXCEPT ![c.pid].job = TRUE, ![c.pid].state =
                                IF @ = "PENDING" THEN "STARTING" ELSE @])
  /\ co' = co \ {c}
  /\ UNCHANGED <<pool, sweep, world, stray>>

\* submit_tunneled returned.  A pilot that has ended meanwhile has its job
\* cancelled; one whose child was faster stays ACTIVE.
SubmitReturns(c) ==
  /\ c.pc = "submitting" /\ jobs[c.pid] # "none"
  /\ IF Ended(c.pid)
     THEN Move(c, "undo") /\ UNCHANGED <<pilot, unsaved, policy>>
     ELSE /\ Write([pilot EXCEPT ![c.pid].job = TRUE, ![c.pid].state =
                                   IF @ = "PENDING" THEN "STARTING" ELSE @])
          /\ co' = co \ {c}
  /\ UNCHANGED <<pool, sweep, world, stray>>

\* It raised, perhaps after psij had taken the job.
SubmitRaises(c) ==
  /\ c.pc = "submitting"
  /\ Finalize(c.pid, "FAILED")
  /\ co' = co \ {c}
  /\ stray' = stray \cup {c.pid}
  /\ UNCHANGED <<pool, sweep, world>>

\* psij_c.cancel_job for a job that came too late, with or without success.
Undo(c, ok) ==
  /\ c.pc = "undo"
  /\ co' = co \ {c}
  /\ jobs' = [jobs EXCEPT ![c.pid] = IF ok THEN "ended" ELSE @]
  /\ stray' = IF ok THEN stray ELSE stray \cup {c.pid}
  /\ UNCHANGED <<pool, pilot, unsaved, policy, sweep, net>>

-----------------------------------------------------------------------------
(* _do_pilot_cancel. *)

EndOnCancel(p) == IF pilot[p].adopted THEN "DONE" ELSE "FAILED"

\* Up to its first await.  An adopted pilot is released, one without a job id
\* fails at once; for the others psij is asked, if there is a client.
CancelStart(c) ==
  /\ c.pc = "start"
  /\ \/ /\ Ended(c.pid)
        /\ co' = co \ {c}
        /\ UNCHANGED <<pilot, unsaved, policy, stray>>
     \/ /\ ~Ended(c.pid) /\ (pilot[c.pid].adopted \/ ~pilot[c.pid].job)
        /\ Finalize(c.pid, EndOnCancel(c.pid))
        /\ co' = co \ {c}
        /\ UNCHANGED stray
     \/ /\ ~Ended(c.pid) /\ pilot[c.pid].job
        /\ Move(c, "cancelling")
        /\ UNCHANGED <<pilot, unsaved, policy, stray>>
  /\ UNCHANGED <<pool, sweep, world>>

\* psij answered or could not be reached: FAILED, whatever the state is now.
CancelReturns(c, ok) ==
  /\ c.pc = "cancelling"
  /\ Finalize(c.pid, "FAILED")
  /\ co' = co \ {c}
  /\ jobs' = [jobs EXCEPT ![c.pid] = IF ok THEN "ended" ELSE @]
  /\ stray' = IF ok THEN stray ELSE stray \cup {c.pid}
  /\ UNCHANGED <<pool, sweep, net>>

-----------------------------------------------------------------------------
(* _reconcile_overdue_pilots, a part of the housekeeping loop.             *)

\* An adopted pilot that is overdue fails; one with a job id is asked about.
SweepStart(p) ==
  /\ open /\ sweep = None
  /\ pilot[p].state \in PreActive
  /\ \/ /\ pilot[p].adopted
        /\ Finalize(p, "FAILED")
        /\ UNCHANGED sweep
     \/ /\ ~pilot[p].adopted /\ pilot[p].job
        /\ sweep' = [pid |-> p, said |-> "nothing"]
        /\ UNCHANGED <<pilot, unsaved, policy>>
  /\ UNCHANGED <<pool, co, world, stray>>

\* psij looks at the job (external); the answer is on its way.
SweepAnswered ==
  /\ sweep # None /\ sweep.said = "nothing"
  /\ sweep' = [sweep EXCEPT !.said = IF jobs[sweep.pid] = "ended" THEN "ended" ELSE "alive"]
  /\ UNCHANGED <<pool, pilot, unsaved, policy, co, world, stray>>

\* The answer counts whatever became of the pilot; without one nothing happens.
SweepEnds ==
  /\ sweep # None
  /\ sweep' = None
  /\ IF sweep.said = "ended" THEN Finalize(sweep.pid, "FAILED")
                           ELSE UNCHANGED <<pilot, unsaved, policy>>
  /\ UNCHANGED <<pool, co, world, stray>>

-----------------------------------------------------------------------------
(* Members and sessions. *)

\* _route_add_member: a new member, or another mode for one that is there.
AddMember(m, how) ==
  /\ open /\ owner
  /\ m \notin Declared \/ mode[m] # how
  /\ order' = IF m \in Declared THEN order ELSE Append(order, m)
  /\ mode' = [mode EXCEPT ![m] = how]
  /\ unsaved' = {}
  /\ UNCHANGED <<open, owner, pilot, policy, co, sweep, world, stray>>

\* _route_remove_member up to its first await: the member's pilots are
\* paused, the policy forgets the member, and the pilots are cancelled one
\* after the other (here: in any order).
RemoveMember(m) ==
  /\ open /\ owner /\ m \in Declared
  /\ order' = RemoveFirst(order, m)
  /\ fails' = [fails EXCEPT ![m] = 0]
  /\ paused' = paused \ {m}
  /\ unsaved' = {}
  /\ co' = co \cup {[pid |-> p, pc |-> "start"] : p \in LiveFor(m)}
  /\ UNCHANGED <<open, owner, mode, pilot, sweep, world, stray>>

\* _teardown_session_pools: the pool is dropped and its pilots are cancelled.
CloseSession ==
  /\ open /\ owner
  /\ open' = FALSE /\ owner' = FALSE
  /\ co' = co \cup {[pid |-> p, pc |-> "start"] : p \in LivePilots}
  /\ UNCHANGED <<order, mode, pilot, unsaved, policy, sweep, world, stray>>

\* register_session of the owner, after a restart.
RegisterSession ==
  /\ open /\ ~owner
  /\ owner' = TRUE
  /\ UNCHANGED <<open, order, mode, pilot, unsaved, policy, co, sweep, world, stray>>

\* The broker's process ends and starts again: _replay_state makes the pool
\* of its file and a fresh policy; nobody has connected yet.
Restart ==
  /\ open' = TRUE /\ owner' = FALSE
  /\ pilot' = [p \in Pids |-> IF p \in unsaved THEN [pilot[p] EXCEPT !.child = None] ELSE pilot[p]]
  /\ unsaved' = {}
  /\ fails' = [m \in Members |-> 0]
  /\ paused' = {}
  /\ stray' = stray \cup {c.pid : c \in co}
  /\ co' = {} /\ sweep' = None
  /\ net' = {}
  /\ UNCHANGED <<order, mode, jobs>>

-----------------------------------------------------------------------------
(* Time and batch jobs. *)

BackoffOver(m) ==
  /\ m \in paused
  /\ paused' = paused \ {m}
  /\ UNCHANGED <<pool, pilot, unsaved, fails, co, sweep, world, stray>>

\* psij takes the job of a coroutine that waits for it; jobs start and end.
JobStep(p, to) ==
  /\ Watched(p)
  /\ CASE to = "queued"  -> jobs[p] = "none" /\ [pid |-> p, pc |-> "submitting"] \in co
       [] to = "running" -> jobs[p] = "queued"
       [] to = "ended"   -> jobs[p] \in {"queued", "running"}
  /\ jobs' = [jobs EXCEPT ![p] = to]
  /\ UNCHANGED <<pool, pilot, unsaved, policy, co, sweep, net, stray>>

-----------------------------------------------------------------------------
Coroutines == \E c \in co : \/ ClientReady(c) \/ NoClient(c)
                            \/ SubmitReturns(c) \/ SubmitRaises(c)
                            \/ CancelStart(c)
                            \/ \E ok \in BOOLEAN : Undo(c, ok) \/ CancelReturns(c, ok)

Housekeeping == \/ \E m \in Members, p \in Pids : Tick(m, p)
                \/ \E p \in Pids : SweepStart(p)
                \/ SweepAnswered \/ SweepEnds
                \/ \E m \in Members : BackoffOver(m)

Requests == \/ \E m \in Members : RemoveMember(m) \/ \E how \in {"submit", "endpoint"} : AddMember(m, how)
            \/ CloseSession \/ RegisterSession

Topology == \E x \in Endpoints, v \in {"present", "lost"}, st \in Terminal : Deliver(x, v, st)

Jobs == \E p \in Pids, to \in {"queued", "running", "ended"} : JobStep(p, to)

Next == Coroutines \/ Housekeeping \/ Requests \/ Topology \/ Jobs \/ Restart
Spec == Init /\ [][Next]_vars

-----------------------------------------------------------------------------
(* Properties. *)

\* A pilot's state only goes forward: a submission that returns late neither
\* revives a pilot that was cancelled or lost nor demotes one whose endpoint
\* was faster than psij, and a restart loses no transition.
Rank(st) == CASE st = "NONE" -> 0 [] st = "PENDING" -> 1 [] st = "STARTING" -> 2
              [] st = "ACTIVE" -> 3 [] st \in Terminal -> 4
PilotForward == [][\A p \in Pids : Rank(pilot'[p].state) >= Rank(pilot[p].state)]_vars

\* A batch job that is queued or runs belongs to a live pilot, or a coroutine
\* is about to cancel it; otherwise its endpoint was lost, psij refused, or
\* the broker's process ended during its submission.
JobsAreOwned ==
  \A p \in Pids : (jobs[p] \in {"queued", "running"} /\ Ended(p) /\ p \notin stray)
                    => \E c \in co : c.pid = p

\* The policy holds no more failures against a member than pilots of it
\* failed without ever being active, however often a pilot is finalized.
ChargedOnce ==
  \A m \in Members :
    fails[m] <= Cardinality({p \in Pids : /\ pilot[p].member = m /\ pilot[p].state = "FAILED"
                                          /\ ~pilot[p].active})

\* No two live pilots stand for the same endpoint, although endpoints are
\* adopted, left, declared anew and adopted again.
OneEndpointOnePilot ==
  \A p, q \in LivePilots :
    (p # q /\ pilot[p].child # None) => pilot[p].child # pilot[q].child

\* A pilot that waits for its batch job has a job id to be asked about, or a
\* submission is under way; only a restart may lose it.
PendingIsAttended ==
  \A p \in Pids : (pilot[p].state = "PENDING" /\ ~pilot[p].adopted /\ p \notin stray)
                    => \E c \in co : c.pid = p

\* The pilots of a pool are sound: typed, counted once against their member,
\* and one to an endpoint (_submit_pilot, on_pilot_state).
PilotsSound == TypeOK /\ ChargedOnce /\ OneEndpointOnePilot

\* No batch job is forgotten: one that runs has an owner, and a pilot that
\* waits for one is attended to (_do_pilot_submit, _reconcile_overdue_pilots).
JobsSound == JobsAreOwned /\ PendingIsAttended

-----------------------------------------------------------------------------
(* What the proofs need besides. *)

\* A pilot with an adopted endpoint has its member's, and no job; one with a
\* batch job has the endpoint of the job once its name is bound.
RecordSound(p, r) ==
  /\ r.state \in PreActive \cup {"NONE"} => ~r.active
  /\ r.state = "NONE" => ~r.adopted
  /\ r.adopted => r.child = r.member /\ r.member \in Members /\ ~r.job
  /\ ~r.adopted => r.child \in {None, p}
RecordsSound == /\ \A p \in Pids : RecordSound(p, pilot[p])
                /\ \A p \in unsaved : ~pilot[p].adopted

\* What coroutines know of their pilot while they wait.
CoSound(c) ==
  /\ pilot[c.pid].state # "NONE"
  /\ c.pc # "start" => ~pilot[c.pid].adopted
  /\ c.pc = "client" => /\ jobs[c.pid] = "none" /\ ~pilot[c.pid].job
                        /\ \A d \in co : d.pid = c.pid => d.pc \in {"client", "start"}
  /\ c.pc = "undo" => Ended(c.pid)
WaitersSound == /\ \A c \in co : CoSound(c)
                /\ sweep # None /\ sweep.said = "ended" => jobs[sweep.pid] = "ended"

\* A job whose pilot has ended, or does not know it, has a coroutine that does.
JobOf(p) ==
  /\ pilot[p].state = "NONE" \/ pilot[p].adopted => jobs[p] = "none"
  /\ jobs[p] \in {"queued", "running"} /\ p \notin stray /\ (Ended(p) \/ ~pilot[p].job)
       => \E c \in co : c.pid = p /\ c.pc \in {"submitting", "undo", "cancelling"}
  /\ pilot[p].state = "PENDING" /\ ~pilot[p].adopted /\ p \notin stray
       => \E c \in co : c.pid = p

IndInv == /\ TypeOK /\ RecordsSound /\ WaitersSound /\ (\A p \in Pids : JobOf(p))
          /\ ChargedOnce /\ OneEndpointOnePilot
=============================================================================
