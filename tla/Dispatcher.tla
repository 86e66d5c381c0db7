----------------------------- MODULE Dispatcher -----------------------------
(***************************************************************************)
(* One pool of the task dispatcher (plugin_task_dispatcher.py and          *)
(* task_dispatcher_state.py): tasks are queued, claimed for pilots,        *)
(* submitted to the rhapsody of a pilot's endpoint, ended by its events,   *)
(* cancelled, and queued again when a pilot is lost.  All of it runs on    *)
(* one asyncio loop, so an action is what runs between two awaits; the     *)
(* coroutines that wait are kept in `submits' and `cancels'.  The pool is  *)
(* saved as one file (`disk'), from which a restart reads it back.  Pilots *)
(* are batch jobs of members with one pilot each, and every task matches   *)
(* every pilot; how pilots come to be is left out.                         *)
(*                                                                         *)
(* A task record is a Python object: a resubmission of a failed task makes *)
(* a new one under the same id, and coroutines keep the one they got.      *)
(***************************************************************************)
EXTENDS Naturals, FiniteSets

CONSTANTS Tasks,        \* task ids; the rhapsody uid is the same id
          Pilots,       \* pilot ids (bound: each pilot lives once)
          None,
          Capacity,     \* concurrent tasks of one pilot
          MaxRequeues,  \* the policy's max_requeues
          Outcomes,     \* the terminal states that rhapsody reports
          MaxTries      \* bound: submissions of one task id

Terminal == {"DONE", "FAILED", "CANCELED"}

ASSUME NoneAssumption == None \notin Pilots
ASSUME SizeAssumption == Capacity \in Nat \ {0} /\ MaxRequeues \in Nat /\ MaxTries \in Nat
ASSUME FiniteAssumption == IsFiniteSet(Tasks)
ASSUME OutcomeAssumption == Outcomes \subseteq Terminal

Objects   == Tasks \X (1..MaxTries)
PilotRec  == [state: {"NONE", "ACTIVE", "ENDED"}, accepting: BOOLEAN,
              inFlight: 0..Capacity]
TaskRec   == [state: {"NONE", "QUEUED", "RUNNING"} \cup Terminal, pilot: Pilots \cup {None},
              uid: BOOLEAN, requeues: 0..(MaxRequeues + 1), claims: Nat]
Pool      == [pilot: [Pilots -> PilotRec], task: [Objects -> TaskRec],
              cur: [Tasks -> 0..MaxTries]]
Execution == [obj: Objects, pilot: Pilots]

VARIABLES
  pool,       \* pilots, task records and the current record of each id
  disk,       \* the pool as it was last saved
  dirty,      \* a coalesced save is scheduled
  uidMap,     \* uids in _uid_to_task
  submits,    \* _do_rhapsody_submit coroutines
  cancels,    \* _cancel_task coroutines that wait for rhapsody
  execs,      \* what the pilots' rhapsody instances run
  events,     \* terminal events on their way to the tap
  doomed      \* pilots of a removed member, whose cancellation is under way

vars    == <<pool, disk, dirty, uidMap, submits, cancels, execs, events, doomed>>
waiters == <<submits, cancels>>
remote  == <<execs, events>>

\* Every variable keeps its type; a pilot's count of tasks stays in its range.
TypeOK ==
  /\ pool \in Pool /\ disk \in Pool
  /\ dirty \in BOOLEAN
  /\ uidMap \subseteq Tasks
  /\ submits \subseteq [objs: SUBSET Objects, pilot: Pilots, pc: {"prepare", "submit", "sent"}]
  /\ cancels \subseteq Execution
  /\ execs \subseteq Execution
  /\ events \subseteq [exec: Execution, outcome: Outcomes]
  /\ doomed \subseteq Pilots

EmptyPool ==
  [pilot |-> [p \in Pilots |-> [state |-> "NONE", accepting |-> TRUE, inFlight |-> 0]],
   task  |-> [o \in Objects |-> [state |-> "NONE", pilot |-> None, uid |-> FALSE,
                                 requeues |-> 0, claims |-> 0]],
   cur   |-> [t \in Tasks |-> 0]]

Init ==
  /\ pool = EmptyPool /\ disk = EmptyPool
  /\ dirty = FALSE
  /\ uidMap = {}
  /\ submits = {} /\ cancels = {}
  /\ execs = {} /\ events = {}
  /\ doomed = {}

-----------------------------------------------------------------------------
(* Pools as values: q is a pool, the result is the pool after it.          *)

Current(q)     == {o \in Objects : q.cur[o[1]] = o[2]}
Record(q, t)   == <<t, q.cur[t]>>
Ended(q, o)    == q.task[o].state \in Terminal
Queued(q)      == {o \in Current(q) : q.task[o].state = "QUEUED"}

\* max(0, in_flight - k)
Less(n, k)     == IF n < k THEN 0 ELSE n - k
Freed(q, S) ==
  [p \in Pilots |-> [q.pilot[p] EXCEPT !.inFlight =
                       Less(@, Cardinality({o \in S : q.task[o].pilot = p}))]]

\* _mark_task_failed for each record of S (and the same for another state):
\* whatever state the record is in, and with the pilot it has now.
EndTasks(q, S, st) ==
  [q EXCEPT !.pilot = Freed(q, S),
            !.task  = [o \in Objects |-> IF o \in S THEN [q.task[o] EXCEPT !.state = st]
                                                    ELSE q.task[o]]]

\* free_capacity
Free(q, p) == IF q.pilot[p].state = "ACTIVE" /\ q.pilot[p].accepting
              THEN Less(Capacity, q.pilot[p].inFlight) ELSE 0

\* What one _drain_pending may claim: queued records go to pilots with free
\* slots until either is used up; the policy's order is left open.
Share(a, p) == {o \in DOMAIN a : a[o] = p}
Claims(q) ==
  {a \in UNION {[D -> Pilots] : D \in SUBSET Queued(q)} :
     /\ \A p \in Pilots : Cardinality(Share(a, p)) <= Free(q, p)
     /\ \/ DOMAIN a = Queued(q)
        \/ \A p \in Pilots : Cardinality(Share(a, p)) = Free(q, p)}

\* _claim for every pair of a.
Claimed(q, a) ==
  [q EXCEPT
     !.pilot = [p \in Pilots |-> [q.pilot[p] EXCEPT !.inFlight = @ + Cardinality(Share(a, p))]],
     !.task  = [o \in Objects |->
                  IF o \in DOMAIN a
                  THEN [q.task[o] EXCEPT !.state = "RUNNING", !.pilot = a[o], !.claims = @ + 1]
                  ELSE q.task[o]]]

\* _finalize_pilot: unfinished tasks of p are queued again, or failed when
\* that happened too often; their uid is forgotten.
ReclaimedMapped(q, p) ==                                   \* mutant: mapped ones only
  {o \in Current(q) : q.task[o].pilot = p /\ ~Ended(q, o) /\ q.task[o].uid}
ReclaimedAll(q, p) == {o \in Current(q) : q.task[o].pilot = p}     \* mutant: ended ones too
Reclaimed(q, p) == {o \in Current(q) : q.task[o].pilot = p /\ ~Ended(q, o)}
RequeueUncounted(r) ==                                     \* mutant: not counted
  [r EXCEPT !.uid = FALSE, !.pilot = None, !.state = "QUEUED"]
Requeue(r) ==
  [r EXCEPT !.uid = FALSE, !.pilot = None, !.requeues = @ + 1,
            !.state = IF r.requeues + 1 > MaxRequeues THEN "FAILED" ELSE "QUEUED"]
Finalized(q, p) ==
  [q EXCEPT !.pilot[p].state = "ENDED",
            !.task = [o \in Objects |-> IF o \in Reclaimed(q, p) THEN Requeue(q.task[o])
                                                                 ELSE q.task[o]]]
GivenUp(q, p)   == {o \in Reclaimed(q, p) : q.task[o].requeues >= MaxRequeues}
Forgotten(q, p) == {o[1] : o \in {x \in Reclaimed(q, p) : q.task[x].uid}}

-----------------------------------------------------------------------------
(* The end of most handlers: _drain_pending on pool q with d on disk.  A   *)
(* record in F fails as _claim cannot make its directory.  One save covers *)
(* all claims, and one coroutine submits the share of a pilot.             *)

Drain(q, d, subs, drt) ==
  \E F \in SUBSET Queued(q) :
    LET q1 == EndTasks(q, F, "FAILED") IN
    /\ F # {} => \E p \in Pilots : Free(q, p) > 0
    /\ dirty' = (drt \/ F # {})
    /\ \E a \in Claims(q1) :
         /\ pool' = Claimed(q1, a)
         /\ disk' = IF DOMAIN a = {} THEN d ELSE pool'
         /\ submits' = subs \cup {[objs |-> Share(a, p), pilot |-> p, pc |-> "prepare"] :
                                    p \in {a[o] : o \in DOMAIN a}}

\* persist, and no drain.
Save(q) == pool' = q /\ disk' = q

-----------------------------------------------------------------------------
(* Clients.                                                                *)

\* _route_submit: a failed or cancelled task is overwritten; a resubmission
\* of any other returns what there is.
Submit(t) ==
  LET k == pool.cur[t] + 1
      q == [pool EXCEPT !.cur[t] = k, !.task[<<t, k>>].state = "QUEUED"] IN
  /\ k <= MaxTries
  /\ \A o \in Current(pool) : o[1] = t => pool.task[o].state \in {"FAILED", "CANCELED"}
  /\ Drain(q, q, submits, dirty)
  /\ UNCHANGED <<uidMap, cancels, remote, doomed>>

\* _cancel_task: a queued task, and a running one without a uid, at once.
Cancel(t) ==
  LET o == Record(pool, t) IN
  /\ pool.cur[t] # 0
  /\ \/ /\ pool.task[o].state = "QUEUED" \/ (pool.task[o].state = "RUNNING" /\ ~pool.task[o].uid)
        /\ pool' = EndTasks(pool, {o}, "CANCELED")
        /\ dirty' = TRUE
        /\ UNCHANGED cancels
     \/ /\ pool.task[o].state = "RUNNING" /\ pool.task[o].uid
        /\ cancels' = cancels \cup {[obj |-> o, pilot |-> pool.task[o].pilot]}
        /\ UNCHANGED <<pool, dirty>>
  /\ UNCHANGED <<disk, uidMap, submits, remote, doomed>>

CancelUnsaved(c) ==                                        \* mutant: no _mark_dirty
  /\ cancels' = cancels \ {c}
  /\ pool' = [pool EXCEPT !.task[c.obj].state = "CANCELED",
                          !.pilot[c.pilot].inFlight = Less(@, 1)]
  /\ UNCHANGED <<disk, dirty, uidMap, submits, remote, doomed>>

\* Its rest, once rhapsody answered: the record is CANCELED and a slot of the
\* pilot it was on is freed, whatever happened to both meanwhile.
CancelReturns(c) ==
  /\ cancels' = cancels \ {c}
  /\ pool' = [pool EXCEPT !.task[c.obj].state = "CANCELED",
                          !.pilot[c.pilot].inFlight = Less(@, 1)]
  /\ dirty' = TRUE
  /\ UNCHANGED <<disk, uidMap, submits, remote, doomed>>

-----------------------------------------------------------------------------
(* _do_rhapsody_submit for the claimed records of one pilot.               *)

\* The client and the inputs: records in F fail (no client: all of them);
\* the others get their uid and its mapping before the submit.  Nothing is
\* looked at again after the awaits.
Prepare(j, F) ==
  LET rest == j.objs \ F
      q    == EndTasks(pool, F, "FAILED") IN
  /\ j.pc = "prepare" /\ F \subseteq j.objs
  /\ pool' = [q EXCEPT !.task = [o \in Objects |->
                IF o \in rest THEN [q.task[o] EXCEPT !.uid = TRUE] ELSE q.task[o]]]
  /\ dirty' = (dirty \/ F # {})
  /\ uidMap' = uidMap \cup {o[1] : o \in rest}
  /\ submits' = (submits \ {j}) \cup {i \in {[j EXCEPT !.objs = rest, !.pc = "submit"]} : rest # {}}
  /\ UNCHANGED <<disk, cancels, remote, doomed>>

\* The pilot's rhapsody takes the tasks (external); the call returns later.
Accepted(j) ==
  /\ j.pc = "submit"
  /\ execs' = execs \cup {[obj |-> o, pilot |-> j.pilot] : o \in j.objs}
  /\ submits' = (submits \ {j}) \cup {[j EXCEPT !.pc = "sent"]}
  /\ UNCHANGED <<pool, disk, dirty, uidMap, cancels, events, doomed>>

SubmitReturns(j) ==
  /\ j.pc = "sent"
  /\ submits' = submits \ {j}
  /\ dirty' = TRUE
  /\ UNCHANGED <<pool, disk, uidMap, cancels, remote, doomed>>

\* The call raises, also after the tasks were taken (a lost answer).
SubmitRaises(j) ==
  LET S == {o \in j.objs : ~Ended(pool, o)}
      q == EndTasks(pool, S, "FAILED") IN
  /\ j.pc \in {"submit", "sent"}
  /\ submits' = submits \ {j}
  /\ uidMap' = uidMap \ {o[1] : o \in j.objs}
  /\ pool' = [q EXCEPT !.task = [o \in Objects |->
                IF o \in S THEN [q.task[o] EXCEPT !.uid = FALSE] ELSE q.task[o]]]
  /\ dirty' = (dirty \/ S # {})
  /\ UNCHANGED <<disk, cancels, remote, doomed>>

-----------------------------------------------------------------------------
(* The pilots' rhapsody (external) and its events.                         *)

ExecutionEnds(x, st) ==
  /\ execs' = execs \ {x}
  /\ events' = events \cup {[exec |-> x, outcome |-> st]}
  /\ UNCHANGED <<pool, disk, dirty, uidMap, waiters, doomed>>

\* _handle_task_terminal: the uid alone says which record is meant.
HandleTerminal(e) ==
  LET t == e.exec.obj[1]
      o == Record(pool, t) IN
  /\ events' = events \ {e}
  /\ uidMap' = uidMap \ {t}
  /\ \/ /\ t \notin uidMap \/ Ended(pool, o)
        /\ UNCHANGED <<pool, disk, dirty, submits>>
     \/ /\ t \in uidMap /\ ~Ended(pool, o)
        /\ Drain(EndTasks(pool, {o}, e.outcome), disk, submits, TRUE)
  /\ UNCHANGED <<cancels, execs, doomed>>

-----------------------------------------------------------------------------
(* Pilots, as on_topology_change tells of their endpoints.                 *)

\* _activate_pilot
Activate(p) ==
  LET q == [pool EXCEPT !.pilot[p].state = "ACTIVE"] IN
  /\ pool.pilot[p].state = "NONE"
  /\ Drain(q, q, submits, dirty)
  /\ UNCHANGED <<uidMap, cancels, remote, doomed>>

Suspect(p) ==
  /\ pool.pilot[p].state = "ACTIVE" /\ pool.pilot[p].accepting
  /\ Save([pool EXCEPT !.pilot[p].accepting = FALSE])
  /\ UNCHANGED <<dirty, uidMap, waiters, remote, doomed>>

\* Any delivery in which the endpoint is present resumes a paused pilot.
Present(p) ==
  LET q == [pool EXCEPT !.pilot[p].accepting = TRUE] IN
  /\ pool.pilot[p].state = "ACTIVE" /\ ~pool.pilot[p].accepting
  /\ Drain(q, q, submits, dirty)
  /\ UNCHANGED <<uidMap, cancels, remote, doomed>>

\* The endpoint is lost: the pilot ends (DONE or FAILED).  What it runs may
\* be gone, or go on behind a broken link and report later.
LostPilot(p) ==
  LET q == Finalized(pool, p) IN
  /\ pool.pilot[p].state = "ACTIVE"
  /\ uidMap' = uidMap \ Forgotten(pool, p)
  /\ Drain(q, q, submits, dirty \/ GivenUp(pool, p) # {})
  /\ execs' \in {execs, {x \in execs : x.pilot # p}}
  /\ UNCHANGED <<cancels, events, doomed>>

\* _route_remove_member up to its first await: the member's pilot is paused,
\* and with cancel_tasks its tasks fail.
RemoveMember(p, cancelTasks) ==
  LET q == [pool EXCEPT !.pilot[p].accepting = FALSE]
      S == {o \in Reclaimed(q, p) : cancelTasks} IN
  /\ pool.pilot[p].state = "ACTIVE" /\ p \notin doomed
  /\ doomed' = doomed \cup {p}
  /\ pool' = EndTasks(q, S, "FAILED")
  /\ disk' = q
  /\ dirty' = (dirty \/ S # {})
  /\ UNCHANGED <<uidMap, waiters, remote>>

\* The rest of it, after psij was asked to cancel the job, whether or not it
\* did and whatever the pilot's state is by then: the pilot is finalized, the
\* queued tasks that no other member satisfies (U) fail; save, drain.
MemberRemoved(p) ==
  LET q1 == Finalized(pool, p) IN
  /\ p \in doomed
  /\ doomed' = doomed \ {p}
  /\ uidMap' = uidMap \ Forgotten(pool, p)
  /\ execs' \in {execs, {x \in execs : x.pilot # p}}
  /\ \E U \in SUBSET Queued(q1) :
       LET q == EndTasks(q1, U, "FAILED") IN
       Drain(q, q, submits, dirty \/ GivenUp(pool, p) \cup U # {})
  /\ UNCHANGED <<cancels, events>>

-----------------------------------------------------------------------------
(* Housekeeping, the coalesced save, and a crash of the broker's process.  *)

Tick ==
  /\ Drain(pool, disk, submits, dirty)
  /\ UNCHANGED <<uidMap, cancels, remote, doomed>>

Flush ==
  /\ dirty
  /\ dirty' = FALSE
  /\ Save(pool)
  /\ UNCHANGED <<uidMap, waiters, remote, doomed>>

\* _materialise_pool on the saved pool; the uid map is made of what it says.
Restart ==
  /\ pool' = disk
  /\ uidMap' = {t \in Tasks : /\ disk.cur[t] # 0
                              /\ disk.task[Record(disk, t)].state = "RUNNING"
                              /\ disk.task[Record(disk, t)].uid}
  /\ dirty' = FALSE
  /\ submits' = {} /\ cancels' = {} /\ doomed' = {}
  /\ UNCHANGED <<disk, remote>>

-----------------------------------------------------------------------------
Clients == \/ \E t \in Tasks : Submit(t) \/ Cancel(t)
           \/ \E c \in cancels : CancelReturns(c)

Submitting == \E j \in submits : \/ \E F \in SUBSET j.objs : Prepare(j, F)
                                 \/ Accepted(j) \/ SubmitReturns(j) \/ SubmitRaises(j)

Running == \/ \E x \in execs, st \in Outcomes : ExecutionEnds(x, st)
           \/ \E e \in events : HandleTerminal(e)

Topology == \E p \in Pilots : \/ Activate(p) \/ Suspect(p) \/ Present(p)
                              \/ LostPilot(p)
                              \/ \E c \in BOOLEAN : RemoveMember(p, c)
                              \/ MemberRemoved(p)

Work == Clients \/ Submitting \/ Running \/ Topology \/ Tick \/ Flush
Next == Work \/ Restart

Spec        == Init /\ [][Next]_vars

-----------------------------------------------------------------------------
(* Properties. *)

\* A task that runs is on a pilot that is alive, through losses, removals and
\* restarts: no path ends a pilot and leaves a task on it.
OnLivePilots(q) ==
  \A o \in Current(q) : q.task[o].state = "RUNNING"
                           => /\ q.task[o].pilot \in Pilots
                              /\ q.pilot[q.task[o].pilot].state = "ACTIVE"
RunningOnLivePilot == OnLivePilots(pool)

\* A record is claimed at most once more than it may be queued again, however
\* often pilots are lost and the broker restarts.
ClaimsBounded == \A o \in Objects : pool.task[o].claims <= MaxRequeues + 1

\* Slots and records keep their ranges, and no record is claimed for ever
\* (in_flight, requeues).
ClaimsSound == TypeOK /\ ClaimsBounded

\* The saved pool is behind the one in memory only while a save is scheduled,
\* but for the uid, which is saved with the next change.
Visible(q) == [pilot |-> q.pilot, cur |-> q.cur,
               task |-> [o \in Current(q) |-> [q.task[o] EXCEPT !.uid = FALSE]]]
LedgerLags == ~dirty => Visible(disk) = Visible(pool)

\* A record that has ended never runs again; after a restart this is so for
\* what was saved.
StaysEnded ==
  \A o \in Objects : /\ Ended(disk, o) => Ended(disk', o)
                     /\ Ended(pool, o) => Ended(pool', o) \/ pool' = disk
EndIsFinal == [][StaysEnded]_vars

-----------------------------------------------------------------------------
(* What the proofs need besides. *)

\* A record was claimed as often as it was queued again, and once more while it
\* runs; one that has not ended may still be queued again.
RecordSound(r) ==
  /\ r.state \in {"NONE", "QUEUED"} => r.claims <= r.requeues
  /\ r.state = "RUNNING" => r.claims <= r.requeues + 1
  /\ r.state \notin Terminal => r.requeues <= MaxRequeues
  /\ r.claims <= MaxRequeues + 1

\* The records that ids have or had; no other was ever used.
Made(q) == {o \in Objects : o[2] <= q.cur[o[1]]}

PoolSound(q) == /\ q \in Pool /\ OnLivePilots(q)
                /\ \A o \in Objects : RecordSound(q.task[o])
                /\ \A o \in Objects \ Made(q) : q.task[o].state = "NONE"

\* Coroutines and the uid map know records of the pool only.
WaitersSound == /\ \A t \in uidMap : pool.cur[t] # 0
                /\ \A j \in submits : j.objs \subseteq Made(pool)
                /\ \A c \in cancels : c.obj \in Made(pool)

\* What is saved as ended has ended in memory.
DiskBehind == \A o \in Objects : Ended(disk, o) => Ended(pool, o)

IndInv == TypeOK /\ PoolSound(pool) /\ PoolSound(disk) /\ WaitersSound /\ DiskBehind /\ LedgerLags
=============================================================================
