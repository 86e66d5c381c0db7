-------------------------------- MODULE Psij ---------------------------------
(***************************************************************************)
(* The jobs of one PsiJ session (plugin_psij.py, PSIJSession): submission, *)
(* status notifications, cancellation and close.  Two threads write the    *)
(* recorded states: psij's own, which calls back on every transition, and  *)
(* the event loop, whose poll asks for the status of every job.  Both go   *)
(* through _notify_state, which reads the recorded state and writes it     *)
(* later, under no lock.  Handlers run on the loop and end a step where    *)
(* they await.                                                             *)
(*                                                                         *)
(* The batch system knows a job as queued, running or over; psij learns of *)
(* it later.  An endpoint job runs an ORBIT endpoint under a name of its   *)
(* own, unless somebody else holds that name.                              *)
(***************************************************************************)
EXTENDS Naturals, FiniteSets

CONSTANTS Jobs,
          Targets,            \* those that may run an endpoint or be cancelled (bound)
          UnknownTolerance    \* UNKNOWN_TOLERANCE

ASSUME PsijTolerance == /\ UnknownTolerance \in Nat \ {0} /\ Targets \subseteq Jobs
                        /\ Jobs \cap {"none", "other", "late"} = {}

Final  == {"COMPLETED", "FAILED", "CANCELED"}
States == {"NEW", "ACTIVE"} \cup Final      \* NEW: also QUEUED
Kinds  == {"plain", "owned", "foreign"}     \* endpoint_name and endpoint_owned

VARIABLES
  job,      \* the session's jobs
  writer,   \* per thread: a state about to be recorded
  calling,  \* psij's thread: the transition it calls back for
  poll,     \* _poll_task: off, asleep, or at work
  jobsLeft,     \* jobs this round of the poll has still to look at
  cancel,   \* the cancel_job call under way
  holder,   \* who is connected under an endpoint job's name: nobody, the job,
            \* another, or another that came after the job was submitted
  open

pjVars == <<job, writer, calling, poll, jobsLeft, cancel, holder, open>>

Threads == {"psij", "loop"}
Idle    == [job |-> "none", st |-> "none"]
JobRec  == [at: {"none", "queued", "run", "over"}, st: States, known: States \cup {"none"},
            kind: Kinds, want: BOOLEAN, told: SUBSET Final,
            reply: {"none", "graceful", "forced"}]

\* Every variable keeps its type.
PjTypeOK ==
  /\ job \in [Jobs -> JobRec]
  /\ writer \in [Threads -> [job: Jobs, st: States] \cup {Idle}]
  /\ calling \in [job: Jobs, st: States] \cup {Idle}
  /\ poll \in {"off", "sleep", "work"} /\ jobsLeft \subseteq Jobs
  /\ cancel \in [job: Jobs \cup {"none"}, pc: {"idle", "active", "wait"}, seen: BOOLEAN,
                 unknown: 0..UnknownTolerance]
  /\ holder \in {"none", "other", "late"} \cup Jobs
  /\ open \in BOOLEAN

NoCancel == [job |-> "none", pc |-> "idle", seen |-> FALSE, unknown |-> 0]

PjInit ==
  /\ job = [j \in Jobs |-> [at |-> "none", st |-> "NEW", known |-> "none", kind |-> "plain",
                            want |-> FALSE, told |-> {}, reply |-> "none"]]
  /\ writer = [t \in Threads |-> Idle] /\ calling = Idle
  /\ poll = "off" /\ jobsLeft = {} /\ cancel = NoCancel
  /\ holder \in {"none", "other"} /\ open = TRUE

Ours     == {j \in Jobs : job[j].at # "none" \/ job[j].known # "none"}   \* _jobs
PsijLoopFree == open /\ poll # "work"
Ended(j) == job[j].known \in Final

-----------------------------------------------------------------------------
(* _notify_state. *)

\* _effective_state: a requested cancel explains an end; terminal is final.
Effective(j, st) ==
  IF job[j].want /\ st \in {"COMPLETED", "FAILED"} THEN "CANCELED"
  ELSE IF Ended(j) /\ st \notin Final THEN job[j].known ELSE st

\* The first half: what is to be recorded, if anything.
Judge(j, st) ==
  IF Ended(j) \/ Effective(j, st) = job[j].known THEN Idle
  ELSE [job |-> j, st |-> Effective(j, st)]

\* The second half: record and notify.
Record(j, st) ==
  job' = [job EXCEPT ![j].known = st, ![j].told = @ \cup ({st} \cap Final)]

Write(t) ==
  /\ open /\ writer[t] # Idle
  /\ Record(writer[t].job, writer[t].st)
  /\ writer' = [writer EXCEPT ![t] = Idle]
  /\ UNCHANGED <<calling, poll, jobsLeft, cancel, holder, open>>

\* psij's thread sets the job's status and calls back.  A job that fails on its
\* own is treated as one that completes.
Follows(j) ==
  {st \in States : \/ st = "ACTIVE" /\ job[j].st = "NEW" /\ job[j].at = "run"
                   \/ st \in {"COMPLETED", "CANCELED"} /\ job[j].st \notin Final /\ job[j].at = "over"}
PsijSees(j, st) ==
  /\ open /\ calling = Idle /\ writer["psij"] = Idle /\ job[j].at # "none"
  /\ st \in Follows(j) /\ (st = "CANCELED" => job[j].want)
  /\ job' = [job EXCEPT ![j].st = st]
  /\ calling' = [job |-> j, st |-> st]
  /\ UNCHANGED <<writer, poll, jobsLeft, cancel, holder, open>>
CallsBack ==
  /\ open /\ calling # Idle /\ calling' = Idle
  /\ writer' = [writer EXCEPT !["psij"] = Judge(calling.job, calling.st)]
  /\ UNCHANGED <<job, poll, jobsLeft, cancel, holder, open>>

-----------------------------------------------------------------------------
(* The poll. *)

StartPolling == IF poll = "off" THEN "sleep" ELSE poll

PollWakes ==
  /\ poll = "sleep" /\ poll' = "work" /\ jobsLeft' = Ours
  /\ UNCHANGED <<job, writer, calling, cancel, holder, open>>
PollLooks(j) ==
  /\ poll = "work" /\ writer["loop"] = Idle /\ j \in jobsLeft
  /\ jobsLeft' = jobsLeft \ {j}
  /\ writer' = [writer EXCEPT !["loop"] = Judge(j, job[j].st)]
  /\ UNCHANGED <<job, calling, poll, cancel, holder, open>>
PollEnds ==
  /\ poll = "work" /\ writer["loop"] = Idle /\ jobsLeft = {}
  /\ poll' = IF \A j \in Ours : Ended(j) THEN "off" ELSE "sleep"
  /\ UNCHANGED <<job, writer, calling, jobsLeft, cancel, holder, open>>

-----------------------------------------------------------------------------
(* Submission, cancellation, close. *)

\* submit_job and the plugin's submit_tunneled: whether the endpoint's name is
\* free is asked of the broker when the job is submitted.
Kind(endpoint)    == IF ~endpoint THEN "plain" ELSE IF holder = "none" THEN "owned" ELSE "foreign"
Submit(j, endpoint, ok) ==
  /\ PsijLoopFree /\ j \notin Ours /\ (endpoint => j \in Targets)
  /\ LET kind == Kind(endpoint)
     IN IF ok THEN /\ job' = [job EXCEPT ![j].at = "queued", ![j].kind = kind]
                   /\ poll' = StartPolling
        ELSE /\ job' = [job EXCEPT ![j].kind = kind, ![j].known = "FAILED", ![j].told = {"FAILED"}]
             /\ UNCHANGED poll
  /\ UNCHANGED <<writer, calling, jobsLeft, cancel, holder, open>>

\* job.cancel(): the batch system will end the job; the call returns.
JobCancel(j, reply) == job' = [job EXCEPT ![j].want = @ \/ ~Ended(j), ![j].reply = reply]

\* cancel_job: intent first.  A job that runs an endpoint of ours is asked to
\* end through ORBIT, if it is running.
Cancel(j) ==
  /\ PsijLoopFree /\ j \in Ours \cap Targets /\ cancel = NoCancel /\ job[j].reply = "none"
  /\ IF Ended(j) \/ job[j].kind # "owned"
     THEN JobCancel(j, "forced") /\ UNCHANGED cancel
     ELSE /\ job' = [job EXCEPT ![j].want = TRUE]
          /\ cancel' = [NoCancel EXCEPT !.job = j, !.pc = "active"]
  /\ UNCHANGED <<writer, calling, poll, jobsLeft, holder, open>>

\* _job_active, then stop_endpoint on whoever holds the name.
Running(j) == job[j].st = "ACTIVE" \/ job[j].at = "run"
Stops(j)   == Running(j) /\ holder # "none"
CancelAsks ==
  /\ PsijLoopFree /\ cancel.pc = "active"
  /\ IF Stops(cancel.job)
     THEN holder' = "none" /\ cancel' = [cancel EXCEPT !.pc = "wait"] /\ UNCHANGED job
     ELSE JobCancel(cancel.job, "forced") /\ cancel' = NoCancel /\ UNCHANGED holder
  /\ UNCHANGED <<writer, calling, poll, jobsLeft, open>>

\* _wait_final: psij's state or the batch system's answer, which may be that it
\* does not know.
ConfirmedEnd(answer, unknown) == answer = "over"
CancelPolls(answer) ==
  /\ PsijLoopFree /\ cancel.pc = "wait" /\ answer \in {job[cancel.job].at, "unknown"}
  /\ LET n == IF answer # "unknown" THEN 0
              ELSE IF cancel.seen THEN cancel.unknown + 1 ELSE cancel.unknown
     IN IF job[cancel.job].st \in Final \/ ConfirmedEnd(answer, n)
        THEN /\ job' = [job EXCEPT ![cancel.job].reply = "graceful"] /\ cancel' = NoCancel
        ELSE IF n = UnknownTolerance
        THEN JobCancel(cancel.job, "forced") /\ cancel' = NoCancel
        ELSE /\ cancel' = [cancel EXCEPT !.seen = @ \/ answer # "unknown", !.unknown = n]
             /\ UNCHANGED job
  /\ UNCHANGED <<writer, calling, poll, jobsLeft, holder, open>>
GraceOver ==
  /\ PsijLoopFree /\ cancel.pc = "wait"
  /\ JobCancel(cancel.job, "forced") /\ cancel' = NoCancel
  /\ UNCHANGED <<writer, calling, poll, jobsLeft, holder, open>>

\* close: the poll ends and jobs are left to themselves; what becomes of them
\* is not followed further.
CloseJobs ==
  /\ PsijLoopFree /\ open' = FALSE
  /\ poll' = "off" /\ jobsLeft' = {}
  /\ UNCHANGED <<job, writer, calling, cancel, holder>>

-----------------------------------------------------------------------------
(* The batch system and the endpoint's name (external). *)

JobRuns(j) ==
  /\ open /\ job[j].at = "queued" /\ job' = [job EXCEPT ![j].at = "run"]
  /\ UNCHANGED <<writer, calling, poll, jobsLeft, cancel, holder, open>>
JobEnds(j) ==
  /\ open /\ job[j].at \in {"queued", "run"} /\ (job[j].at = "queued" => job[j].want)
  /\ job' = [job EXCEPT ![j].at = "over"]
  /\ holder' = IF holder = j THEN "none" ELSE holder
  /\ UNCHANGED <<writer, calling, poll, jobsLeft, cancel, open>>
Connects(who) ==
  /\ open /\ holder = "none" /\ (who \in Jobs => job[who].at = "run" /\ job[who].kind # "plain")
  /\ who = "late" => \E j \in Ours : job[j].kind = "owned"
  /\ holder' = who
  /\ UNCHANGED <<job, writer, calling, poll, jobsLeft, cancel, open>>
OtherLeaves ==
  /\ open /\ holder \in {"other", "late"} /\ holder' = "none"
  /\ UNCHANGED <<job, writer, calling, poll, jobsLeft, cancel, open>>

-----------------------------------------------------------------------------
PjNext ==
  \/ \E j \in Jobs : \/ \E e, ok \in BOOLEAN : Submit(j, e, ok)
                     \/ \E st \in States : PsijSees(j, st)
                     \/ Cancel(j) \/ PollLooks(j) \/ JobRuns(j) \/ JobEnds(j)
  \/ \E t \in Threads : Write(t)
  \/ CallsBack \/ PollWakes \/ PollEnds \/ CancelAsks \/ GraceOver \/ CloseJobs \/ OtherLeaves
  \/ \E a \in {"queued", "run", "over", "unknown"} : CancelPolls(a)
  \/ \E who \in Jobs \cup {"late"} : Connects(who)

PjSpec == PjInit /\ [][PjNext]_pjVars

\* The poll comes round, a thread finishes what it has begun, and psij's own
\* poll sees a job that is over.
PjFair ==
  /\ WF_pjVars(PollWakes \/ PollEnds \/ \E j \in Jobs : PollLooks(j))
  /\ WF_pjVars(\E t \in Threads : Write(t)) /\ WF_pjVars(CallsBack)
  /\ \A j \in Jobs : WF_pjVars(\E st \in Final : PsijSees(j, st))

-----------------------------------------------------------------------------
(* Properties. *)

\* A job of which no end was ever told is watched: its session polls for as
\* long as it is open (_start_polling, _poll_jobs, submit_job).
UntoldIsPolled ==
  open => \A j \in Ours : job[j].told = {} => poll # "off"

\* Every end is told, by the callback or by the poll, unless the session is
\* closed first.
EndIsTold ==
  \A j \in Jobs : (job[j].at = "over") ~> (job[j].told # {} \/ ~open)

\* `graceful: True' is answered only for a job that has ended; a job the batch
\* system merely lost sight of is cancelled as well (_wait_final).
GracefulHasEnded == \A j \in Jobs : job[j].reply = "graceful" => job[j].at = "over"

\* An endpoint that was connected when the job of its name was submitted is
\* never stopped by the job's cancel (submit_tunneled, cancel_job).
NeverStopsOther ==
  [][cancel'.pc = "wait" /\ cancel.pc = "active" => holder \in {cancel.job, "late"}]_pjVars

-----------------------------------------------------------------------------
(***************************************************************************)
(* Endpoint jobs behind an ssh tunnel (plugin_psij.py submit_tunneled and  *)
(* its watchers, tunnel.py, and the child's side in runtime.py).  The      *)
(* parent's watcher and the child on the compute node meet only through    *)
(* files named after the endpoint on a shared file system: .req (the       *)
(* child's host, reverse mode) and .port (the tunnel).  Jobs of one        *)
(* endpoint name are submitted one after the other; a later one may be     *)
(* there before an earlier one is gone.                                    *)
(*                                                                         *)
(* A file is known by the job on whose node its content is valid.  The     *)
(* batch system's answer is a job's state or UNKNOWN, for any reason.      *)
(***************************************************************************)

CONSTANTS TJobs,          \* jobs of one endpoint name, 1..n in order of submission
          Tolerance,      \* UNKNOWN_TOLERANCE
          MaxSpawn        \* attempts to spawn ssh -R

ASSUME TunnelBounds == /\ Tolerance \in Nat \ {0} /\ MaxSpawn \in Nat \ {0}
                       /\ TJobs \subseteq Nat \ {0}

None == 0

VARIABLES
  tjob,     \* the jobs, in the batch system and on their node
  tSubs,     \* jobs submitted so far
  req, port,  \* the rendezvous files
  watch,    \* the watcher task of the endpoint's name
  ssh,      \* the ssh -R process the plugin knows of: none, up, dead
  there     \* jobs that were not over at the last submission

ptVars == <<tjob, tSubs, req, port, watch, ssh, there>>

JobState == {"none", "queued", "run", "over"}
WatchRec == [job: TJobs \cup {None}, mode: {"forward", "reverse"},
             pc: {"done", "look", "spawn", "judge", "guard"}, ans: JobState \cup {"unknown"},
             seen: BOOLEAN, unknown: 0..Tolerance, tries: 0..MaxSpawn, target: TJobs \cup {None}]

\* Every variable keeps its type.
PtTypeOK ==
  /\ tjob \in [TJobs -> [at: JobState, kid: {"none", "asked", "up", "astray"},
                         reason: BOOLEAN, torn: BOOLEAN]]
  /\ tSubs \in TJobs \cup {0} /\ req \in TJobs \cup {None} /\ port \in TJobs \cup {None}
  /\ watch \in WatchRec /\ ssh \in {"none", "up", "dead"}
  /\ there \subseteq TJobs

NoWatch == [job |-> None, mode |-> "forward", pc |-> "done", ans |-> "none", seen |-> FALSE,
            unknown |-> 0, tries |-> 0, target |-> None]

PtInit ==
  /\ tjob = [j \in TJobs |-> [at |-> "none", kid |-> "none", reason |-> FALSE, torn |-> FALSE]]
  /\ tSubs = 0 /\ req = None /\ port = None
  /\ watch = NoWatch /\ ssh = "none" /\ there = {}

-----------------------------------------------------------------------------
(* submit_tunneled. *)

Clear     == req' = None /\ port' = None

\* One watcher per name; then stale files go and the job is submitted.
SubmitTunneled(j, mode) ==
  /\ j = tSubs + 1 /\ watch.pc = "done"
  /\ Clear
  /\ tSubs' = j /\ tjob' = [tjob EXCEPT ![j].at = "queued"]
  /\ watch' = [NoWatch EXCEPT !.job = j, !.mode = mode, !.pc = "look"]
  /\ there' = {k \in TJobs : k < j /\ tjob[k].at \in {"queued", "run"}}
  /\ UNCHANGED ssh

-----------------------------------------------------------------------------
(* The watchers. *)

Done(w) == [w EXCEPT !.pc = "done"]

\* _fail_tunnel: the reason is kept, ssh and files go, the job is cancelled.
FailTunnel ==
  /\ tjob' = [tjob EXCEPT ![watch.job].reason = TRUE]
  /\ req' = None /\ port' = None /\ ssh' = "none" /\ watch' = Done(watch)

\* Each round looks for the port file first, then asks the batch system.
SeesPort ==
  /\ watch.pc = "look" /\ port # None
  /\ watch' = [watch EXCEPT !.pc = IF watch.mode = "forward" THEN "done" ELSE "guard"]
  /\ UNCHANGED <<tjob, tSubs, req, port, ssh, there>>

Asks(a) ==
  /\ watch.pc = "look" /\ port = None /\ a \in {tjob[watch.job].at, "unknown"}
  /\ watch' = IF watch.mode = "reverse" /\ ssh = "none" /\ req # None
              THEN [watch EXCEPT !.ans = a, !.pc = "spawn", !.target = req]
              ELSE [watch EXCEPT !.ans = a, !.pc = "judge"]
  /\ UNCHANGED <<tjob, tSubs, req, port, ssh, there>>

\* The .req file cannot be read or names no host.
BadRequest ==
  /\ watch.pc = "spawn" /\ watch.tries = 0
  /\ FailTunnel /\ UNCHANGED <<tSubs, there>>

\* _spawn_reverse_ssh: ssh allocates a port on the target's node and both
\* files are written; or it exits, or its time runs out and it is left behind.
Spawns ==
  /\ watch.pc = "spawn"
  /\ ssh' = "up" /\ port' = watch.target
  /\ watch' = [watch EXCEPT !.pc = "judge"]
  /\ UNCHANGED <<tjob, tSubs, req, there>>
SpawnFails(a) ==
  /\ watch.pc = "spawn" /\ a \in {tjob[watch.job].at, "unknown"}
  /\ IF a = "over" \/ watch.tries + 1 = MaxSpawn
     THEN FailTunnel
     ELSE /\ watch' = [watch EXCEPT !.tries = @ + 1]
          /\ UNCHANGED <<tjob, req, port, ssh>>
  /\ UNCHANGED <<tSubs, there>>

\* The rest of the round.  A job that ended or vanished ends the watch; a
\* plain cancel before the tunnel is no failure.
Judges(cancelled) ==
  /\ watch.pc = "judge" /\ (cancelled => watch.ans = "over")
  /\ LET n == IF watch.ans = "unknown" THEN IF watch.unknown = Tolerance THEN Tolerance
                                            ELSE watch.unknown + 1 ELSE 0
         seen == watch.seen \/ watch.ans # "unknown"
     IN IF watch.ans = "over" /\ watch.mode = "reverse" /\ (ssh # "none" \/ ~cancelled)
        THEN FailTunnel
        ELSE IF watch.ans = "over"
        THEN watch' = Done(watch) /\ UNCHANGED <<tjob, req, port, ssh>>
        ELSE IF seen /\ n = Tolerance
        THEN IF ssh # "none" THEN FailTunnel
             ELSE watch' = [Done(watch) EXCEPT !.unknown = n] /\ UNCHANGED <<tjob, req, port, ssh>>
        ELSE /\ watch' = [watch EXCEPT !.pc = "look", !.seen = seen, !.unknown = n]
             /\ UNCHANGED <<tjob, req, port, ssh>>
  /\ UNCHANGED <<tSubs, there>>

\* The attempts are used up.
TimedOut ==
  IF watch.mode = "reverse" THEN FailTunnel
  ELSE watch' = Done(watch) /\ UNCHANGED <<tjob, req, port, ssh>>
WatchTimesOut ==
  /\ watch.pc = "look" /\ TimedOut
  /\ UNCHANGED <<tSubs, there>>

\* _await_reverse_teardown: one UNKNOWN is enough.
TornKept == UNCHANGED <<ssh, req, port>>           \* mutant: ssh outlives its watch
TunnelTorn     == ssh' = "none" /\ req' = None /\ port' = None
GuardOver(a) == a \in {"over", "unknown"} \/ ssh = "dead"
GuardEnds(a) ==
  /\ watch.pc = "guard" /\ a \in {tjob[watch.job].at, "unknown"}
  /\ GuardOver(a) /\ TunnelTorn /\ watch' = Done(watch)
  /\ tjob' = [tjob EXCEPT ![watch.job].torn = TRUE]
  /\ UNCHANGED <<tSubs, there>>

-----------------------------------------------------------------------------
(* The child on its node, and the world. *)

KidAsks(j) ==
  /\ tjob[j].at = "run" /\ tjob[j].kid = "none"
  /\ (j = watch.job => watch.mode = "reverse")
  /\ tjob' = [tjob EXCEPT ![j].kid = "asked"] /\ req' = j
  /\ UNCHANGED <<tSubs, port, watch, ssh, there>>

\* The child takes whatever port the file holds for one of its own node.
KidReads(j) ==
  /\ tjob[j].at = "run" /\ tjob[j].kid = "asked" /\ port # None
  /\ tjob' = [tjob EXCEPT ![j].kid = IF port = j THEN "up" ELSE "astray"]
  /\ UNCHANGED <<tSubs, req, port, watch, ssh, there>>

\* spawn_tunnel on the node: forward mode.
KidTunnels(j) ==
  /\ tjob[j].at = "run" /\ tjob[j].kid = "none"
  /\ (j = watch.job => watch.mode = "forward")
  /\ tjob' = [tjob EXCEPT ![j].kid = "up"] /\ port' = j
  /\ UNCHANGED <<tSubs, req, watch, ssh, there>>

\* A job starts; it ends by itself, when its child gives up waiting, by a
\* cancel or at the end of its walltime.
JobMoves(j) ==
  /\ tjob[j].at \in {"queued", "run"}
  /\ tjob' = [tjob EXCEPT ![j].at = IF @ = "queued" /\ ~tjob[j].reason THEN "run" ELSE "over"]
  /\ UNCHANGED <<tSubs, req, port, watch, ssh, there>>
JobCancelled(j) ==
  /\ tjob[j].at = "queued"
  /\ tjob' = [tjob EXCEPT ![j].at = "over"]
  /\ UNCHANGED <<tSubs, req, port, watch, ssh, there>>
SshDies ==
  /\ ssh = "up" /\ ssh' = "dead"
  /\ UNCHANGED <<tjob, tSubs, req, port, watch, there>>

-----------------------------------------------------------------------------
WatchStep ==
  \/ SeesPort \/ Spawns \/ BadRequest \/ WatchTimesOut
  \/ \E a \in JobState \cup {"unknown"} : \/ Asks(a) \/ GuardEnds(a)
                                          \/ SpawnFails(a)
  \/ \E c \in BOOLEAN : Judges(c)
PtNext ==
  \/ \E j \in TJobs : \/ \E mode \in {"forward", "reverse"} : SubmitTunneled(j, mode)
                      \/ KidAsks(j) \/ KidReads(j) \/ KidTunnels(j) \/ JobMoves(j)
                      \/ JobCancelled(j)
  \/ WatchStep \/ SshDies

PtSpec == PtInit /\ [][PtNext]_ptVars

\* The watcher's rounds go on, and there are 300 of them at most.
PtFair == WF_ptVars(WatchStep) /\ SF_ptVars(WatchTimesOut)

-----------------------------------------------------------------------------
(* Properties. *)

\* The plugin knows of an ssh process only while the watcher that spawned it is
\* there to end it: no end of a watch leaves one running (finally, _fail_tunnel,
\* _await_reverse_teardown).
SshIsWatched == ssh # "none" => watch.pc \in {"look", "judge", "guard"} /\ watch.mode = "reverse"

\* A tunnel is opened only to the node of this job, or of an earlier job of the
\* same name that was still there when this one was submitted: never from the
\* files of a job that had ended (rendezvous_clear).
NeverStale ==
  /\ (ssh # "none" \/ watch.pc = "spawn") => watch.target \in {watch.job} \cup there
  /\ port \in {None, watch.job} \cup there

\* A reverse tunnel that does not come up does not leave its job running: the
\* job is over, or it is cancelled, with a reason, unless the batch system had
\* lost sight of it or its tunnel had been up (_watch_reverse).
GivenUpIsReleased ==
  (watch.pc = "done" /\ watch.mode = "reverse" /\ watch.job # None) =>
    \/ tjob[watch.job].at = "over" \/ tjob[watch.job].reason \/ tjob[watch.job].torn
    \/ watch.unknown = Tolerance

\* A watch ends once its job is over, so the name can be used again.
WatchEnds ==
  \A j \in TJobs : (tjob[j].at = "over") ~> ~(watch.job = j /\ watch.pc # "done")

=============================================================================
