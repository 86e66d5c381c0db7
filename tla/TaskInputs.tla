----------------------------- MODULE TaskInputs -----------------------------
(***************************************************************************)
(* The input files of one task of a dispatcher pool                        *)
(* (plugin_task_dispatcher.py, plugin_staging.py): they are spooled on the *)
(* broker at submit, placed into the task's directory once a pilot is      *)
(* claimed (a copy, or a put through the pilot's staging plugin where the  *)
(* broker does not share the member's file system), and dropped when the   *)
(* task ends.  Spool and directory are named after the task id, while the  *)
(* task may be queued again after a pilot's loss, and resubmitted after it *)
(* failed or was cancelled: each submission makes a new record, and the    *)
(* coroutine that places and submits keeps the one it was given.           *)
(*                                                                         *)
(* Files are told apart only by the submission they come from.  Slots,     *)
(* uids and the remote cancel are in Dispatcher.                           *)
(***************************************************************************)
EXTENDS Naturals

CONSTANTS
    MaxSubs,      \* bound: submissions of the task id
    MaxClaims     \* bound: claims, over all submissions

ASSUME InputConstants == MaxSubs \in Nat \ {0} /\ MaxClaims \in Nat \ {0}

VARIABLES
    trec,      \* per submission: its record
    latest,    \* the record under the task's id, 0 before the first
    spool,     \* whose files the spool holds, 0: there is none
    tdir,      \* per file system: whose files the task's directory holds
    jobs,      \* per claim: the coroutine _do_rhapsody_submit
    claims,    \* claims so far
    saw,       \* per claim: whose files the task was started on, 0: none
    staged,    \* file systems on whose path a stage_in wrote, broker-side
    crossed    \* an earlier record's placement ended after a resubmission

tiVars == <<trec, latest, spool, tdir, jobs, claims, saw, staged, crossed>>

Subs        == 0..MaxSubs              \* 0 stands for no submission yet
Systems     == {"shared", "remote"}    \* members with and without shared_fs
TEnded      == {"DONE", "FAILED", "CANCELED"}
NoRecord    == [state |-> "none", spooled |-> FALSE, member |-> "none", cwd |-> "none",
                moved |-> FALSE]
Now         == trec[latest]

TiInit ==
    /\ trec = [g \in Subs |-> NoRecord]
    /\ latest = 0 /\ spool = 0 /\ claims = 0
    /\ tdir = [m \in Systems |-> 0]
    /\ jobs = [n \in 1..MaxClaims |-> [of |-> 0, on |-> "none", has |-> 0, pc |-> "none"]]
    /\ saw = [n \in 1..MaxClaims |-> 0]
    /\ staged = {} /\ crossed = FALSE

-----------------------------------------------------------------------------
(* Submit: the ladder of a resubmission, then the spool, then the record.  *)

Resubmits == latest = 0 \/ (latest < MaxSubs /\ Now.state \in {"FAILED", "CANCELED"})

\* _write_spool(): nothing to do without inputs, else the spool is replaced.
Spooled(inputs) == IF inputs THEN latest + 1 ELSE spool

SubmitTask(inputs) ==
    /\ Resubmits
    /\ latest' = latest + 1
    /\ trec' = [trec EXCEPT ![latest + 1] =
                  [NoRecord EXCEPT !.state = "QUEUED", !.spooled = inputs]]
    /\ spool' = Spooled(inputs)
    /\ UNCHANGED <<tdir, jobs, claims, saw, staged, crossed>>

\* The spool cannot be written: the old one is gone, the answer is a 500.
SpoolFails ==
    /\ Resubmits
    /\ spool' = 0
    /\ UNCHANGED <<trec, latest, tdir, jobs, claims, saw, staged, crossed>>

\* _claim() assigns the directory and starts the coroutine.
ClaimTask(m) ==
    /\ latest > 0 /\ Now.state = "QUEUED" /\ claims < MaxClaims
    /\ claims' = claims + 1
    /\ trec' = [trec EXCEPT ![latest] = [@ EXCEPT !.state = "RUNNING", !.member = m,
                                                  !.cwd = m, !.moved = FALSE]]
    /\ jobs' = [jobs EXCEPT ![claims + 1] = [of |-> latest, on |-> m, has |-> 0, pc |-> "client"]]
    /\ UNCHANGED <<latest, spool, tdir, saw, staged, crossed>>

-----------------------------------------------------------------------------
(* _do_rhapsody_submit and _place_inputs, with the record of the claim.    *)

JobAt(n, pc)   == jobs[n].pc = pc
RecOf(n)       == trec[jobs[n].of]
Moves(n, pc)   == jobs' = [jobs EXCEPT ![n].pc = pc]

\* _mark_task_failed() does not look at the record's state, and drops the
\* spool by the task's id.
MarkFailed(n) ==
    /\ trec' = [trec EXCEPT ![jobs[n].of].state = "FAILED"]
    /\ spool' = 0
    /\ crossed' = (crossed \/ jobs[n].of # latest)
    /\ Moves(n, "over")
    /\ UNCHANGED <<latest, tdir, claims, saw, staged>>

\* No rhapsody client, or no staging client where one is needed.
NoClient(n) == JobAt(n, "client") /\ MarkFailed(n)

\* A shared file system: copied between two awaits; a task without inputs
\* has nothing to place.
CopyInputs(n) ==
    /\ JobAt(n, "client") /\ jobs[n].on = "shared"
    /\ RecOf(n).spooled => spool # 0
    /\ tdir' = IF RecOf(n).spooled THEN [tdir EXCEPT !["shared"] = spool] ELSE tdir
    /\ Moves(n, "placed")
    /\ UNCHANGED <<trec, latest, spool, claims, saw, staged, crossed>>

CopyFails(n) ==
    /\ JobAt(n, "client") /\ jobs[n].on = "shared" /\ RecOf(n).spooled
    /\ MarkFailed(n)

\* Otherwise StagingClient.put, in a worker thread: it reads the spooled
\* file, and put_file writes it on the pilot's side.  A task without inputs
\* gets a marker, which makes its directory.
PutInputs(n) ==
    /\ JobAt(n, "client") /\ jobs[n].on = "remote"
    /\ RecOf(n).spooled => spool # 0
    /\ jobs' = [jobs EXCEPT ![n].pc = "put", ![n].has = IF RecOf(n).spooled THEN spool ELSE 0]
    /\ UNCHANGED <<trec, latest, spool, tdir, claims, saw, staged, crossed>>

PutLands(n) ==
    /\ JobAt(n, "put")
    /\ tdir' = IF jobs[n].has # 0 THEN [tdir EXCEPT !["remote"] = jobs[n].has] ELSE tdir
    /\ crossed' = (crossed \/ jobs[n].of # latest)
    /\ jobs' = [jobs EXCEPT ![n].pc = "placed", ![n].has = 0]
    /\ UNCHANGED <<trec, latest, spool, claims, saw, staged>>

FailsTask(n) == MarkFailed(n)

PutFails(n) ==
    /\ JobAt(n, "client") \/ JobAt(n, "put")
    /\ jobs[n].on = "remote"
    /\ FailsTask(n)

\* The submit to rhapsody: the task starts on what its directory holds.
StartTask(n) ==
    /\ JobAt(n, "placed")
    /\ saw' = [saw EXCEPT ![n] = tdir[jobs[n].on]]
    /\ Moves(n, "sent")
    /\ UNCHANGED <<trec, latest, spool, tdir, claims, staged, crossed>>

-----------------------------------------------------------------------------
(* The ways a task ends, or is queued again.                               *)

EndsAs(st) ==
    /\ trec' = [trec EXCEPT ![latest].state = st]
    /\ spool' = 0
    /\ UNCHANGED <<latest, tdir, jobs, claims, saw, staged, crossed>>

TaskTerminal(st) ==
    /\ latest > 0 /\ Now.state = "RUNNING"
    /\ \E n \in 1..MaxClaims : JobAt(n, "sent") /\ jobs[n].of = latest
    /\ EndsAs(st)

CancelSubmitted ==
    /\ latest > 0 /\ Now.state \in {"QUEUED", "RUNNING"}
    /\ EndsAs("CANCELED")

KeepsSpool == spool' = spool

\* _finalize_pilot(): the record loses its member, not its directory.
PilotLost ==
    /\ latest > 0 /\ Now.state = "RUNNING"
    /\ trec' = [trec EXCEPT ![latest] = [@ EXCEPT !.state = "QUEUED", !.member = "none",
                                                  !.moved = TRUE]]
    /\ KeepsSpool
    /\ UNCHANGED <<latest, tdir, jobs, claims, saw, staged, crossed>>

-----------------------------------------------------------------------------
(* stage_in (and stage_out, which refuses alike): broker-local only.       *)

BrokerLocal    == Now.cwd # "none" /\ Now.member # "remote"

StageIn ==
    /\ latest > 0 /\ BrokerLocal
    /\ staged' = staged \cup {<<Now.cwd, Now.moved>>}
    /\ UNCHANGED <<trec, latest, spool, tdir, jobs, claims, saw, crossed>>

-----------------------------------------------------------------------------
TiNext ==
    \/ \E inputs \in BOOLEAN : SubmitTask(inputs)
    \/ SpoolFails
    \/ \E m \in Systems : ClaimTask(m)
    \/ \E n \in 1..MaxClaims :
         \/ NoClient(n) \/ CopyInputs(n) \/ CopyFails(n)
         \/ PutInputs(n) \/ PutLands(n) \/ PutFails(n) \/ StartTask(n)
    \/ \E st \in {"DONE", "FAILED"} : TaskTerminal(st)
    \/ CancelSubmitted \/ PilotLost \/ StageIn

TiSpec == TiInit /\ [][TiNext]_tiVars

-----------------------------------------------------------------------------
\* Every variable has its type.
TiTypeOK ==
    /\ \A g \in Subs : /\ trec[g].state \in {"none", "QUEUED", "RUNNING"} \cup TEnded
                       /\ trec[g].member \in Systems \cup {"none"}
                       /\ trec[g].cwd \in Systems \cup {"none"}
    /\ latest \in 0..MaxSubs /\ spool \in 0..MaxSubs /\ claims \in 0..MaxClaims
    /\ tdir \in [Systems -> 0..MaxSubs]
    /\ \A n \in 1..MaxClaims : jobs[n].pc \in {"none", "client", "put", "placed", "sent", "over"}
    /\ saw \in [1..MaxClaims -> 0..MaxSubs]
    /\ staged \subseteq Systems \X BOOLEAN
    /\ crossed \in BOOLEAN

(* "The spool must survive a re-queue ... only a terminal state releases   *)
(* it" (drop_spool): a task that is queued or runs still has its own       *)
(* inputs in the spool, however often it moved between pilots, as long as  *)
(* no earlier submission's placement ends behind its back.                 *)
SpoolSurvives ==
    latest > 0 /\ ~crossed /\ Now.state \in {"QUEUED", "RUNNING"} /\ Now.spooled
        => spool = latest

(* "a task that runs without its inputs is worse than a task that fails    *)
(* with a reason": a task is started on the inputs of its submission, also *)
(* on the second pilot, with the same exception.                           *)
StartedOnOwn ==
    \A n \in 1..MaxClaims :
        JobAt(n, "sent") /\ RecOf(n).spooled /\ jobs[n].of = latest /\ ~crossed
            => saw[n] = jobs[n].of

(* stage_in writes on the broker only where the member shares the file     *)
(* system, for a task that was not moved: "Refuse dispatcher staging for a *)
(* task the broker cannot reach".                                          *)
StagesLocally == <<"remote", FALSE>> \notin staged

=============================================================================
