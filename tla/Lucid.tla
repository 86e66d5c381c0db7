------------------------------- MODULE Lucid -------------------------------
(***************************************************************************)
(* The LUCID portal plugin (plugin_lucid.py) and the run it drives         *)
(* (lucid_flow.py).  One run slot serves every session of the plugin: a    *)
(* submit reserves it, checks its request across several awaits, and hands *)
(* it to a thread that opens three remote sessions, goes through six       *)
(* phases (shell tasks of a rhapsody session, Globus transfers, staging),  *)
(* and gives the slot back when it ends.  The plugin's shutdown cancels    *)
(* the run and then stops the runtime the run goes through.                *)
(*                                                                         *)
(* The remote services are external: a task, a transfer or a call may end  *)
(* well or badly at any time, or not answer until the phase's deadline.    *)
(* Progress figures and image names are left out.                          *)
(***************************************************************************)
EXTENDS Naturals

CONSTANTS
    LSubmits,      \* the submit requests that reach the plugin
    Wells,         \* the wells a run analyses
    MaxLucid,      \* bound: runs started
    PollRetries    \* consecutive failed polls that end a run (POLL_RETRIES)

\* No well is called "job": that is the one task of preflight and of package.
ASSUME LucidConstants ==
    PollRetries \in Nat \ {0} /\ MaxLucid \in Nat \ {0} /\ "job" \notin Wells

VARIABLES
    slot,      \* _busy: the run slot is reserved or active
    submit,    \* per request: how far _submit / _start got
    current,   \* _run: the latest run, 0 before the first
    lrun,      \* per run: the state of its thread and of what it left remotely
    shown,     \* _state: the run and the status that get_status reports
    ending,    \* shutdown: not begun, joining the run's thread, done
    ownRt,     \* the runtime made for $RADICAL_ORBIT_LUCID_BROKER
    lucidOverdue    \* the join of the thread timed out

luVars == <<slot, submit, current, lrun, shown, ending, ownRt, lucidOverdue>>

LRuns    == 1..MaxLucid
PhaseAt  == <<"preflight", "stage_in", "compute", "package", "stage_out", "fetch">>
Job      == "job"                      \* the one task of preflight and package
TaskIds  == Wells \cup {Job}
RunEnded    == {"done", "failed"}

NotStarted ==
    [pc |-> "none", phase |-> 1, sent |-> FALSE, sessions |-> 0, tries |-> 0,
     cancel |-> FALSE, expired |-> FALSE, final |-> "done", packed |-> {},
     tasks |-> [t \in TaskIds |-> "none"], bad |-> {}, transfer |-> "none",
     late |-> FALSE]

Alive      == {r \in LRuns : lrun[r].pc \in {"opening", "working", "closing", "reported"}}
Phase(r)   == PhaseAt[lrun[r].phase]
Working(r) == lrun[r].pc = "working"

LuInit ==
    /\ slot = FALSE
    /\ submit = [c \in LSubmits |-> "idle"]
    /\ current = 0
    /\ lrun = [r \in LRuns |-> NotStarted]
    /\ shown = [run |-> 0, status |-> "idle"]
    /\ ending = "up"
    /\ ownRt = "none"
    /\ lucidOverdue = FALSE

-----------------------------------------------------------------------------
(* submit: the slot is reserved under the lock before the first await.     *)

\* Mutant: the slot is looked at first and taken only when the run starts.
ReserveLate(c) == slot' = slot
Reserve(c) == slot' = TRUE

StaysTaken(c) == slot' = slot

SubmitRun(c) ==
    /\ submit[c] = "idle"
    /\ IF slot
       THEN submit' = [submit EXCEPT ![c] = "refused"] /\ StaysTaken(c)
       ELSE submit' = [submit EXCEPT ![c] = "checking"] /\ Reserve(c)
    /\ UNCHANGED <<current, lrun, shown, ending, ownRt, lucidOverdue>>

\* _runtime(), in a worker thread: the first use makes the plugin's own runtime.
Reach(c) ==
    /\ submit[c] = "checking" /\ ownRt = "none"
    /\ ownRt' = "on"
    /\ UNCHANGED <<slot, submit, current, lrun, shown, ending, lucidOverdue>>

GiveBack(c) == slot' = FALSE

\* No token, no runtime, no such endpoint, or an argument LucidRun refuses.
Reject(c) ==
    /\ submit[c] = "checking"
    /\ submit' = [submit EXCEPT ![c] = "rejected"]
    /\ GiveBack(c)
    /\ UNCHANGED <<current, lrun, shown, ending, ownRt, lucidOverdue>>

\* Everything after the last await of _start, under the lock.
Start(c) ==
    /\ submit[c] = "checking" /\ ownRt # "none" /\ current < MaxLucid
    /\ submit' = [submit EXCEPT ![c] = "started"]
    /\ current' = current + 1
    /\ lrun' = [lrun EXCEPT ![current + 1] =
                  [NotStarted EXCEPT !.pc = "opening", !.late = (ending # "up")]]
    /\ shown' = [run |-> current + 1, status |-> "new"]
    /\ slot' = TRUE
    /\ UNCHANGED <<ending, ownRt, lucidOverdue>>

-----------------------------------------------------------------------------
(* The thread of a run.                                                    *)

\* _on_update: a run that is no longer the plugin's is not shown.
Shows(r, status) ==
    shown' = IF current = r THEN [run |-> r, status |-> status] ELSE shown

RunOnly(r) == UNCHANGED <<slot, submit, current, ending, ownRt, lucidOverdue>>

\* The except clause of run(): on to the finally clause.
Fails(r) ==
    /\ lrun' = [lrun EXCEPT ![r].pc = "closing", ![r].final = "failed"]
    /\ Shows(r, "running")
    /\ RunOnly(r)

\* The phase's function returned: the next one, or the end of the loop.
PhaseDone(r, rec) ==
    /\ lrun' = [lrun EXCEPT ![r] =
                  IF rec.phase = 6 THEN [rec EXCEPT !.pc = "closing"]
                  ELSE [rec EXCEPT !.phase = @ + 1, !.sent = FALSE, !.tries = 0,
                                   !.expired = FALSE, !.tasks[Job] = "none"]]
    /\ Shows(r, "running")
    /\ RunOnly(r)

\* get_plugin of globus, rhapsody and staging, in this order.
Open(r) ==
    /\ lrun[r].pc = "opening" /\ lrun[r].sessions < 3
    /\ \/ /\ lrun' = [lrun EXCEPT ![r].sessions = @ + 1,
                                  ![r].pc = IF lrun[r].sessions = 2 THEN "working" ELSE @]
          /\ Shows(r, "running")
          /\ RunOnly(r)
       \/ Fails(r)

\* _shell(): the tasks whose end the phase waits for.
ShellTasks(r) ==
    CASE Phase(r) \in {"preflight", "package"} -> {Job}
      [] Phase(r) = "compute" -> Wells
      [] OTHER -> {}

InShell(r)    == Working(r) /\ ShellTasks(r) # {}
InTransfer(r) == Working(r) /\ Phase(r) \in {"stage_in", "stage_out"}

SubmitLucid(r) ==
    /\ InShell(r) /\ ~lrun[r].sent
    /\ \/ /\ lrun' = [lrun EXCEPT ![r].sent = TRUE,
                       ![r].tasks = [t \in TaskIds |->
                           IF t \in ShellTasks(r) THEN "running" ELSE lrun[r].tasks[t]]]
          /\ UNCHANGED shown
          /\ RunOnly(r)
       \/ Fails(r)

\* _sleep(): a cancelled run ends here.
Sleeps(r, rec) ==
    IF rec.cancel
    THEN Fails(r)
    ELSE /\ lrun' = [lrun EXCEPT ![r] = rec]
         /\ Shows(r, "running")
         /\ RunOnly(r)

\* _retry(): a failed poll is tried again after a sleep, and ends the phase
\* when PollRetries of them failed in a row.
PollFails(r) ==
    /\ InShell(r) /\ lrun[r].sent
    /\ IF lrun[r].tries = PollRetries - 1
       THEN Fails(r)
       ELSE Sleeps(r, [lrun[r] EXCEPT !.tries = @ + 1])

TasksEnded(r) == \A t \in ShellTasks(r) : lrun[r].tasks[t] \in RunEnded
FailedWells(r) == {w \in Wells : lrun[r].tasks[w] = "failed"}

DropsFailed(r)  == Wells \ lrun[r].bad

\* What the phase makes of its ended tasks: _check of the one task, the wells
\* that failed, the package without them.
Judged(r) ==
    CASE Phase(r) = "compute" ->
           IF FailedWells(r) = Wells THEN Fails(r)
           ELSE PhaseDone(r, [lrun[r] EXCEPT !.bad = FailedWells(r)])
      [] Phase(r) = "package" ->
           IF lrun[r].tasks[Job] = "failed" THEN Fails(r)
           ELSE PhaseDone(r, [lrun[r] EXCEPT !.packed = DropsFailed(r)])
      [] OTHER ->
           \/ Fails(r)      \* the task failed, or staging cannot read scratch
           \/ lrun[r].tasks[Job] = "done" /\ PhaseDone(r, lrun[r])

PollTasks(r) ==
    /\ InShell(r) /\ lrun[r].sent
    /\ IF TasksEnded(r) THEN Judged(r)
       ELSE IF lrun[r].expired THEN Fails(r)
       ELSE Sleeps(r, [lrun[r] EXCEPT !.tries = 0])

-----------------------------------------------------------------------------
(* A Globus transfer: submitted, then polled until it ends, or until the   *)
(* run gives up and asks for its cancellation.                             *)

SubmitTransfer(r) ==
    /\ InTransfer(r) /\ ~lrun[r].sent
    /\ \/ /\ lrun' = [lrun EXCEPT ![r].sent = TRUE, ![r].transfer = "active"]
          /\ UNCHANGED shown
          /\ RunOnly(r)
       \/ Fails(r)

\* The except clause of _globus_wait: cancel_task, whatever comes of it.
GivesUp(r) ==
    /\ lrun' = [lrun EXCEPT ![r].pc = "closing", ![r].final = "failed",
                            ![r].transfer = "given up"]
    /\ Shows(r, "running")
    /\ RunOnly(r)

GivesUpOnPoll(r) == GivesUp(r)

SleepsOrGivesUp(r, rec) ==
    IF rec.cancel THEN GivesUp(r) ELSE Sleeps(r, rec)

TransferPollFails(r) ==
    /\ InTransfer(r) /\ lrun[r].sent
    /\ IF lrun[r].tries = PollRetries - 1
       THEN GivesUpOnPoll(r)
       ELSE SleepsOrGivesUp(r, [lrun[r] EXCEPT !.tries = @ + 1])

PollTransfer(r) ==
    /\ InTransfer(r) /\ lrun[r].sent
    /\ CASE lrun[r].transfer = "succeeded" -> PhaseDone(r, lrun[r])
         [] lrun[r].transfer = "failed" -> Fails(r)
         [] lrun[r].transfer = "inactive" -> GivesUp(r)
         [] OTHER -> IF lrun[r].expired THEN GivesUp(r)
                     ELSE SleepsOrGivesUp(r, [lrun[r] EXCEPT !.tries = 0])

\* The previews through the staging plugin.
FetchImages(r) ==
    /\ Working(r) /\ Phase(r) = "fetch"
    /\ PhaseDone(r, lrun[r]) \/ Fails(r)

\* The finally clause of run(): every session that was opened is closed.
CloseOne(r) ==
    /\ lrun[r].pc = "closing" /\ lrun[r].sessions > 0
    /\ lrun' = [lrun EXCEPT ![r].sessions = @ - 1]
    /\ UNCHANGED shown
    /\ RunOnly(r)

Report(r) ==
    /\ lrun[r].pc = "closing" /\ lrun[r].sessions = 0
    /\ lrun' = [lrun EXCEPT ![r].pc = "reported"]
    /\ Shows(r, lrun[r].final)
    /\ RunOnly(r)

\* _execute's finally clause: the slot is free again; of the run only its
\* outcome is still asked for.
ReleaseRun(r) ==
    /\ lrun[r].pc = "reported"
    /\ lrun' = [lrun EXCEPT ![r] = [NotStarted EXCEPT !.pc = "over",
                  !.final = lrun[r].final, !.cancel = lrun[r].cancel]]
    /\ slot' = IF current = r THEN FALSE ELSE slot
    /\ UNCHANGED <<submit, current, shown, ending, ownRt, lucidOverdue>>

-----------------------------------------------------------------------------
(* External: the remote tasks and transfers, and the time of a phase.      *)
(* What they do once the run has stopped looking is left out.              *)

LucidTaskEnds(r, t) ==
    /\ Working(r) /\ lrun[r].tasks[t] = "running"
    /\ \E s \in RunEnded : lrun' = [lrun EXCEPT ![r].tasks[t] = s]
    /\ UNCHANGED <<slot, submit, current, shown, ending, ownRt, lucidOverdue>>

TransferMoves(r) ==
    /\ Working(r) /\ lrun[r].transfer \in {"active", "inactive"}
    /\ \E s \in {"succeeded", "failed", "inactive"} :
         lrun' = [lrun EXCEPT ![r].transfer = s]
    /\ UNCHANGED <<slot, submit, current, shown, ending, ownRt, lucidOverdue>>

RunTimesOut(r) ==
    /\ Working(r) /\ lrun[r].sent /\ ~lrun[r].expired
    /\ lrun' = [lrun EXCEPT ![r].expired = TRUE]
    /\ UNCHANGED <<slot, submit, current, shown, ending, ownRt, lucidOverdue>>

-----------------------------------------------------------------------------
(* shutdown: the run's thread is cancelled and joined for at most 60 s,    *)
(* then the plugin's own runtime is stopped.                               *)

RunToJoin == current \in Alive

ShutdownBegins ==
    /\ ending = "up"
    /\ IF RunToJoin
       THEN /\ lrun' = [lrun EXCEPT ![current].cancel = TRUE]
            /\ ending' = "joining"
            /\ UNCHANGED ownRt
       ELSE /\ ending' = "done"
            /\ ownRt' = IF ownRt = "on" THEN "stopped" ELSE ownRt
            /\ UNCHANGED lrun
    /\ UNCHANGED <<slot, submit, current, shown, lucidOverdue>>

\* The thread to join is the one read when the shutdown began.
RunsJoined == \A r \in LRuns : lrun[r].cancel => r \notin Alive

LucidEnds(timedOut) ==
    /\ ending = "joining"
    /\ timedOut # RunsJoined
    /\ lucidOverdue' = timedOut
    /\ ending' = "done"
    /\ ownRt' = IF ownRt = "on" THEN "stopped" ELSE ownRt
    /\ UNCHANGED <<slot, submit, current, lrun, shown>>

-----------------------------------------------------------------------------
RunThread(r) ==
    \/ Open(r) \/ SubmitLucid(r) \/ PollFails(r) \/ PollTasks(r)
    \/ SubmitTransfer(r) \/ TransferPollFails(r) \/ PollTransfer(r)
    \/ FetchImages(r) \/ CloseOne(r) \/ Report(r) \/ ReleaseRun(r)

LuNext ==
    \/ \E c \in LSubmits : SubmitRun(c) \/ Reach(c) \/ Reject(c) \/ Start(c)
    \/ \E r \in LRuns : RunThread(r)
    \/ \E r \in LRuns : TransferMoves(r) \/ RunTimesOut(r)
    \/ \E r \in LRuns, t \in TaskIds : LucidTaskEnds(r, t)
    \/ ShutdownBegins
    \/ \E timedOut \in BOOLEAN : LucidEnds(timedOut)

(* The worker threads and the run's thread are scheduled, a phase's time   *)
(* passes, and a submit that is being checked comes to an end.             *)
LuFair ==
    /\ \A r \in LRuns : WF_luVars(RunThread(r)) /\ WF_luVars(RunTimesOut(r))
    /\ \A c \in LSubmits : WF_luVars(Reach(c) \/ Reject(c) \/ Start(c))

LuSpec == LuInit /\ [][LuNext]_luVars /\ LuFair

-----------------------------------------------------------------------------
\* Every variable has its type.
LuTypeOK ==
    /\ slot \in BOOLEAN
    /\ submit \in [LSubmits -> {"idle", "checking", "refused", "rejected", "started"}]
    /\ current \in 0..MaxLucid
    /\ \A r \in LRuns :
         /\ lrun[r].pc \in {"none", "opening", "working", "closing", "reported", "over"}
         /\ lrun[r].phase \in 1..6 /\ lrun[r].sessions \in 0..3
         /\ lrun[r].tries \in 0..PollRetries - 1
         /\ lrun[r].bad \subseteq Wells /\ lrun[r].packed \subseteq Wells
    /\ shown \in [run : 0..MaxLucid, status : {"idle", "new", "running"} \cup RunEnded]
    /\ ending \in {"up", "joining", "done"}
    /\ ownRt \in {"none", "on", "stopped"}
    /\ lucidOverdue \in BOOLEAN

(* "One run at a time" (the module's docstring): the slot, reserved before *)
(* the first await of _submit, keeps two overlapping submits, and a submit *)
(* that overlaps the end of a run, from starting a second thread.          *)
OneRun == \A r, s \in Alive : r = s

(* While the slot is free the latest run has reported its end, whichever   *)
(* way the submits around it went: a rejected submit never gives the slot  *)
(* of a run away.                                                          *)
FreeIsReported == ~slot /\ current # 0 => shown = [run |-> current, status |-> lrun[current].final]

(* A run that ends leaves no transfer running unattended: whatever made it *)
(* give up (a cancel, failed polls, an expired credential, the deadline),  *)
(* the transfer has ended or its cancellation was asked for, and every     *)
(* remote session it opened was closed.                                    *)
NothingLeftRemote ==
    \A r \in LRuns : lrun[r].pc = "reported" =>
        lrun[r].transfer \notin {"active", "inactive"} /\ lrun[r].sessions = 0

(* The package holds no output of a well whose task failed.                *)
PackedIsDone ==
    \A r \in LRuns : \A w \in lrun[r].packed : lrun[r].tasks[w] = "done"

(* "stop the run first: it may still use the runtime stopped below": when  *)
(* the plugin's runtime is stopped no run goes on over it, other than one  *)
(* started after the shutdown began or one that outlived the 60 s join.    *)
RunsBeforeRuntime ==
    ownRt = "stopped" => \A r \in Alive : lrun[r].late \/ lucidOverdue

(* The slot comes back: a submit that is rejected, and a run whose remote  *)
(* tasks or transfers never end, do not hold it for ever.                  *)
SlotReturns == slot ~> ~slot
=============================================================================
