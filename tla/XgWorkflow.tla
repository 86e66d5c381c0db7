----------------------------- MODULE XgWorkflow -----------------------------
(***************************************************************************)
(* One session of the XGFabric plugin: start and stop of its workflow, the *)
(* background task that takes the workflow through its phases, and what is *)
(* cleaned up when it fails or is cancelled.                               *)
(*                                                                         *)
(* Every remote call (submit the pilot, submit a batch, wait, cancel) runs *)
(* in a thread.  A cancelled task stops waiting for its thread; the thread *)
(* goes on and what it does to the remote side still happens: such calls   *)
(* are in `air'.  A cancel that finds the result of the call at hand wins  *)
(* over it.  One run is one call of start_workflow; the session has one    *)
(* `_state' record, which belongs to the last run started.                 *)
(***************************************************************************)
EXTENDS Naturals, FiniteSets

CONSTANTS
    Sims,       \* the simulations of a run
    XgBatch,  \* how many of them are submitted together
    MaxRuns     \* bound: how often the workflow is started

ASSUME XgConstants == IsFiniteSet(Sims) /\ XgBatch \in Nat \ {0} /\ MaxRuns \in Nat

VARIABLES
    xstatus,   \* `_state.status'
    xrun,      \* the run `_state' and `_workflow_task' belong to
    recorded,  \* `_state.pilot_jobs' holds the pilot of xrun
    listed,    \* the allocate cluster is in `_state.allocate_clusters'
    pend,      \* the tasks of `_pending_tasks'
    xpc,       \* where the task of each run is
    local,     \* its locals: sims to submit, the batch, results, an allocate cluster?
    cancelling,\* task.cancel() was called and not delivered yet
    queue,     \* the tasks its clean-up still has to cancel
    aim,       \* the run whose pilot its clean-up cancels
    air,       \* calls whose thread is under way
    ready,     \* the call the task waits for has returned
    xclosed,   \* the session is closed
    xsim,      \* the remote side: each run's simulations
    xpilot     \* the remote side: each run's pilot job

xgVars == <<xstatus, xrun, recorded, listed, pend, xpc, local, cancelling,
            queue, aim, air, ready, xclosed, xsim, xpilot>>

XRuns == 1 .. MaxRuns
Classes == {"immediate", "allocate"}
Calling == {"acquire", "pilot", "stage", "submit", "wait", "migrate", "train",
            "evaluate"}
Executing == {"made"} \cup Calling
Cleaning == {"tasks", "pilots"}

Fresh == [left |-> Sims, batch |-> {}, results |-> {}, allocate |-> FALSE]

XgInit ==
    /\ xstatus = "idle" /\ xrun = 0 /\ recorded = FALSE /\ listed = FALSE
    /\ pend = {} /\ xclosed = FALSE
    /\ xpc = [r \in XRuns |-> "none"]
    /\ local = [r \in XRuns |-> Fresh]
    /\ cancelling = [r \in XRuns |-> FALSE]
    /\ queue = [r \in XRuns |-> {}]
    /\ aim = [r \in XRuns |-> 0]
    /\ air = {}
    /\ ready = [r \in XRuns |-> FALSE]
    /\ xsim = [r \in XRuns |-> [s \in Sims |-> "no"]]
    /\ xpilot = [r \in XRuns |-> "no"]

xgRemote == <<air, xsim, xpilot>>
cleaning == <<queue, aim>>

-----------------------------------------------------------------------------

(***************************************************************************)
(* The session's routes.  load_config and _load_resource_config never      *)
(* suspend, so start_workflow is one step.                                 *)
(***************************************************************************)
StartWorkflow ==
    /\ xstatus # "running"
    /\ ~xclosed /\ xrun < MaxRuns
    /\ xstatus' = "running" /\ xrun' = xrun + 1 /\ recorded' = FALSE
    /\ xpc' = [xpc EXCEPT ![xrun + 1] = "made"]
    /\ UNCHANGED <<listed, pend, local, cancelling, cleaning, ready, xclosed,
                   xgRemote>>

RunAlive(r) == xpc[r] \notin {"none", "done"}

StopWorkflow ==
    /\ xstatus = "running" /\ ~xclosed
    /\ cancelling' = [cancelling EXCEPT ![xrun] = RunAlive(xrun)]
    /\ UNCHANGED <<xstatus, xrun, recorded, listed, pend, xpc, local,
                   cleaning, ready, xclosed, xgRemote>>

CloseXg ==
    /\ ~xclosed /\ xclosed' = TRUE
    /\ cancelling' = IF xrun > 0 /\ RunAlive(xrun)
                     THEN [cancelling EXCEPT ![xrun] = TRUE] ELSE cancelling
    /\ UNCHANGED <<xstatus, xrun, recorded, listed, pend, xpc, local,
                   cleaning, ready, xgRemote>>

\* The cluster lists of a running workflow are not refreshed.
GetStatus ==
    /\ ~xclosed /\ xstatus # "running"
    /\ \E known \in SUBSET Classes : listed' = ("allocate" \in known)
    /\ UNCHANGED <<xstatus, xrun, recorded, pend, xpc, local, cancelling,
                   cleaning, ready, xclosed, xgRemote>>

-----------------------------------------------------------------------------
(***************************************************************************)
(* The end of a run.  status changes and `_pending_tasks' is taken before  *)
(* the clean-up first suspends; the pilots are looked up in `_state' only  *)
(* after the last task is cancelled.                                       *)
(***************************************************************************)
\* Simulations the code lets go of: nobody will cancel or await them.
Stray(xs) == [r \in XRuns |-> [s \in Sims |->
                 IF <<r, s>> \in xs /\ xsim[r][s] = "run" THEN "stray"
                 ELSE xsim[r][s]]]

TakesPending(r) == queue' = [queue EXCEPT ![r] = pend] /\ pend' = {}

FailRun(r) ==
    /\ xstatus' = "failed"
    /\ TakesPending(r)
    /\ xpc' = [xpc EXCEPT ![r] = "tasks"]
    /\ ready' = [ready EXCEPT ![r] = FALSE]
    /\ local' = [local EXCEPT ![r] = Fresh]
    /\ UNCHANGED <<xrun, recorded, listed, xclosed, aim>>

\* A task that is cancelled before its first step never enters its body.
CancelEarly(r) ==
    /\ xpc[r] = "made" /\ cancelling[r]
    /\ xpc' = [xpc EXCEPT ![r] = "done"]
    /\ cancelling' = [cancelling EXCEPT ![r] = FALSE]
    /\ UNCHANGED <<xstatus, xrun, recorded, listed, pend, local, cleaning,
                   ready, xclosed, xgRemote>>

\* A run that ends while it submits a batch never learns the uids.
Unknown(r) == IF xpc[r] = "submit" THEN {r} \X local[r].batch ELSE {}

CancelRun(r) ==
    /\ xpc[r] \in Calling /\ cancelling[r]
    /\ FailRun(r)
    /\ cancelling' = [cancelling EXCEPT ![r] = FALSE]
    /\ xsim' = Stray(Unknown(r))
    /\ UNCHANGED <<air, xpilot>>

\* Any phase may raise: a call that fails, a task that ends badly.
RaiseRun(r) ==
    /\ xpc[r] \in Calling \ {"wait"} /\ ~cancelling[r]
    /\ FailRun(r)
    /\ xsim' = Stray(Unknown(r))
    /\ UNCHANGED <<cancelling, air, xpilot>>

CleanTask(r) ==
    /\ xpc[r] = "tasks" /\ ~cancelling[r]
    /\ \E x \in queue[r] :
         /\ queue' = [queue EXCEPT ![r] = @ \ {x}]
         /\ \E outcome \in {"canceled", "deaf"} :
              xsim' = [xsim EXCEPT ![x[1]][x[2]] =
                         IF @ = "run" THEN outcome ELSE @]
    /\ UNCHANGED <<xstatus, xrun, recorded, listed, pend, xpc, local, aim,
                   cancelling, air, ready, xclosed, xpilot>>

\* Only a cluster that get_status() once listed is found for the cancel, and
\* the pilots are those of `_state' as it is now: a later run's, if one started.
CleanPilots(r) ==
    /\ xpc[r] = "tasks" /\ queue[r] = {} /\ ~cancelling[r]
    /\ xpc' = [xpc EXCEPT ![r] = IF recorded /\ listed THEN "pilots" ELSE "done"]
    /\ aim' = [aim EXCEPT ![r] = xrun]
    /\ UNCHANGED <<xstatus, xrun, recorded, listed, pend, local, cancelling,
                   queue, ready, xclosed, xgRemote>>

CleanPilot(r) ==
    /\ xpc[r] = "pilots" /\ ~cancelling[r]
    /\ xpc' = [xpc EXCEPT ![r] = "done"]
    /\ \E outcome \in {"canceled", "deaf"} :
         xpilot' = [xpilot EXCEPT ![aim[r]] = IF @ = "up" THEN outcome ELSE @]
    /\ UNCHANGED <<xstatus, xrun, recorded, listed, pend, local, cancelling,
                   cleaning, air, ready, xclosed, xsim>>

\* close() cancels the task once more while it cleans up: it just ends.
CleanCut(r) ==
    /\ xpc[r] \in Cleaning /\ cancelling[r]
    /\ xpc' = [xpc EXCEPT ![r] = "done"]
    /\ cancelling' = [cancelling EXCEPT ![r] = FALSE]
    /\ xsim' = Stray(queue[r])
    /\ queue' = [queue EXCEPT ![r] = {}]
    /\ UNCHANGED <<xstatus, xrun, recorded, listed, pend, local, aim, ready,
                   xclosed, air, xpilot>>

-----------------------------------------------------------------------------
(***************************************************************************)
(* _execute_workflow.  Whether the allocate endpoint is online is asked of *)
(* the runtime's own topology, which the model leaves open.                *)
(***************************************************************************)
NextBatch(left) ==
    CHOOSE b \in SUBSET left :
        Cardinality(b) = IF Cardinality(left) < XgBatch
                         THEN Cardinality(left) ELSE XgBatch

Goes(r, phase) == xpc' = [xpc EXCEPT ![r] = phase]
Waits(r) == ready' = [ready EXCEPT ![r] = FALSE]

BeginRun(r) ==
    /\ xpc[r] = "made" /\ ~cancelling[r]
    /\ \E s \in SUBSET Classes :
         IF "immediate" \in s
         THEN /\ Goes(r, "acquire")
              /\ local' = [local EXCEPT ![r].allocate = "allocate" \in s]
              /\ UNCHANGED <<xstatus, xrun, recorded, listed, pend, queue,
                             aim, ready, xclosed>>
         ELSE FailRun(r)
    /\ UNCHANGED <<cancelling, xgRemote>>

Acquired(r) ==
    /\ xpc[r] = "acquire" /\ ~cancelling[r]
    /\ IF local[r].allocate
       THEN Goes(r, "pilot") /\ air' = air \cup {<<r, "pilot", {}>>}
       ELSE Goes(r, "stage") /\ air' = air
    /\ UNCHANGED <<xstatus, xrun, recorded, listed, pend, local, cancelling,
                   cleaning, ready, xclosed, xsim, xpilot>>

PilotSubmitted(r) ==
    /\ xpc[r] = "pilot" /\ ready[r] /\ ~cancelling[r]
    /\ recorded' = TRUE
    /\ Goes(r, "stage") /\ Waits(r)
    /\ UNCHANGED <<xstatus, xrun, listed, pend, local, cancelling, cleaning,
                   xclosed, xgRemote>>

SubmitSims(r, results) ==
    LET batch == NextBatch(local[r].left)
    IN /\ local' = [local EXCEPT ![r].batch = batch, ![r].results = results]
       /\ Goes(r, "submit")
       /\ air' = air \cup {<<r, "submit", batch>>}

Staged(r) ==
    /\ xpc[r] = "stage" /\ ~cancelling[r]
    /\ SubmitSims(r, {})
    /\ UNCHANGED <<xstatus, xrun, recorded, listed, pend, cancelling,
                   cleaning, ready, xclosed, xsim, xpilot>>

BatchSubmitted(r) ==
    /\ xpc[r] = "submit" /\ ready[r] /\ ~cancelling[r]
    /\ pend' = {r} \X local[r].batch
    /\ local' = [local EXCEPT ![r].left = @ \ local[r].batch]
    /\ Goes(r, "wait") /\ Waits(r)
    /\ UNCHANGED <<xstatus, xrun, recorded, listed, cancelling, cleaning,
                   xclosed, xgRemote>>

\* All batches are through, or the rest is given up for the pilot.
SimulationsOver(r, results) ==
    IF results = {}
    THEN /\ xstatus' = "failed" /\ Goes(r, "tasks")
    ELSE /\ xstatus' = xstatus /\ Goes(r, "migrate")

Polled(r) ==
    /\ xpc[r] = "wait" /\ ~cancelling[r]
    /\ LET over == {x \in pend : xsim[x[1]][x[2]] # "run"}
           results == local[r].results
                        \cup {x[2] : x \in {y \in over : xsim[y[1]][y[2]] = "end"}}
       IN /\ over # {}
          /\ pend' = pend \ over
          /\ CASE pend' # {} ->
                    /\ local' = [local EXCEPT ![r].results = results]
                    /\ UNCHANGED <<xstatus, xpc, air>>
               [] pend' = {} /\ local[r].left # {} ->
                    /\ SubmitSims(r, results)
                    /\ UNCHANGED xstatus
               [] OTHER ->
                    /\ local' = [local EXCEPT ![r].results = results]
                    /\ SimulationsOver(r, results)
                    /\ air' = air
    /\ UNCHANGED <<xrun, recorded, listed, cancelling, cleaning, ready,
                   xclosed, xsim, xpilot>>

\* The simulations still under way are left to themselves.
PilotOnline(r) ==
    /\ xpc[r] = "wait" /\ ~cancelling[r] /\ local[r].allocate
    /\ pend' = {} /\ xsim' = Stray(pend)
    /\ SimulationsOver(r, local[r].results)
    /\ UNCHANGED <<xrun, recorded, listed, local, cancelling, cleaning,
                   ready, xclosed, air, xpilot>>

Migrated(r) ==
    /\ xpc[r] = "migrate" /\ ~cancelling[r] /\ Goes(r, "train")
    /\ UNCHANGED <<xstatus, xrun, recorded, listed, pend, local, cancelling,
                   cleaning, ready, xclosed, xgRemote>>

Trained(r) ==
    /\ xpc[r] = "train" /\ ~cancelling[r] /\ Goes(r, "evaluate")
    /\ UNCHANGED <<xstatus, xrun, recorded, listed, pend, local, cancelling,
                   cleaning, ready, xclosed, xgRemote>>

Evaluated(r) ==
    /\ xpc[r] = "evaluate" /\ ~cancelling[r] /\ Goes(r, "done")
    /\ xstatus' = "completed"
    /\ local' = [local EXCEPT ![r] = Fresh]
    /\ UNCHANGED <<xrun, recorded, listed, pend, cancelling,
                   cleaning, ready, xclosed, xgRemote>>

-----------------------------------------------------------------------------
(***************************************************************************)
(* The remote side: the threads' calls and the simulations.                *)
(***************************************************************************)
xgSession == <<xstatus, xrun, recorded, listed, pend, xpc, local, cancelling,
             queue, aim, xclosed>>

Landed(c) ==
    /\ c \in air /\ air' = air \ {c}
    /\ IF c[2] = "pilot"
       THEN /\ xpilot' = [xpilot EXCEPT ![c[1]] = "up"]
            /\ xsim' = xsim
       ELSE /\ xsim' = [xsim EXCEPT ![c[1]] =
                          [s \in Sims |->
                             IF s \notin c[3] THEN xsim[c[1]][s]
                             ELSE IF xpc[c[1]] = "submit" THEN "run" ELSE "stray"]]
            /\ xpilot' = xpilot
    /\ ready' = [ready EXCEPT ![c[1]] = xpc[c[1]] = c[2]]
    /\ UNCHANGED xgSession

Dropped(c) ==
    /\ c \in air /\ air' = air \ {c}
    /\ UNCHANGED <<ready, xsim, xpilot, xgSession>>

SimEnds(r, s) ==
    /\ xsim[r][s] = "run"
    /\ \E how \in {"end", "fail"} : xsim' = [xsim EXCEPT ![r][s] = how]
    /\ UNCHANGED <<air, ready, xpilot, xgSession>>

RunStep(r) ==
    \/ BeginRun(r) \/ Acquired(r) \/ PilotSubmitted(r) \/ Staged(r)
    \/ BatchSubmitted(r) \/ Polled(r) \/ PilotOnline(r) \/ Migrated(r)
    \/ Trained(r) \/ Evaluated(r) \/ RaiseRun(r)

EndStep(r) ==
    \/ CancelEarly(r) \/ CancelRun(r) \/ CleanTask(r) \/ CleanPilots(r)
    \/ CleanPilot(r) \/ CleanCut(r)

XgNext ==
    \/ StartWorkflow \/ StopWorkflow \/ CloseXg \/ GetStatus
    \/ \E r \in XRuns : RunStep(r) \/ EndStep(r)
    \/ \E c \in air : Landed(c) \/ Dropped(c)
    \/ \E r \in XRuns, s \in Sims : SimEnds(r, s)

\* The event loop delivers a cancel, and the calls of a clean-up return.
XgFair == \A r \in XRuns : WF_xgVars(EndStep(r))

XgSpec == XgInit /\ [][XgNext]_xgVars /\ XgFair

-----------------------------------------------------------------------------
XgTypeOK ==
    /\ xstatus \in {"idle", "running", "completed", "failed"}
    /\ xrun \in 0 .. MaxRuns
    /\ recorded \in BOOLEAN /\ listed \in BOOLEAN /\ xclosed \in BOOLEAN
    /\ pend \subseteq XRuns \X Sims
    /\ xpc \in [XRuns -> {"none", "done"} \cup Executing \cup Cleaning]
    /\ local \in [XRuns -> [left : SUBSET Sims, batch : SUBSET Sims,
                            results : SUBSET Sims, allocate : BOOLEAN]]
    /\ cancelling \in [XRuns -> BOOLEAN] /\ ready \in [XRuns -> BOOLEAN]
    /\ queue \in [XRuns -> SUBSET (XRuns \X Sims)]
    /\ aim \in [XRuns -> 0 .. MaxRuns]
    /\ air \subseteq XRuns \X {"pilot", "submit"} \X SUBSET Sims
    /\ xsim \in [XRuns -> [Sims -> {"no", "run", "end", "fail", "canceled", "deaf",
                                "stray"}]]
    /\ xpilot \in [XRuns -> {"no", "up", "canceled", "deaf"}]

(***************************************************************************)
(* start_workflow() refuses with 409 while a workflow runs, so a run that  *)
(* executes is the last one started and `_state' is its own: an earlier    *)
(* run may at most still be cleaning up.                                   *)
(***************************************************************************)
OneWorkflow ==
    \A r \in XRuns : xpc[r] \in Executing => r = xrun /\ xstatus = "running"

(***************************************************************************)
(* A simulation that runs is in the batch its workflow waits for, or in    *)
(* the list a clean-up is still working off; the exceptions are the three  *)
(* the code makes: the batch given up for the pilot, the batch whose       *)
(* submission had not returned when the run ended, and the rest of a       *)
(* clean-up that close() cuts short.                                       *)
(***************************************************************************)
SimsAreAnsweredFor ==
    \A r \in XRuns, s \in Sims :
        xsim[r][s] = "run" =>
            \/ xpc[r] = "wait" /\ <<r, s>> \in pend
            \/ xpc[r] = "submit" /\ s \in local[r].batch
            \/ <<r, s>> \in queue[r]

(***************************************************************************)
(* A failed run whose pilot `_state' still names, on a cluster that is     *)
(* listed, does not end its clean-up without a cancel of that pilot unless *)
(* the clean-up itself is cancelled: _cleanup_on_failure() looks the       *)
(* pilots up after the last of its tasks, with starts and stops between.   *)
(***************************************************************************)
FailedTakesPilot ==
    [][\A r \in XRuns :
         (/\ xpc[r] \in Cleaning /\ xpc'[r] = "done" /\ ~cancelling[r]
          /\ r = xrun /\ recorded /\ listed) => xpilot'[r] # "up"]_xgVars

(***************************************************************************)
(* A stopped or closed workflow ends, wherever the cancel finds it: in a   *)
(* batch whose simulations never end, or in the middle of its clean-up.    *)
(***************************************************************************)
StopEnds == \A r \in XRuns : cancelling[r] ~> xpc[r] = "done"

=============================================================================
