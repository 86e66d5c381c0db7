----------------------------- MODULE MCServices -----------------------------
(***************************************************************************)
(* The services around the core for TLC: facilities and Globus, replay, queue *)
(* information, the gateway, the two workflow plugins, and the files, clients *)
(* and coalesced writes of the dispatcher.  A behaviour follows one part and *)
(* leaves the others as they start, so that the states of the parts add up. *)
(***************************************************************************)
EXTENDS Globus, Facility, XgWorkflow, Lucid, Replay,
        QueueCache, GatewayEvents, TaskInputs, ChildClients, EndpointTasks,
        TaskBatches, Placement

VARIABLE focus     \* the part whose steps this behaviour consists of

MCPool == [u1 |-> "p", u2 |-> "q", u3 |-> "unknown"]

\* Two shapes of node: the second size of the first member is never grown.
MCSize(c, g, b) == [cpus |-> c, gpus |-> g, backend |-> b]
MCSmall == MCSize(1, 0, "dragon_v1")
MCBig   == MCSize(2, 2, "radical_pilot")
MCDecl(z, zs, sw, mem) ==
  [size |-> z, sizes |-> zs,
   attributes |-> [software |-> sw, mem |-> mem, labels |-> [site |-> {"a"}]]]
MCDecls  == {MCDecl(MCSmall, {MCSmall, MCBig}, {"x"}, 0), MCDecl(MCBig, {MCBig}, {}, 1)}
MCLegacy == MCDecl(MCBig, {MCSmall, MCBig}, {}, 0)

\* Processes without a core count, software, and fewer cores than ranks.
MCRaw(c, r, g, sw, p) ==
  [cores |-> c, ranks |-> r, gpus |-> g, software |-> sw, mem |-> g \div 2,
   mpi |-> c = 0, labels |-> [site |-> "a"], priority |-> p]
MCRaws == {MCRaw(0, 2, 2, {}, 0), MCRaw(1, 1, 0, {"x"}, 1), MCRaw(1, 2, 0, {}, 0)}

mcVars == <<focus, gcVars, gwVars, fcVars, xgVars, luVars, rpVars, qcVars,
            gtVars, tiVars, ccVars, emVars, tbVars, plVars>>

MCInit == /\ focus \in {"globus credentials", "globus wait", "facility",
                        "xgfabric", "lucid", "replay", "queue info",
                        "gateway", "task inputs", "child clients",
                        "endpoint tasks", "task batches", "placement"}
          /\ GcInit /\ GwInit /\ FcInit /\ XgInit /\ LuInit /\ RpInit
          /\ QcInit /\ GtInit /\ TiInit /\ CcInit /\ EmInit /\ TbInit
          /\ PlInit
          /\ focus # "placement" => fleet.kind = "legacy"
          /\ focus # "child clients" => knows
          /\ focus # "globus wait" => deadline = 0
          /\ focus # "replay" => matching = {}
          /\ focus # "facility" => valid = {}

GcStep == /\ focus = "globus credentials" /\ GcNext
          /\ UNCHANGED <<focus, gwVars, fcVars, xgVars, luVars, rpVars, qcVars, gtVars,
                         tiVars, ccVars, emVars, tbVars, plVars>>
GwStep == /\ focus = "globus wait" /\ GwNext
          /\ UNCHANGED <<focus, gcVars, fcVars, xgVars, luVars, rpVars, qcVars, gtVars,
                         tiVars, ccVars, emVars, tbVars, plVars>>
FcStep == /\ focus = "facility" /\ FcNext
          /\ UNCHANGED <<focus, gcVars, gwVars, xgVars, luVars, rpVars, qcVars, gtVars,
                         tiVars, ccVars, emVars, tbVars, plVars>>
XgStep == /\ focus = "xgfabric" /\ XgNext
          /\ UNCHANGED <<focus, gcVars, gwVars, fcVars, luVars, rpVars, qcVars, gtVars,
                         tiVars, ccVars, emVars, tbVars, plVars>>
LuStep == /\ focus = "lucid" /\ LuNext
          /\ UNCHANGED <<focus, gcVars, gwVars, fcVars, xgVars, rpVars, qcVars, gtVars,
                         tiVars, ccVars, emVars, tbVars, plVars>>
RpStep == /\ focus = "replay" /\ RpNext
          /\ UNCHANGED <<focus, gcVars, gwVars, fcVars, xgVars, luVars, qcVars, gtVars,
                         tiVars, ccVars, emVars, tbVars, plVars>>
QcStep == /\ focus = "queue info" /\ QcNext
          /\ UNCHANGED <<focus, gcVars, gwVars, fcVars, xgVars, luVars, rpVars, gtVars,
                         tiVars, ccVars, emVars, tbVars, plVars>>
GtStep == /\ focus = "gateway" /\ GtNext
          /\ UNCHANGED <<focus, gcVars, gwVars, fcVars, xgVars, luVars, rpVars, qcVars,
                         tiVars, ccVars, emVars, tbVars, plVars>>
TiStep == /\ focus = "task inputs" /\ TiNext
          /\ UNCHANGED <<focus, gcVars, gwVars, fcVars, xgVars, luVars, rpVars, qcVars,
                         gtVars, ccVars, emVars, tbVars, plVars>>
CcStep == /\ focus = "child clients" /\ CcNext
          /\ UNCHANGED <<focus, gcVars, gwVars, fcVars, xgVars, luVars, rpVars, qcVars,
                         gtVars, tiVars, emVars, tbVars, plVars>>
EmStep == /\ focus = "endpoint tasks" /\ EmNext
          /\ UNCHANGED <<focus, gcVars, gwVars, fcVars, xgVars, luVars, rpVars, qcVars,
                         gtVars, tiVars, ccVars, tbVars, plVars>>
TbStep == /\ focus = "task batches" /\ TbNext
          /\ UNCHANGED <<focus, gcVars, gwVars, fcVars, xgVars, luVars, rpVars, qcVars,
                         gtVars, tiVars, ccVars, emVars, plVars>>
PlStep == /\ focus = "placement" /\ PlNext
          /\ UNCHANGED <<focus, gcVars, gwVars, fcVars, xgVars, luVars, rpVars, qcVars,
                         gtVars, tiVars, ccVars, emVars, tbVars>>

MCNext == GcStep \/ GwStep \/ FcStep \/ XgStep \/ LuStep \/ RpStep \/ QcStep
          \/ GtStep \/ TiStep \/ CcStep \/ EmStep \/ TbStep \/ PlStep
MCSpec == MCInit /\ [][MCNext]_mcVars

\* Bound: a second workflow is followed until its session closes or its
\* first simulation is answered.
FewRuns == xrun = 2 => ~xclosed /\ local[2].results = {}

\* Credentials and remote calls: none is kept without a session, a rotation
\* disturbs no call, good credentials are not refused, and a wait says what is
\* true (plugin_globus, plugin_sfapi_*, plugin_iri_*).
FacilitySound ==
  /\ GcTypeOK /\ ClientsAreHeld /\ RotationSparesCalls /\ NeverRevived
  /\ GwTypeOK /\ FalseIsCurrent /\ PollsOnSchedule
  /\ FcTypeOK /\ GoodIsNotRejected /\ ManagersAreHeld

\* Workflows: one run at a time, and whatever it started remotely is answered
\* for when it ends (plugin_xgfabric, plugin_lucid, lucid_flow).
WorkflowSound ==
  /\ XgTypeOK /\ OneWorkflow /\ SimsAreAnsweredFor
  /\ LuTypeOK /\ OneRun /\ FreeIsReported /\ NothingLeftRemote /\ PackedIsDone
  /\ RunsBeforeRuntime

\* What consumers see: no gap goes untold, answers are recent, no event is
\* missed by a client that kept up (plugin_replay, queue_info, gateway).
ViewsSound ==
  /\ RpTypeOK /\ SplicedIsComplete /\ RetainedIsSuffix
  /\ QcTypeOK /\ AnswersAreRecent /\ ForcedIsFresh
  /\ GtTypeOK /\ NoEventMissed /\ TopologyIsCurrent

\* The dispatcher around its queue: tasks start on their own inputs, on a
\* pilot they fit, cached clients and endpoint tasks are accounted for, and
\* nothing told is lost (plugin_task_dispatcher).
DispatcherSound ==
  /\ TiTypeOK /\ SpoolSurvives /\ StartedOnOwn /\ StagesLocally
  /\ CcTypeOK /\ SkippedIsPersistent
  /\ EmTypeOK /\ UnderWayIsMapped /\ FailedIsForgotten /\ CancelIsAddressed
  /\ TbTypeOK /\ BufferedIsArmed /\ ToldIsSaved /\ ShutdownLosesNothing
  /\ PlTypeOK /\ QueuedIsServable /\ RunsWhereItFits /\ AskFits

\* What no step does: end the clean-up of a failed workflow without its pilot,
\* drop the cached client of a live session (_cleanup_on_failure,
\* _touch_child_sessions).
ServiceSteps ==
  /\ FailedTakesPilot /\ DropsOnlyEnded
=============================================================================
