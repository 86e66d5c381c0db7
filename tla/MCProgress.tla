----------------------------- MODULE MCProgress -----------------------------
(***************************************************************************)
(* What the plugins, the services and the dispatcher must eventually do, for TLC: *)
(* the parts that promise an answer, an end or a report, each under the fairness *)
(* of its own loop.  A behaviour follows one part and leaves the others as they *)
(* start, so that the states of the parts add up.                          *)
(***************************************************************************)
EXTENDS RhapsodySession, PluginSessions, HostLoop, Psij,
        StatusPolls, Facility, XgWorkflow, Lucid, Replay, GatewayEvents,
        ChildClients, TaskBatches

VARIABLE focus     \* the part whose steps this behaviour consists of

MCPool == [u1 |-> "p", u2 |-> "q", u3 |-> "unknown"]

mcVars == <<focus, rsVars, psVars, hlVars, pjVars, ptVars, spVars, fcVars,
            xgVars, luVars, rpVars, gtVars, ccVars, tbVars>>

MCInit == /\ focus \in {"rhapsody session", "sessions", "host", "psij jobs",
                        "psij tunnels", "status polls", "facility",
                        "xgfabric", "lucid", "replay", "gateway",
                        "child clients", "task batches"}
          /\ RsInit /\ PsInit /\ HlInit /\ PjInit /\ PtInit /\ SpInit
          /\ FcInit /\ XgInit /\ LuInit /\ RpInit /\ GtInit /\ CcInit
          /\ TbInit
          /\ focus # "psij jobs" => holder = "none"
          /\ focus # "status polls" => api = "globus"
          /\ focus # "child clients" => knows
          /\ focus # "replay" => matching = {}
          /\ focus # "facility" => valid = {}

RsStep == /\ focus = "rhapsody session" /\ RsNext
          /\ UNCHANGED <<focus, psVars, hlVars, pjVars, ptVars, spVars, fcVars, xgVars,
                         luVars, rpVars, gtVars, ccVars, tbVars>>
PsStep == /\ focus = "sessions" /\ PsNext
          /\ UNCHANGED <<focus, rsVars, hlVars, pjVars, ptVars, spVars, fcVars, xgVars,
                         luVars, rpVars, gtVars, ccVars, tbVars>>
HlStep == /\ focus = "host" /\ HlNext
          /\ UNCHANGED <<focus, rsVars, psVars, pjVars, ptVars, spVars, fcVars, xgVars,
                         luVars, rpVars, gtVars, ccVars, tbVars>>
PjStep == /\ focus = "psij jobs" /\ PjNext
          /\ UNCHANGED <<focus, rsVars, psVars, hlVars, ptVars, spVars, fcVars, xgVars,
                         luVars, rpVars, gtVars, ccVars, tbVars>>
PtStep == /\ focus = "psij tunnels" /\ PtNext
          /\ UNCHANGED <<focus, rsVars, psVars, hlVars, pjVars, spVars, fcVars, xgVars,
                         luVars, rpVars, gtVars, ccVars, tbVars>>
SpStep == /\ focus = "status polls" /\ SpNext
          /\ UNCHANGED <<focus, rsVars, psVars, hlVars, pjVars, ptVars, fcVars, xgVars,
                         luVars, rpVars, gtVars, ccVars, tbVars>>
FcStep == /\ focus = "facility" /\ FcNext
          /\ UNCHANGED <<focus, rsVars, psVars, hlVars, pjVars, ptVars, spVars, xgVars,
                         luVars, rpVars, gtVars, ccVars, tbVars>>
XgStep == /\ focus = "xgfabric" /\ XgNext
          /\ UNCHANGED <<focus, rsVars, psVars, hlVars, pjVars, ptVars, spVars, fcVars,
                         luVars, rpVars, gtVars, ccVars, tbVars>>
LuStep == /\ focus = "lucid" /\ LuNext
          /\ UNCHANGED <<focus, rsVars, psVars, hlVars, pjVars, ptVars, spVars, fcVars,
                         xgVars, rpVars, gtVars, ccVars, tbVars>>
RpStep == /\ focus = "replay" /\ RpNext
          /\ UNCHANGED <<focus, rsVars, psVars, hlVars, pjVars, ptVars, spVars, fcVars,
                         xgVars, luVars, gtVars, ccVars, tbVars>>
GtStep == /\ focus = "gateway" /\ GtNext
          /\ UNCHANGED <<focus, rsVars, psVars, hlVars, pjVars, ptVars, spVars, fcVars,
                         xgVars, luVars, rpVars, ccVars, tbVars>>
CcStep == /\ focus = "child clients" /\ CcNext
          /\ UNCHANGED <<focus, rsVars, psVars, hlVars, pjVars, ptVars, spVars, fcVars,
                         xgVars, luVars, rpVars, gtVars, tbVars>>
TbStep == /\ focus = "task batches" /\ TbNext
          /\ UNCHANGED <<focus, rsVars, psVars, hlVars, pjVars, ptVars, spVars, fcVars,
                         xgVars, luVars, rpVars, gtVars, ccVars>>

MCNext == RsStep \/ PsStep \/ HlStep \/ PjStep \/ PtStep \/ SpStep \/ FcStep
          \/ XgStep \/ LuStep \/ RpStep \/ GtStep \/ CcStep \/ TbStep
MCSpec == MCInit /\ [][MCNext]_mcVars /\ RsFair /\ PsFair /\ HlFair /\ PjFair
          /\ PtFair /\ SpFair /\ FcFair /\ XgFair /\ LuFair /\ RpFair /\
          GtFair /\ CcFair /\ TbFair

\* Bound: two topology deliveries overlap only while the host is up and no
\* request is handled.
FewWalks == Len(walks) > 1 => life \in {"new", "up"} /\ \A c \in HCalls : hcall[c] = "idle"

\* Every end is told: of a job, of a polled task, of a batch task; what is
\* queued for a browser is sent, and an ended session is dropped (_poll_jobs,
\* start_status_poller, _flush_rh, _route_events, _touch_child_sessions).
EndsAreTold ==
  /\ EndIsTold /\ SeenEndIsTold /\ EndReachesClient /\ TbEndIsTold
  /\ QueueIsSent /\ EndedIsDropped

\* Every call is answered, of a facility and of a hosted plugin (token, mint,
\* call_host).
CallsAreAnswered ==
  /\ CallIsAnswered /\ HostCallAnswered

\* What is told to end does: sessions, shutdowns, watches, workflows, drains
\* (_teardown, _cleanup_loop, shutdown, _watch_reverse, stop_workflow,
\* _submit, replay_iter).
ClosingEnds ==
  /\ CloseEnds /\ OverdueEnds /\ BrokerGoesDown /\ WatchEnds /\ StopEnds
  /\ SlotReturns /\ DrainEnds
=============================================================================
