----------------------------- MODULE MCPlugins -----------------------------
(***************************************************************************)
(* The plugins of an endpoint and their host for TLC: rhapsody, psij, polled *)
(* status and the sessions and dispatching underneath.  A behaviour follows *)
(* one part and leaves the others as they start, so that the states of the *)
(* parts add up.                                                           *)
(***************************************************************************)
EXTENDS RhapsodySession, RhapsodyNotify, RhapsodyClient, PluginSessions,
        HostLoop, Psij, StatusPolls

CONSTANTS t1, t2, t3

VARIABLE focus     \* the part whose steps this behaviour consists of

MCBatches  == {{t1, t2}, {t3}}
MCShape(o, r, p) == [out |-> o, rv |-> r, plain |-> p]
MCShapes   == {MCShape(0, 0, FALSE), MCShape(5, 8, FALSE), MCShape(1, 9, FALSE),
               MCShape(0, 8, TRUE)}
MCKeyOf    == [c \in Cbs |-> c]

mcVars == <<focus, rsVars, rnVars, subVars, clVars, psVars, hlVars, pjVars,
            ptVars, spVars>>

MCInit == /\ focus \in {"rhapsody session", "rhapsody notifications",
                        "rhapsody client", "sessions", "host", "psij jobs",
                        "psij tunnels", "status polls"}
          /\ RsInit /\ RnInit /\ ClInit /\ PsInit /\ HlInit /\ PjInit
          /\ PtInit /\ SpInit
          /\ focus # "rhapsody client" => session = [s \in Sids |-> "none"]
          /\ focus # "psij jobs" => holder = "none"
          /\ focus # "status polls" => api = "globus"
          /\ focus # "rhapsody client" => caps = [g \in 0..MaxConn |-> TRUE]

RsStep == /\ focus = "rhapsody session" /\ RsNext
          /\ UNCHANGED <<focus, rnVars, subVars, clVars, psVars, hlVars, pjVars,
                         ptVars, spVars>>
RnStep == /\ focus = "rhapsody notifications" /\ RnNext
          /\ UNCHANGED <<focus, rsVars, subVars, clVars, psVars, hlVars, pjVars,
                         ptVars, spVars>>
ClStep == /\ focus = "rhapsody client" /\ ClNext
          /\ UNCHANGED <<focus, rsVars, rnVars, psVars, hlVars, pjVars, ptVars,
                         spVars>>
PsStep == /\ focus = "sessions" /\ PsNext
          /\ UNCHANGED <<focus, rsVars, rnVars, subVars, clVars, hlVars, pjVars,
                         ptVars, spVars>>
HlStep == /\ focus = "host" /\ HlNext
          /\ UNCHANGED <<focus, rsVars, rnVars, subVars, clVars, psVars, pjVars,
                         ptVars, spVars>>
PjStep == /\ focus = "psij jobs" /\ PjNext
          /\ UNCHANGED <<focus, rsVars, rnVars, subVars, clVars, psVars, hlVars,
                         ptVars, spVars>>
PtStep == /\ focus = "psij tunnels" /\ PtNext
          /\ UNCHANGED <<focus, rsVars, rnVars, subVars, clVars, psVars, hlVars,
                         pjVars, spVars>>
SpStep == /\ focus = "status polls" /\ SpNext
          /\ UNCHANGED <<focus, rsVars, rnVars, subVars, clVars, psVars, hlVars,
                         pjVars, ptVars>>

MCNext == RsStep \/ RnStep \/ ClStep \/ PsStep \/ HlStep \/ PjStep \/ PtStep
          \/ SpStep
MCSpec == MCInit /\ [][MCNext]_mcVars

\* Bound: two topology deliveries overlap only while the host is up and no
\* request is handled.
FewWalks == Len(walks) > 1 => life \in {"new", "up"} /\ \A c \in HCalls : hcall[c] = "idle"

\* Rhapsody: a closed session leaves no store, backend or telemetry running,
\* each end is told once in frames that fit, and the client takes exactly the
\* results of its session (RhapsodySession, RhapsodyNotify, RhapsodyClient).
RhapsodySound ==
  /\ RsTypeOK /\ NothingLeftRunning /\ ShutdownAlone /\ StoresAreKnown
  /\ DrainProtects
  /\ RnTypeOK /\ NeverStranded /\ ToldOnce /\ EncodedFramesFit
  /\ SubTypeOK
  /\ ClTypeOK /\ CompletedIsOurs /\ NoResultLost /\ ReadyNotMissed

\* Sessions and host: the table holds the open sessions, an ended one stays
\* ended, and every topology delivery reaches every plugin with each loss told
\* once (Plugin, BrokerPluginHost).
HostSound ==
  /\ PsTypeOK /\ TableIsOpen /\ EndedStaysEnded /\ GoneIsClosedApart
  /\ HlTypeOK /\ DeliveredToAll /\ LostToldOnce

\* Jobs and polled tasks: what has not been reported is watched, a graceful
\* end is an end, and a tunnel is opened to the right node and not left behind
\* (plugin_psij, tunnel, start_status_poller).
JobsWatched ==
  /\ PjTypeOK /\ UntoldIsPolled /\ GracefulHasEnded
  /\ PtTypeOK /\ SshIsWatched /\ NeverStale /\ GivenUpIsReleased
  /\ SpTypeOK /\ UntoldIsSwept

\* What no step of a sweep or of a cancel does: end a session in use, stop an
\* endpoint of somebody else (_expire_if_due, cancel_job).
PluginSteps ==
  /\ ExpiresOnlyIdle /\ NeverStopsOther
=============================================================================
