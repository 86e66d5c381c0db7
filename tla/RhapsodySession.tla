--------------------------- MODULE RhapsodySession ---------------------------
(***************************************************************************)
(* The service side of one rhapsody session (plugin_rhapsody.py): its      *)
(* background initialization, the routes counted as in flight, the data    *)
(* stores it starts and stops, and the one teardown that close() runs.     *)
(* All of it is one event loop; an action is what runs between two awaits. *)
(*                                                                         *)
(* A store is one data backend object: a start that failed leaves it half  *)
(* up until a shutdown succeeds.  A stop is a shared future; `waiting' is  *)
(* a stop asked for while the start runs, `running' has its shutdown task. *)
(* A store is used by at most one data_start (a new call makes a new       *)
(* object) and at most one data_shutdown at a time (bound).                *)
(***************************************************************************)
EXTENDS Naturals, FiniteSets

CONSTANTS Stores,    \* data backend objects (bound)
          Names,     \* names a data backend can have
          Routes,    \* other tracked requests: submit_tasks, cancel_task(s) (bound)
          NoStore

ASSUME RsNames == NoStore \notin Stores

VARIABLES
  ini,       \* where initialize() is
  execs,     \* the execution backends: none, up, down, or left by a failed creation
  rh,        \* the rhapsody session object: none, open, closed, or its close failed
  held,      \* self._rh_session is set
  tele,      \* its telemetry manager: off, starting, on
  closing,   \* self._closing
  td,        \* where _teardown is
  late,      \* the drain timed out with routes in flight
  route,     \* the other tracked requests
  gone,      \* those that found the rhapsody session gone (410)
  name,      \* name each store was started under
  data,      \* self._data: name -> store
  left,      \* self._leftovers
  taken,     \* stores the teardown took over: those of _data, and leftovers
  mounted,   \* stores registered with the rhapsody session
  run,       \* what each store process does
  entry,     \* _DataEntry: starting, doomed, stop
  starter,   \* where data_start of each store is
  stopper,   \* stores a data_shutdown waits for
  awaited,   \* stores the teardown waits for
  gaveup     \* stores whose shutdown failed after the teardown began

rsInit  == <<ini, execs, rh, held, tele>>
rsClose == <<closing, td, late, taken, awaited, gaveup>>
rsRoute == <<route, gone>>
rsData  == <<name, data, left, mounted, run, entry, starter, stopper>>
rsVars  == <<rsInit, rsClose, rsRoute, rsData>>

EntryRec == [starting: BOOLEAN, doomed: BOOLEAN,
             stop: {"none", "waiting", "running", "done"}]

\* Every variable keeps its type, and a name is reserved only for a store that
\* was started under it.
RsTypeOK ==
  /\ ini \in {"backends", "session", "telemetry", "ready", "failed"}
  /\ execs \in {"none", "up", "down", "leaked"}
  /\ rh \in {"none", "open", "closed", "broken"} /\ held \in BOOLEAN
  /\ tele \in {"off", "starting", "on"}
  /\ closing \in BOOLEAN /\ late \in BOOLEAN
  /\ td \in {"no", "drain", "unwind", "rhclose", "stores", "done"}
  /\ route \in [Routes -> {"idle", "first", "second", "over"}]
  /\ gone \subseteq Routes
  /\ name \in [Stores -> Names \cup {"none"}]
  /\ data \in [Names -> Stores \cup {NoStore}]
  /\ left \subseteq Stores /\ mounted \subseteq Stores
  /\ taken \subseteq Stores /\ awaited \subseteq Stores /\ gaveup \subseteq Stores
  /\ run \in [Stores -> {"none", "starting", "half", "up", "down"}]
  /\ entry \in [Stores -> EntryRec]
  /\ starter \in [Stores -> {"idle", "start", "quiet", "clean", "cleaned", "over"}]
  /\ stopper \subseteq Stores
  /\ \A n \in Names : data[n] # NoStore => name[data[n]] = n

RsInit ==
  /\ ini = "backends" /\ execs = "none" /\ rh = "none" /\ held = FALSE /\ tele = "off"
  /\ closing = FALSE /\ td = "no" /\ late = FALSE /\ taken = {} /\ awaited = {}
  /\ gaveup = {}
  /\ route = [r \in Routes |-> "idle"] /\ gone = {}
  /\ name = [s \in Stores |-> "none"]
  /\ data = [n \in Names |-> NoStore]
  /\ left = {} /\ mounted = {}
  /\ run = [s \in Stores |-> "none"]
  /\ entry = [s \in Stores |-> [starting |-> FALSE, doomed |-> FALSE, stop |-> "none"]]
  /\ starter = [s \in Stores |-> "idle"]
  /\ stopper = {}

-----------------------------------------------------------------------------
(* initialize(), a background task of the plugin. *)

\* rh.get_backend for every name.  If one cannot be made, those before it
\* stay; if close() came first, they are shut down again.
InitBackends ==
  /\ ini = "backends"
  /\ \/ /\ closing /\ ini' = "failed" /\ execs' = "down"
     \/ /\ ~closing /\ ini' = "session" /\ execs' = "up"
     \/ /\ ini' = "failed" /\ execs' = "leaked"
  /\ UNCHANGED <<rh, held, tele, rsClose, rsRoute, rsData>>

SessionUnchecked(tm) ==                              \* mutant: close not seen
  /\ ini' = IF tm THEN "telemetry" ELSE "ready"
  /\ rh' = "open" /\ held' = TRUE /\ execs' = execs
  /\ tele' = IF tm THEN "starting" ELSE "off"
SessionBuilt(tm) ==
  IF closing
  THEN /\ ini' = "failed" /\ rh' = "closed" /\ execs' = "down"
       /\ UNCHANGED <<held, tele>>
  ELSE /\ ini' = IF tm THEN "telemetry" ELSE "ready"
       /\ rh' = "open" /\ held' = TRUE /\ execs' = execs
       /\ tele' = IF tm THEN "starting" ELSE "off"

\* rh.Session is built in a worker thread; telemetry is started if wanted.
InitSession ==
  /\ ini = "session"
  /\ \/ \E tm \in BOOLEAN : SessionBuilt(tm)
     \/ /\ ini' = "failed" /\ execs' = "leaked" /\ UNCHANGED <<rh, held, tele>>
  /\ UNCHANGED <<rsClose, rsRoute, rsData>>

\* start_telemetry returns.  A failure is unwound and ignored; after a close
\* the manager is unwound through the session object kept in the coroutine.
TelemetryStarted(ok) ==
  IF closing THEN ini' = "failed" /\ tele' = "off"
  ELSE ini' = "ready" /\ tele' = IF ok THEN "on" ELSE "off"
InitTelemetry ==
  /\ ini = "telemetry"
  /\ \E ok \in BOOLEAN : TelemetryStarted(ok)
  /\ UNCHANGED <<execs, rh, held, rsClose, rsRoute, rsData>>

-----------------------------------------------------------------------------
(* Routes.  _check_initialized turns a request away unless Ready. *)

Ready    == ~closing /\ ini = "ready" /\ held
InFlight == \/ \E r \in Routes : route[r] \in {"first", "second"}
            \/ \E s \in Stores : starter[s] \notin {"idle", "over"}
            \/ stopper # {}

\* submit_tasks: a chunk is prepared in a thread, then handed to rhapsody;
\* cancel_task: the session is looked at, then the backend cancels.
RouteStart(r) ==
  /\ Ready /\ route[r] = "idle"
  /\ route' = [route EXCEPT ![r] = "first"]
  /\ UNCHANGED <<gone, rsInit, rsClose, rsData>>

RouteResumes(r) ==
  /\ route[r] = "first"
  /\ route' = [route EXCEPT ![r] = IF held THEN "second" ELSE "over"]
  /\ gone' = IF held THEN gone ELSE gone \cup {r}
  /\ UNCHANGED <<rsInit, rsClose, rsData>>

\* The next chunk of the submission, the next gathered cancel, or the end.
RouteEnds(r) ==
  /\ route[r] = "second"
  /\ \E p \in {"first", "over"} : route' = [route EXCEPT ![r] = p]
  /\ UNCHANGED <<gone, rsInit, rsClose, rsData>>

-----------------------------------------------------------------------------
(* Stopping a store. *)

\* _stop for every store of S: doomed, with one shared stop.  The callers below
\* also take it out of the rhapsody session if that is still held.
Stop(S) ==
  entry' = [s \in Stores |->
    IF s \in S THEN [entry[s] EXCEPT !.doomed = TRUE,
                         !.stop = IF @ # "none" THEN @
                                  ELSE IF entry[s].starting THEN "waiting" ELSE "running"]
    ELSE entry[s]]

\* _start_done: a stop asked for during the start gets its shutdown now.
Started(s) == [entry[s] EXCEPT !.starting = FALSE,
                               !.stop = IF @ = "waiting" THEN "running" ELSE @]
\* _start_done and _stop_quietly
StartedAndStop(s) ==
  /\ entry' = [entry EXCEPT ![s] =
       [starting |-> FALSE, doomed |-> TRUE,
        stop |-> IF @.stop = "done" THEN "done" ELSE "running"]]
  /\ mounted' = IF held THEN mounted \ {s} ELSE mounted

\* The shutdown task ends: _settle, then _stopped, then the waiters go on.
\* After a failure the entry stays and the next stop is a new one.
ShutdownSettled(s, ok) ==
  /\ entry' = [entry EXCEPT ![s].stop = IF ok THEN "done" ELSE "none"]
  /\ run'   = IF ok THEN [run EXCEPT ![s] = "down"] ELSE run
  /\ data'  = [n \in Names |-> IF ok /\ data[n] = s THEN NoStore ELSE data[n]]
ShutdownEnds(s, ok) ==
  /\ entry[s].stop = "running"
  /\ ShutdownSettled(s, ok)
  /\ starter' = [starter EXCEPT ![s] = CASE @ = "quiet" -> "over"
                                         [] @ = "clean" -> "cleaned"
                                         [] OTHER -> @]
  /\ stopper' = stopper \ {s}
  /\ awaited' = awaited \ {s}
  /\ gaveup' = IF ok \/ td \in {"no", "drain"} THEN gaveup ELSE gaveup \cup {s}
  /\ UNCHANGED <<name, left, mounted, rsInit, closing, td, late, taken, rsRoute>>

-----------------------------------------------------------------------------
(* data_start and data_shutdown. *)

\* The name is reserved before the slow start.
DataStart(s, n) ==
  /\ Ready /\ starter[s] = "idle"
  /\ data[n] = NoStore /\ \A t \in mounted : name[t] # n
  /\ name' = [name EXCEPT ![s] = n]
  /\ data' = [data EXCEPT ![n] = s]
  /\ run'  = [run EXCEPT ![s] = "starting"]
  /\ entry' = [entry EXCEPT ![s].starting = TRUE]
  /\ starter' = [starter EXCEPT ![s] = "start"]
  /\ UNCHANGED <<left, mounted, stopper, rsInit, rsClose, rsRoute>>

Unwanted(s) == closing \/ entry[s].doomed \/ data[name[s]] # s
\* backend.start() returned: registered, unless it was asked to stop meanwhile
\* or add_backend fails.
StartOk(s) ==
  \/ /\ ~Unwanted(s)
     /\ entry' = [entry EXCEPT ![s] = Started(s)]
     /\ mounted' = mounted \cup {s}
     /\ starter' = [starter EXCEPT ![s] = "over"]
  \/ StartedAndStop(s) /\ starter' = [starter EXCEPT ![s] = "quiet"]

StartReturns(s, ok) ==
  /\ starter[s] = "start"
  /\ run' = [run EXCEPT ![s] = IF ok THEN "up" ELSE "half"]
  /\ IF ok THEN StartOk(s)
     ELSE StartedAndStop(s) /\ starter' = [starter EXCEPT ![s] = "clean"]
  /\ UNCHANGED <<name, data, left, stopper, rsInit, rsClose, rsRoute>>

\* A failed start whose cleanup failed too: the name is released and the
\* session's close tries once more.
Leave(s) == left' = IF data[name[s]] = s /\ td \in {"no", "drain"}
                    THEN left \cup {s} ELSE left
StartCleaned(s) ==
  /\ starter[s] = "cleaned"
  /\ Leave(s)
  /\ data' = IF data[name[s]] = s THEN [data EXCEPT ![name[s]] = NoStore] ELSE data
  /\ starter' = [starter EXCEPT ![s] = "over"]
  /\ UNCHANGED <<name, mounted, run, entry, stopper, rsInit, rsClose, rsRoute>>

DataShutdown(n) ==
  /\ Ready /\ data[n] # NoStore /\ data[n] \notin stopper
  /\ Stop({data[n]}) /\ mounted' = mounted \ {data[n]}
  /\ stopper' = IF entry[data[n]].stop = "done" THEN stopper ELSE stopper \cup {data[n]}
  /\ UNCHANGED <<name, data, left, run, starter, rsInit, rsClose, rsRoute>>

-----------------------------------------------------------------------------
(* close() and _teardown, one task. *)

Close ==
  /\ td = "no" /\ closing' = TRUE /\ td' = "drain"
  /\ UNCHANGED <<late, taken, awaited, gaveup, rsInit, rsRoute, rsData>>

\* The stores the teardown stops itself once rhapsody has closed; those in
\* `owned' were stopped by rhapsody.  One that is still starting is stopped by
\* its data_start, and nobody waits for it.
StopRestAll(owned) ==                                 \* mutant: starting ones awaited
  LET mine == {s \in taken' : \/ name[s] \notin {name[t] : t \in owned}
                              \/ s \in left}
  IN /\ Stop(mine) /\ mounted' = mounted
     /\ awaited' = {s \in mine : entry[s].stop # "done"}
StopRest(owned) ==
  LET mine == {s \in taken' : \/ name[s] \notin {name[t] : t \in owned}
                              \/ s \in left}
  IN /\ Stop(mine) /\ mounted' = mounted
     /\ awaited' = {s \in mine : ~entry[s].starting /\ entry[s].stop # "done"}

\* Every route has ended, or CLOSE_DRAIN_TIMEOUT is over.
TeardownTakes ==
  /\ td = "drain"
  /\ late' = InFlight
  /\ taken' = {s \in Stores : \E n \in Names : data[n] = s} \cup left
  /\ data' = [n \in Names |-> NoStore]
  /\ held' = FALSE
  /\ IF held THEN /\ td' = "unwind"
                  /\ UNCHANGED <<left, entry, mounted, awaited>>
     ELSE td' = "stores" /\ StopRest({}) /\ left' = {}
  /\ UNCHANGED <<ini, execs, rh, tele, closing, gaveup, rsRoute, name, run, starter, stopper>>

\* _unwind_telemetry: a manager that is still starting is not seen.
TeardownUnwinds ==
  /\ td = "unwind" /\ td' = "rhclose"
  /\ tele' = IF tele = "on" THEN "off" ELSE tele
  /\ UNCHANGED <<ini, execs, rh, held, closing, late, taken, awaited, gaveup, rsRoute, rsData>>

\* rh_session.close() stops the backends it holds; if it fails, some.  Then,
\* in the same step, the rest is stopped.
RhCloses(ok) ==
  /\ td = "rhclose" /\ td' = "stores"
  /\ rh' = IF ok THEN "closed" ELSE "broken"
  /\ execs' \in IF ok THEN {"down"} ELSE {"up", "down"}
  /\ \E S \in IF ok THEN {mounted} ELSE SUBSET mounted :
       run' = [s \in Stores |-> IF s \in S THEN "down" ELSE run[s]]
  /\ taken' = taken
  /\ held' = held
  /\ StopRest(IF ok THEN mounted ELSE {})
  /\ left' = {}
  /\ UNCHANGED <<ini, tele, closing, late, gaveup, rsRoute, name, data, starter, stopper>>

TeardownEnds ==
  /\ td = "stores" /\ awaited = {} /\ td' = "done"
  /\ UNCHANGED <<closing, late, taken, awaited, gaveup, rsInit, rsRoute, rsData>>

-----------------------------------------------------------------------------
RsNext ==
  \/ InitBackends \/ InitSession \/ InitTelemetry
  \/ \E r \in Routes : RouteStart(r) \/ RouteResumes(r) \/ RouteEnds(r)
  \/ \E s \in Stores : \/ \E n \in Names : DataStart(s, n)
                       \/ \E ok \in BOOLEAN : StartReturns(s, ok) \/ ShutdownEnds(s, ok)
                       \/ StartCleaned(s)
  \/ \E n \in Names : DataShutdown(n)
  \/ Close \/ TeardownTakes \/ TeardownUnwinds \/ TeardownEnds
  \/ \E ok \in BOOLEAN : RhCloses(ok)

RsSpec == RsInit /\ [][RsNext]_rsVars

\* The drain is bounded by its timeout and every shutdown ends one way or the
\* other; a start, the initialization and a route may hang for ever.
RsFair ==
  /\ WF_rsVars(TeardownTakes \/ TeardownUnwinds \/ TeardownEnds
               \/ \E ok \in BOOLEAN : RhCloses(ok))
  /\ \A s \in Stores : WF_rsVars(\E ok \in BOOLEAN : ShutdownEnds(s, ok))

-----------------------------------------------------------------------------
(* Properties. *)

Settled == td = "done" /\ ini \in {"ready", "failed"} /\ ~InFlight

\* Once close() is over and initialize() and the routes in flight have ended,
\* nothing of the session runs on: no store (unless a shutdown tried after the
\* teardown began failed), no telemetry, no rhapsody session, and no execution
\* backend unless rhapsody's own close failed -- whatever of initialize,
\* data_start and data_shutdown the close overtook (_teardown, data_start).
NothingLeftRunning ==
  Settled => /\ \A s \in Stores : run[s] \in {"none", "down"} \/ s \in gaveup
             /\ tele = "off" /\ rh # "open"
             /\ execs = "up" => rh = "broken"

\* A store's own shutdown never runs beside its start, nor while rhapsody
\* could shut the same store down in its close (_stop, _start_done).
ShutdownAlone ==
  \A s \in Stores : entry[s].stop = "running" => run[s] # "starting" /\ (s \in mounted => rh = "broken")

\* Until the teardown takes over, every store that may be running has a handle:
\* its name in _data or an entry in _leftovers (_stopped, data_start's cleanup).
StoresAreKnown ==
  td \in {"no", "drain"} =>
    \A s \in Stores : run[s] \in {"starting", "half", "up"} =>
                        data[name[s]] = s \/ s \in left

\* A route in flight when close() comes meets a torn-down session only after
\* the drain timed out (_tracked, _teardown).
DrainProtects == gone # {} => late

\* close() ends although a start, an initialization or a route hangs.
CloseEnds == closing ~> td = "done"
=============================================================================
