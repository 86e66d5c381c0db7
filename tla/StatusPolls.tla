------------------------------ MODULE StatusPolls ------------------------------
(***************************************************************************)
(* Work at a remote service that a session follows by polling              *)
(* (plugin_session_base.py start_status_poller): Globus transfers          *)
(* (plugin_globus.py) and the jobs of an SF-API or IRI instance            *)
(* (plugin_sfapi_instance.py, plugin_iri_instance.py).  Calls of the       *)
(* service are answered later, from what it knew when it was asked; every  *)
(* call may fail.                                                          *)
(*                                                                         *)
(* A service tells three states apart here: two a task may pass through    *)
(* (ACTIVE and INACTIVE, or pending and running) and its end.              *)
(***************************************************************************)
EXTENDS Naturals, FiniteSets

CONSTANTS PTasks

Going    == {"first", "second"}
SpStates == Going \cup {"end"}

VARIABLES
  api,     \* globus or jobs (SF-API, IRI)
  world,   \* the tasks, at the service
  meta,    \* _tasks or _jobs: the session's record of a task
  swept,   \* the poller: off, asleep, or the tasks this sweep has still to look at
  fetch,   \* the poller's call under way
  asked,   \* a get_task call under way
  pollWaits,   \* submissions whose answer is on its way
  pollClosing  \* the session: open, closing (HTTP client closed), closed

spVars == <<api, world, meta, swept, fetch, asked, pollWaits, pollClosing>>

NoCall == [task |-> "none", saw |-> "none"]
CallRec == [task: PTasks, saw: SpStates] \cup {NoCall}

\* Every variable keeps its type.
SpTypeOK ==
  /\ api \in {"globus", "jobs"}
  /\ world \in [PTasks -> SpStates \cup {"none"}]
  /\ meta \in [PTasks -> [in: BOOLEAN, st: SpStates, told: SpStates, ends: 0..1, got: BOOLEAN]]
  /\ swept.at \in {"off", "sleep", "sweep"} /\ swept.todo \subseteq PTasks
  /\ fetch \in CallRec /\ asked \in CallRec /\ pollWaits \subseteq PTasks
  /\ pollClosing \in {"open", "closing", "closed"}

Off == [at |-> "off", todo |-> {}]

SpInit ==
  /\ api \in {"globus", "jobs"}
  /\ world = [t \in PTasks |-> "none"]
  /\ meta = [t \in PTasks |-> [in |-> FALSE, st |-> "first", told |-> "first", ends |-> 0, got |-> FALSE]]
  /\ swept = Off /\ fetch = NoCall /\ asked = NoCall /\ pollWaits = {} /\ pollClosing = "open"

Active == pollClosing # "closed"      \* _active

-----------------------------------------------------------------------------
(* The poller. *)

\* start_status_poller: a poller that runs is kept.
StartPoller == IF swept.at = "off" THEN [Off EXCEPT !.at = "sleep"] ELSE swept

\* is_terminal: Globus looks at what was notified, jobs at the state they keep.
Terminal(m) == IF api = "globus" THEN m.told = "end" ELSE m.st = "end"

PollerWakes ==
  /\ swept.at = "sleep"
  /\ LET todo == {t \in PTasks : meta[t].in /\ ~Terminal(meta[t])}
     IN swept' = IF ~Active \/ todo = {} THEN Off ELSE [at |-> "sweep", todo |-> todo]
  /\ UNCHANGED <<api, world, meta, fetch, asked, pollWaits, pollClosing>>
SweepDone ==
  /\ swept.at = "sweep" /\ swept.todo = {} /\ fetch = NoCall
  /\ swept' = [Off EXCEPT !.at = "sleep"]
  /\ UNCHANGED <<api, world, meta, fetch, asked, pollWaits, pollClosing>>

\* notify, for a task whose status becomes st.
Told(m, st) ==
  [m EXCEPT !.st = st, !.told = st, !.ends = IF st = "end" THEN @ + 1 ELSE @]

\* _terminal_pending, and the notification of a cached end without a fetch.
TerminalPending(m) == api = "globus" /\ m.st = "end" /\ m.told # "end"
TellsCached(t) ==
  /\ swept.at = "sweep" /\ fetch = NoCall /\ t \in swept.todo /\ TerminalPending(meta[t])
  /\ meta' = [meta EXCEPT ![t] = Told(@, "end")]
  /\ swept' = [swept EXCEPT !.todo = @ \ {t}]
  /\ UNCHANGED <<api, world, fetch, asked, pollWaits, pollClosing>>

Fetches(t) ==
  /\ swept.at = "sweep" /\ fetch = NoCall /\ t \in swept.todo /\ ~TerminalPending(meta[t])
  /\ fetch' = [task |-> t, saw |-> world[t]]
  /\ swept' = [swept EXCEPT !.todo = @ \ {t}]
  /\ UNCHANGED <<api, world, meta, asked, pollWaits, pollClosing>>

\* _cache_result: a cached end stays.
CachedAnew(m, st) == [m EXCEPT !.st = st]          \* mutant: the last answer counts
Cached(m, st) == IF m.st = "end" THEN m ELSE [m EXCEPT !.st = st]

\* _fetch_task_status and _fetch_job_status, once the answer is there.
Answered(m, st) ==
  IF api = "globus"
  THEN LET c == Cached(m, st)
       IN IF c.st = st THEN IF st = m.told THEN c ELSE Told(c, st)
          ELSE IF TerminalPending(c) THEN Told(c, "end") ELSE c
  ELSE IF st = m.st THEN m ELSE Told(m, st)
FetchReturns ==
  /\ fetch # NoCall /\ pollClosing = "open"
  /\ meta' = [meta EXCEPT ![fetch.task] = Answered(@, fetch.saw)]
  /\ fetch' = NoCall
  /\ UNCHANGED <<api, world, swept, asked, pollWaits, pollClosing>>
\* It fails, or tells nothing yet.
FetchFails ==
  /\ fetch # NoCall /\ fetch' = NoCall
  /\ UNCHANGED <<api, world, meta, swept, asked, pollWaits, pollClosing>>

-----------------------------------------------------------------------------
(* The session's routes. *)

\* submit_transfer, submit_delete, submit_job: the service takes the task; the
\* answer may come when the session is no longer open, or not at all.
SubmitSends(t) ==
  /\ pollClosing = "open" /\ world[t] = "none"
  /\ world' = [world EXCEPT ![t] = "first"] /\ pollWaits' = pollWaits \cup {t}
  /\ UNCHANGED <<api, meta, swept, fetch, asked, pollClosing>>
SubmitReturns(t) ==
  /\ t \in pollWaits /\ pollWaits' = pollWaits \ {t}
  /\ meta' = [meta EXCEPT ![t].in = TRUE]
  /\ swept' = StartPoller
  /\ UNCHANGED <<api, world, fetch, asked, pollClosing>>
SubmitLost(t) ==
  /\ t \in pollWaits /\ pollWaits' = pollWaits \ {t}
  /\ UNCHANGED <<api, world, meta, swept, fetch, asked, pollClosing>>

\* get_task; an SF-API or IRI status query records nothing.
GetSends(t) ==
  /\ pollClosing = "open" /\ asked = NoCall /\ world[t] # "none"
  /\ asked' = [task |-> t, saw |-> world[t]]
  /\ UNCHANGED <<api, world, meta, swept, fetch, pollWaits, pollClosing>>
Noted(m, st) == [m EXCEPT !.got = @ \/ st = "end"]
GetReturns ==
  /\ asked # NoCall /\ asked' = NoCall
  /\ meta' = IF api = "globus" /\ meta[asked.task].in
             THEN [meta EXCEPT ![asked.task] = Cached(Noted(@, asked.saw), asked.saw)]
             ELSE meta
  /\ UNCHANGED <<api, world, swept, fetch, pollWaits, pollClosing>>

\* cancel_task, cancel_job: the service ends the task, the record goes.
CancelTask(t) ==
  /\ pollClosing = "open" /\ world[t] # "none" /\ meta[t].in
  /\ world' = [world EXCEPT ![t] = "end"] /\ meta' = [meta EXCEPT ![t].in = FALSE]
  /\ UNCHANGED <<api, swept, fetch, asked, pollWaits, pollClosing>>

\* close: Globus stops the poller first; an SF-API or IRI session awaits the
\* end of its HTTP client before it does.
CloseBegins ==
  /\ pollClosing = "open"
  /\ IF api = "globus" THEN pollClosing' = "closed" /\ swept' = Off /\ fetch' = NoCall
     ELSE pollClosing' = "closing" /\ UNCHANGED <<swept, fetch>>
  /\ UNCHANGED <<api, world, meta, asked, pollWaits>>
PollerEnds ==
  /\ pollClosing = "closing" /\ pollClosing' = "closed" /\ swept' = Off /\ fetch' = NoCall
  /\ UNCHANGED <<api, world, meta, asked, pollWaits>>

\* The service's work (external).
WorldMoves(t, st) ==
  /\ world[t] \in Going /\ st # world[t] /\ (api = "jobs" /\ world[t] = "second" => st = "end")
  /\ world' = [world EXCEPT ![t] = st]
  /\ UNCHANGED <<api, meta, swept, fetch, asked, pollWaits, pollClosing>>

-----------------------------------------------------------------------------
SpNext ==
  \/ PollerWakes \/ SweepDone \/ FetchReturns \/ FetchFails
  \/ GetReturns \/ CloseBegins \/ PollerEnds
  \/ \E t \in PTasks : \/ TellsCached(t) \/ Fetches(t)
                       \/ SubmitSends(t) \/ SubmitReturns(t) \/ SubmitLost(t)
                       \/ GetSends(t) \/ CancelTask(t)
                       \/ \E st \in SpStates : WorldMoves(t, st)

SpSpec == SpInit /\ [][SpNext]_spVars

\* The poller goes on; nothing says that the service ever answers it.
SpFair == WF_spVars(\/ PollerWakes \/ SweepDone \/ FetchReturns \/ FetchFails
                    \/ \E t \in PTasks : TellsCached(t) \/ Fetches(t))

-----------------------------------------------------------------------------
(* Properties. *)

\* As long as the session is open, a task whose end has not been told has a
\* poller that looks at it (submit during the poller's last sweep included).
UntoldIsSwept ==
  \A t \in PTasks : pollClosing = "open" /\ meta[t].in /\ meta[t].ends = 0 => swept.at # "off"

\* _fetch_task_status: an end that get_task has seen is told although every call
\* of the poller fails (an expired token), unless the task is cancelled or the
\* session closed.
SeenEndIsTold ==
  \A t \in PTasks : meta[t].got ~> (meta[t].ends > 0 \/ ~meta[t].in \/ pollClosing # "open")

\* If the service answers the poller's calls about every task again and again,
\* every end is told.
EndReachesClient ==
  (\A t \in PTasks : SF_spVars(fetch.task = t /\ FetchReturns)) =>
    \A t \in PTasks : (world[t] = "end" /\ meta[t].in)
                       ~> (meta[t].ends > 0 \/ ~meta[t].in \/ pollClosing # "open")
=============================================================================
