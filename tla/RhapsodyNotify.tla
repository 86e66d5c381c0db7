--------------------------- MODULE RhapsodyNotify ---------------------------
(***************************************************************************)
(* How a rhapsody session tells of its tasks (plugin_rhapsody.py): chunks  *)
(* of a submission reach rhapsody, one watcher per submission queues a     *)
(* payload for every task that ends, payloads are coalesced in a buffer    *)
(* that is flushed by count, by bytes or by a timer, and a flush is split  *)
(* into frames under the transport's cap.  Watchers and timers run on one  *)
(* event loop; rhapsody's state callbacks come from other threads.         *)
(*                                                                         *)
(* A payload is its sizes: `wire' is what the frame carries, `count' what  *)
(* _payload_size makes of it.  A result that is plain JSON is not a string *)
(* and counts as a small scalar.  Sizes are units of the cap.              *)
(***************************************************************************)
EXTENDS Naturals, Sequences, FiniteSets, SequencesExt

CONSTANTS Tasks,      \* tasks, watched in submissions
          Batches,    \* the submissions: a partition of Tasks
          Shapes,     \* how a task may end: output, result, and whether that is plain JSON
          Cap,        \* frame cap
          BatchSize,  \* NOTIFY_BATCH_SIZE
          SidBytes,   \* the sid that notify() adds to a frame
          Rest        \* remaining fields of a payload

ASSUME NotifySizes == /\ Shapes \subseteq [out: Nat, rv: Nat, plain: BOOLEAN]
                      /\ Cap \in Nat /\ BatchSize \in Nat \ {0}
                      /\ SidBytes + Rest <= Cap \div 4
                      /\ UNION Batches = Tasks

VARIABLES
  attached,   \* self._rh_session is set
  state,      \* rhapsody: state of each task
  shape,      \* how it ended
  pending,    \* futures the watchers wait for
  watched,    \* submissions whose watcher has begun
  buf,        \* _notify_buf
  flagged,    \* _flush_scheduled
  timers,     \* delayed flushes under way
  frames,     \* the largest frame sent, without and with a plain result
  told,       \* terminal notifications sent or buffered, per task
  seen        \* _notified_states

rnVars == <<attached, state, shape, pending, watched, buf, flagged, timers, frames, told, seen>>

NoShape == [out |-> 0, rv |-> 0, plain |-> FALSE]
Payload == [wire: Nat, count: Nat, plain: BOOLEAN]

\* Every variable keeps its type.
RnTypeOK ==
  /\ attached \in BOOLEAN /\ flagged \in BOOLEAN /\ timers \in Nat
  /\ state \in [Tasks -> {"new", "submitted", "RUNNING", "DONE"}]
  /\ shape \in [Tasks -> Shapes \cup {NoShape}]
  /\ pending \subseteq Tasks /\ watched \subseteq Batches
  /\ buf \in Seq(Payload)
  /\ frames \in [BOOLEAN -> Nat]
  /\ told \in [Tasks -> Nat]
  /\ seen \in [Tasks -> {"none", "RUNNING", "DONE"}]

RnInit ==
  /\ attached = TRUE
  /\ state = [t \in Tasks |-> "new"] /\ shape = [t \in Tasks |-> NoShape]
  /\ pending = {} /\ watched = {}
  /\ buf = <<>> /\ flagged = FALSE /\ timers = 0 /\ frames = [plain \in BOOLEAN |-> 0]
  /\ told = [t \in Tasks |-> 0] /\ seen = [t \in Tasks |-> "none"]

-----------------------------------------------------------------------------
(* Payloads. *)

RvLimit  == Cap \div 2          \* BUDGET_RATIO
OutLimit == Cap \div 8          \* OUTPUT_RATIO, per output stream
\* _fit_output: the tail of a longer stream.
Fit(n) == Min({n, OutLimit})
\* _oversized_return_value: an error text instead (one unit).
Result(n) == IF n > RvLimit THEN 1 ELSE n

\* _notification_payload, and _payload_size of it.
PayloadOf(x) ==
  [wire  |-> Rest + 2 * Fit(x.out) + Result(x.rv),
   count |-> Rest + 2 * Fit(x.out) + (IF x.plain /\ x.rv <= RvLimit THEN Min({x.rv, 1}) ELSE Result(x.rv)),
   plain |-> x.plain]
ClosedPayload == [wire |-> Rest, count |-> Rest, plain |-> FALSE]

\* _frame_budget
Budget == Max({RvLimit - SidBytes, RvLimit \div 2})

Total(g(_), f) == LET S[i \in 0..Len(f)] == IF i = 0 THEN 0 ELSE S[i - 1] + g(f[i])
                IN S[Len(f)]
Size(f)   == Total(LAMBDA p : p.count, f)
Joined(f) == [wire  |-> SidBytes + Total(LAMBDA p : p.wire, f),
              plain |-> \E i \in DOMAIN f : f[i].plain]
\* _split_frames
SplitFrames(batch) ==
  LET fs[i \in 0..Len(batch)] ==
        IF i = 0 THEN <<>>
        ELSE LET prev == fs[i - 1]
             IN IF prev # <<>> /\ Size(Last(prev)) + batch[i].count <= Budget
                THEN Append(Front(prev), Append(Last(prev), batch[i]))
                ELSE Append(prev, <<batch[i]>>)
  IN fs[Len(batch)]

-----------------------------------------------------------------------------
(* The buffer.  A queueing step maps the notifier's state to the next. *)

Notifier == [buf |-> buf, flagged |-> flagged, timers |-> timers, frames |-> frames]

\* _flush_notifications
Sent(n) ==
  LET F == {Joined(f) : f \in ToSet(SplitFrames(n.buf))}
  IN [plain \in BOOLEAN |-> Max({n.frames[plain]} \cup {f.wire : f \in {g \in F : g.plain = plain}})]
Flushed(n) == [n EXCEPT !.flagged = FALSE, !.buf = <<>>, !.frames = Sent(n)]

\* _queue_notification and _schedule_flush
Queued(n, p) ==
  LET m == [n EXCEPT !.buf = Append(@, p)]
  IN IF Len(m.buf) >= BatchSize \/ Size(m.buf) >= Budget THEN Flushed(m)
     ELSE IF m.flagged THEN m
     ELSE [m EXCEPT !.flagged = TRUE, !.timers = @ + 1]

Notify(N) == \E n \in {N} :
  buf' = n.buf /\ flagged' = n.flagged /\ timers' = n.timers /\ frames' = n.frames
Tell(S)   == told' = [t \in Tasks |-> IF t \in S THEN told[t] + 1 ELSE told[t]]

\* A delayed flush runs; the buffer may have been flushed since.
FlushFires ==
  /\ timers > 0
  /\ Notify(IF buf = <<>> THEN [Notifier EXCEPT !.timers = @ - 1, !.flagged = FALSE]
            ELSE Flushed([Notifier EXCEPT !.timers = @ - 1]))
  /\ UNCHANGED <<attached, state, shape, pending, watched, told, seen>>

-----------------------------------------------------------------------------
(* Tasks and their watchers. *)

\* submit_tasks hands the chunks to rhapsody; after a teardown it answers 410.
SubmitBatch(b) ==
  /\ attached /\ \A t \in b : state[t] = "new"
  /\ state' = [t \in Tasks |-> IF t \in b THEN "submitted" ELSE state[t]]
  /\ UNCHANGED <<attached, shape, pending, watched, buf, flagged, timers, frames, told, seen>>

\* The first step of _watch_batch, later than the submission.
WatchBegins(b) ==
  /\ b \notin watched /\ \A t \in b : state[t] # "new"
  /\ watched' = watched \cup {b}
  /\ IF attached
     THEN pending' = pending \cup b /\ UNCHANGED <<buf, flagged, timers, frames, told>>
     ELSE /\ LET n[i \in 0..Cardinality(b)] ==
                   IF i = 0 THEN Notifier ELSE Queued(n[i - 1], ClosedPayload)
             IN Notify(n[Cardinality(b)])
          /\ Tell(b) /\ UNCHANGED pending
  /\ UNCHANGED <<attached, state, shape, seen>>

TaskOver(t, x) ==
  /\ state[t] \in {"submitted", "RUNNING"}
  /\ state' = [state EXCEPT ![t] = "DONE"]
  /\ shape' = [shape EXCEPT ![t] = x]
  /\ UNCHANGED <<attached, pending, watched, buf, flagged, timers, frames, told, seen>>

\* asyncio.wait returns futures that are done; they are taken one by one, which
\* only adds interleavings.
WatchWakes(t) ==
  /\ t \in pending /\ state[t] = "DONE"
  /\ pending' = pending \ {t}
  /\ Notify(Queued(Notifier, PayloadOf(shape[t])))
  /\ Tell({t})
  /\ shape' = [shape EXCEPT ![t] = NoShape]
  /\ UNCHANGED <<attached, state, watched, seen>>

\* _on_task_state_change, on a thread of the backend: a state is told once, and
\* a terminal one is left to the watcher.
TellsState(t, s) == Tell({})
StateChange(t, s) ==
  /\ \/ s = "RUNNING" /\ state[t] = "submitted" /\ state' = [state EXCEPT ![t] = s]
     \/ s = "DONE" /\ state[t] = "DONE" /\ UNCHANGED state
  /\ seen[t] # s
  /\ seen' = [seen EXCEPT ![t] = s]
  /\ TellsState(t, s)
  /\ UNCHANGED <<attached, shape, pending, watched, buf, flagged, timers, frames>>

\* The session is torn down.
Torn ==
  /\ attached /\ attached' = FALSE
  /\ UNCHANGED <<state, shape, pending, watched, buf, flagged, timers, frames, told, seen>>

-----------------------------------------------------------------------------
RnNext ==
  \/ FlushFires \/ Torn
  \/ \E b \in Batches : SubmitBatch(b) \/ WatchBegins(b)
  \/ \E t \in Tasks : \/ WatchWakes(t)
                      \/ \E x \in Shapes : TaskOver(t, x)
                      \/ \E s \in {"RUNNING", "DONE"} : StateChange(t, s)

-----------------------------------------------------------------------------
(* Properties. *)

\* A payload in the buffer has a delayed flush under way, also after a full
\* buffer was flushed at once and reset the flag (_queue_notification).
NeverStranded == buf # <<>> => timers > 0

\* A task's end is told once, by its watcher alone, and by then it has ended or
\* its session is gone.
ToldOnce == \A t \in Tasks : /\ told[t] <= 1
                             /\ told[t] = 1 => state[t] = "DONE" \/ ~attached

\* No frame of encoded results and output exceeds the transport's cap, however
\* completions bunch up (_split_frames).
EncodedFramesFit == frames[FALSE] <= Cap

=============================================================================
