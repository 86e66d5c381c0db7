----------------------------- MODULE TaskBatches -----------------------------
(***************************************************************************)
(* Bulk submission in the rhapsody dialect and the coalesced writes and    *)
(* notifications of the dispatcher (_route_submit_rh, _notify_task,        *)
(* _queue_rh_notification, _mark_dirty, _flush_rh, shutdown;               *)
(* plugin_task_dispatcher.py).  A batch of tasks for several pools is      *)
(* validated as a whole; what happens to a task is buffered, its pool is   *)
(* marked dirty, and one delayed flush saves the dirty pools and sends the *)
(* buffer, unless the buffer is full and flushes at once.                  *)
(*                                                                         *)
(* Which queued tasks a drain claims is the policy's business: any subset  *)
(* (see Dispatcher and Pilots).  The frame budget in bytes is as in        *)
(* RhapsodyNotify; here a frame is the part of the buffer taken together.  *)
(***************************************************************************)
EXTENDS Naturals, Sequences, FiniteSets, SequencesExt

CONSTANTS
    TbPool,       \* function from task uids to the pool they name
    TbPools,      \* pools the session has
    TbBatch,      \* NOTIFY_BATCH_SIZE
    MaxTbTries,   \* bound: submissions per uid
    MaxTbStops    \* bound: stops of the broker

ASSUME BatchConstants ==
    /\ IsFiniteSet(DOMAIN TbPool)
    /\ TbBatch \in Nat \ {0} /\ MaxTbTries \in Nat /\ MaxTbStops \in Nat

VARIABLES
    tbTask,      \* per uid: the state of its record
    tbDisk,      \* the same as saved
    tbTries,     \* per uid: submissions so far
    tbQueue,     \* the buffer and the flushes, see TbInit
    tbTold,      \* per uid: the last state sent of its current submission
    tbLife,      \* up, ending, down
    tbHeld,      \* uids that had ended when the shutdown began
    tbStops      \* stops so far

tbVars == <<tbTask, tbDisk, tbTries, tbQueue, tbTold, tbLife, tbHeld, tbStops>>

TbUids   == DOMAIN TbPool
TbEnds   == {"DONE", "FAILED", "CANCELED"}
TbLive   == {"QUEUED", "RUNNING"}
TbOf(p)  == {u \in TbUids : TbPool[u] = p}

EmptyQueue ==
    [buf    |-> <<>>,      \* _rh_notify_buf: <<uid, submission, state>>
     dirty  |-> {},        \* _dirty_pools
     sched  |-> FALSE,     \* _rh_flush_scheduled
     timers |-> 0,         \* delayed flushes under way
     frame  |-> <<>>]      \* what the running flush has still to send

TbInit ==
    /\ tbTask = [u \in TbUids |-> "none"] /\ tbDisk = tbTask
    /\ tbTries = [u \in TbUids |-> 0]
    /\ tbQueue = EmptyQueue
    /\ tbTold = [u \in TbUids |-> "none"]
    /\ tbLife = "up" /\ tbHeld = {} /\ tbStops = 0

\* The loop is free: no flush stands between its writes and its frames.
TbFree == tbLife # "down" /\ tbQueue.frame = <<>>

-----------------------------------------------------------------------------
(* The buffer (with a notify window above zero).  A step works on a pair   *)
(* of the queue and the ledger, with the records as they are by then.      *)

Saved(disk, task, ps) == [u \in TbUids |-> IF TbPool[u] \in ps THEN task[u] ELSE disk[u]]

\* _flush_rh(): the flag is down, the dirty pools saved, the buffer taken.
TbFlushed(x, task) ==
    [q |-> [x.q EXCEPT !.sched = FALSE, !.buf = <<>>, !.dirty = {}, !.frame = @ \o x.q.buf],
     disk |-> Saved(x.disk, task, x.q.dirty)]

Armed(q) == IF q.sched THEN q ELSE [q EXCEPT !.sched = TRUE, !.timers = @ + 1]

\* _mark_dirty()
MarkedDirty(x, p) == [x EXCEPT !.q = Armed([x.q EXCEPT !.dirty = @ \cup {p}])]

\* _queue_rh_notification()
TbQueued(x, task, u) ==
    LET y == [x EXCEPT !.q.buf = Append(@, <<u, tbTries'[u], task[u]>>)] IN
    IF Len(y.q.buf) >= TbBatch THEN TbFlushed(y, task) ELSE [y EXCEPT !.q = Armed(@)]

\* _drain_pending() claims some of the queued tasks, saves their pools at once
\* and tells about each; the order of the claims does not matter.
TbClaimed(task, us) == [u \in TbUids |-> IF u \in us THEN "RUNNING" ELSE task[u]]
Drained(x, task, us) ==
    LET order == SetToSeq(us)
        Done[n \in 0..Len(order)] ==
            IF n = 0 THEN [x EXCEPT !.disk = Saved(@, task, {TbPool[u] : u \in us})]
            ELSE TbQueued(Done[n - 1], task, order[n])
    IN Done[Len(order)]

Before    == [q |-> tbQueue, disk |-> tbDisk]
Settles(x) == tbQueue' = x.q /\ tbDisk' = x.disk

-----------------------------------------------------------------------------
(* Requests and events.                                                    *)

\* "validate the whole batch before touching any state"
ValidBatch(batch) == \A i \in DOMAIN batch : TbPool[batch[i]] \in TbPools

\* A live or done task is only acknowledged.
FreshOnes(batch) == {u \in ToSet(batch) : tbTask[u] \notin TbLive \cup {"DONE"}}

\* The pools of the batch in turn: records, one save, a drain.
SubmitRh(batch, claimed) ==
    LET new  == FreshOnes(batch)
        ps   == {TbPool[u] : u \in new}
        task == TbClaimed([u \in TbUids |-> IF u \in new THEN "QUEUED" ELSE tbTask[u]], claimed) IN
    /\ TbFree /\ tbLife = "up"
    /\ ValidBatch(batch) /\ new # {}
    /\ \A u \in new : tbTries[u] < MaxTbTries
    /\ \A u \in claimed : TbPool[u] \in ps /\ (u \in new \/ tbTask[u] = "QUEUED")
    /\ tbTries' = [u \in TbUids |-> tbTries[u] + IF u \in new THEN 1 ELSE 0]
    /\ tbTold' = [u \in TbUids |-> IF u \in new THEN "none" ELSE tbTold[u]]
    /\ tbTask' = task
    /\ Settles(Drained([Before EXCEPT !.disk = Saved(@, task, ps)], task, claimed))
    /\ UNCHANGED <<tbLife, tbHeld, tbStops>>

\* Mutant: the client is told before the pool is marked.
TellsFirst(task, u) == MarkedDirty(TbQueued(Before, task, u), TbPool[u])
\* Both ends of a task mark its pool and then tell about it.
MarksFirst(task, u) == TbQueued(MarkedDirty(Before, TbPool[u]), task, u)

\* _handle_task_terminal(): mark, tell, and drain.
TbTerminal(u, st, claimed) ==
    LET task == TbClaimed([tbTask EXCEPT ![u] = st], claimed) IN
    /\ TbFree /\ tbTask[u] = "RUNNING"
    /\ \A v \in claimed : TbPool[v] = TbPool[u] /\ tbTask[v] = "QUEUED"
    /\ tbTask' = task
    /\ UNCHANGED <<tbTries, tbTold, tbLife, tbHeld, tbStops>>
    /\ Settles(Drained(MarksFirst([tbTask EXCEPT ![u] = st], u), task, claimed))

\* _cancel_task(), or _mark_task_failed() after a failed submit: no drain.
TbGivenUp(u, st) ==
    LET task == [tbTask EXCEPT ![u] = st] IN
    /\ TbFree
    /\ tbTask[u] = "RUNNING" \/ (tbTask[u] = "QUEUED" /\ st = "CANCELED")
    /\ tbTask' = task
    /\ UNCHANGED <<tbTries, tbTold, tbLife, tbHeld, tbStops>>
    /\ Settles(MarksFirst(task, u))

\* submit_tasks returned: the pool is marked, nobody is told.
TbSubmitted(p) ==
    /\ TbFree /\ \E u \in TbOf(p) : tbTask[u] = "RUNNING"
    /\ p \notin tbQueue.dirty
    /\ Settles(MarkedDirty(Before, p))
    /\ UNCHANGED <<tbTask, tbTries, tbTold, tbLife, tbHeld, tbStops>>

-----------------------------------------------------------------------------
(* The flush, the shutdown and the crash.                                  *)

FlushTimer ==
    /\ TbFree /\ tbQueue.timers > 0
    /\ Settles(TbFlushed([Before EXCEPT !.q.timers = @ - 1], tbTask))
    /\ UNCHANGED <<tbTask, tbTries, tbTold, tbLife, tbHeld, tbStops>>

\* The frames go out; a payload of an earlier submission says nothing of this.
SendFrame ==
    LET f == tbQueue.frame[1] IN
    /\ tbQueue.frame # <<>>
    /\ tbTold' = IF f[2] = tbTries[f[1]] THEN [tbTold EXCEPT ![f[1]] = f[3]] ELSE tbTold
    /\ tbQueue' = [tbQueue EXCEPT !.frame = Tail(@)]
    /\ UNCHANGED <<tbTask, tbDisk, tbTries, tbLife, tbHeld, tbStops>>

StopsFlushed == Settles(TbFlushed(Before, tbTask))

\* shutdown() flushes first, while the tap and the coroutines still run.
TbShutdown ==
    /\ TbFree /\ tbLife = "up"
    /\ tbLife' = "ending"
    /\ tbHeld' = {u \in TbUids : tbTask[u] \in TbEnds}
    /\ StopsFlushed
    /\ UNCHANGED <<tbTask, tbTries, tbTold, tbStops>>

TbDown ==
    /\ TbFree /\ tbLife = "ending"
    /\ tbLife' = "down"
    /\ UNCHANGED <<tbTask, tbDisk, tbTries, tbQueue, tbTold, tbHeld, tbStops>>

\* A crash at any time, or the start after a shutdown: the ledger is loaded.
TbRestart ==
    /\ tbStops < MaxTbStops
    /\ tbStops' = tbStops + 1
    /\ tbTask' = tbDisk
    /\ tbQueue' = EmptyQueue
    /\ tbLife' = "up" /\ tbHeld' = {}
    /\ UNCHANGED <<tbDisk, tbTries, tbTold>>

-----------------------------------------------------------------------------
TbBatches == {<<u>> : u \in TbUids} \cup {<<u, v>> : u, v \in TbUids}

TbNext ==
    \/ \E b \in TbBatches, c \in SUBSET TbUids : SubmitRh(b, c)
    \/ \E u \in TbUids, st \in {"DONE", "FAILED"}, c \in SUBSET TbUids : TbTerminal(u, st, c)
    \/ \E u \in TbUids, st \in {"CANCELED", "FAILED"} : TbGivenUp(u, st)
    \/ \E p \in TbPools : TbSubmitted(p)
    \/ FlushTimer \/ SendFrame
    \/ TbShutdown \/ TbDown \/ TbRestart

\* The loop runs its timers, and a flush that began goes on.
TbFair == WF_tbVars(FlushTimer) /\ WF_tbVars(SendFrame)

TbSpec == TbInit /\ [][TbNext]_tbVars /\ TbFair

-----------------------------------------------------------------------------
\* Every variable has its type.
TbTypeOK ==
    /\ tbTask \in [TbUids -> TbLive \cup TbEnds \cup {"none"}]
    /\ tbDisk \in [TbUids -> TbLive \cup TbEnds \cup {"none"}]
    /\ tbTold \in [TbUids -> {"none", "RUNNING"} \cup TbEnds]
    /\ tbQueue.dirty \subseteq TbPools /\ tbHeld \subseteq TbUids
    /\ tbQueue.sched \in BOOLEAN /\ tbQueue.timers \in Nat
    /\ tbLife \in {"up", "ending", "down"}
    /\ Len(tbQueue.buf) < TbBatch

(* Whatever is buffered or dirty has a delayed flush coming, although the  *)
(* flag is also cleared by flushes that no timer asked for and a timer may *)
(* find nothing left: no pool and no notification waits for the next       *)
(* completion, which may never come.                                       *)
BufferedIsArmed ==
    tbQueue.buf # <<>> \/ tbQueue.dirty # {} => tbQueue.sched /\ tbQueue.timers > 0

(* A client that was told the end of a batch task never sees it live again *)
(* after a crash: the ledger is written before the frame is sent.          *)
ToldIsSaved ==
    \A u \in TbUids : tbTold[u] \in TbEnds => tbDisk[u] = tbTold[u]

(* "anything still coalescing gets its persist and its notification now":  *)
(* what had ended when a shutdown began is saved and told when it is over. *)
ShutdownLosesNothing ==
    tbLife = "down" /\ tbStops = 0
        => \A u \in tbHeld : tbDisk[u] = tbTask[u] /\ tbTold[u] = tbTask[u]

(* The end of a task is told, unless it is submitted again or the broker   *)
(* stops first.                                                            *)
TbEndIsTold ==
    \A u \in TbUids :
        tbTask[u] \in TbEnds /\ tbLife = "up" /\ tbStops = 0
            ~> tbTold[u] = tbTask[u] \/ tbTask[u] \in TbLive \/ tbLife # "up" \/ tbStops > 0
=============================================================================
