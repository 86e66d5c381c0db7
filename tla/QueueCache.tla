----------------------------- MODULE QueueCache -----------------------------
(***************************************************************************)
(* The cache of the batch system's queue information, which all sessions   *)
(* of the queue_info plugin and its two prefetch threads share.  A query   *)
(* runs in a thread: it looks at the cache under the lock, collects from   *)
(* the scheduler outside of it, and stores under the lock again.  What a   *)
(* collector brings back is the scheduler's state at one moment while it   *)
(* runs, here the time of that moment.                                     *)
(***************************************************************************)
EXTENDS Naturals

CONSTANTS
    QKeys,        \* what is cached: info:<user>, jobs:<queue>:<user>, ...
    QCalls,      \* threads with a query under way
    Ttl,         \* _cache_ttl
    MaxCollect,  \* bound: how long a collector may take
    Horizon      \* bound: the last moment of a behaviour

ASSUME QueueConstants == Ttl \in Nat \ {0} /\ MaxCollect \in Nat /\ Horizon \in Nat

VARIABLES
    clock,   \* time.time()
    cache,   \* key -> [snap, stamp], or Nothing: `_cache' and `_cache_time'
    query,   \* the queries
    answer   \* the last answer given

qcVars == <<clock, cache, query, answer>>

Clock == 0 .. Horizon
Nothing == [snap |-> 0, stamp |-> 0, held |-> FALSE]
QueryIdle == [at |-> "idle", key |-> "", forced |-> FALSE, began |-> 0, snap |-> 0]
NoAnswer == [snap |-> 0, began |-> 0, done |-> 0, forced |-> FALSE]

QcInit ==
    /\ clock = 0
    /\ cache = [k \in QKeys |-> Nothing]
    /\ query = [c \in QCalls |-> QueryIdle]
    /\ answer = NoAnswer

Answers(c, snap, began, forced) ==
    /\ answer' = [snap |-> snap, began |-> began, done |-> clock, forced |-> forced]
    /\ query' = [query EXCEPT ![c] = QueryIdle]

Valid(k) == cache[k].held /\ clock - cache[k].stamp < Ttl

Untouched(k) == cache' = cache

\* get_info, list_jobs, list_all_jobs, list_allocations, and the prefetch.
Hit(c, k) ==
    /\ query[c].at = "idle" /\ Valid(k)
    /\ Answers(c, cache[k].snap, clock, FALSE)
    /\ Untouched(k)
    /\ UNCHANGED clock

Miss(c, k, force) ==
    /\ query[c].at = "idle" /\ (force \/ ~Valid(k))
    /\ query' = [query EXCEPT ![c] = [at |-> "collecting", key |-> k,
                                      forced |-> force, began |-> clock, snap |-> 0]]
    /\ UNCHANGED <<clock, cache, answer>>

\* The scheduler is read at some moment while the collector runs.
Collects(c) ==
    /\ query[c].at = "collecting"
    /\ query' = [query EXCEPT ![c].at = "collected", ![c].snap = clock]
    /\ UNCHANGED <<clock, cache, answer>>

CollectFails(c) ==
    /\ query[c].at \in {"collecting", "collected"}
    /\ query' = [query EXCEPT ![c] = QueryIdle]
    /\ UNCHANGED <<clock, cache, answer>>

\* The entry is stamped with the time it is stored, not the time it is of.
StoresAnswer(c) ==
    /\ query[c].at = "collected"
    /\ cache' = [cache EXCEPT ![query[c].key] =
                   [snap |-> query[c].snap, stamp |-> clock, held |-> TRUE]]
    /\ Answers(c, query[c].snap, query[c].began, query[c].forced)
    /\ UNCHANGED clock

ClockTicks ==
    /\ clock < Horizon /\ clock' = clock + 1
    /\ \A c \in QCalls : query[c].at # "idle" => clock - query[c].began < MaxCollect
    /\ UNCHANGED <<cache, query, answer>>

QcNext ==
    \/ \E c \in QCalls :
         \/ \E k \in QKeys : Hit(c, k)
         \/ \E k \in QKeys, force \in BOOLEAN : Miss(c, k, force)
         \/ Collects(c) \/ CollectFails(c) \/ StoresAnswer(c)
    \/ ClockTicks

QcSpec == QcInit /\ [][QcNext]_qcVars

-----------------------------------------------------------------------------
QcTypeOK ==
    /\ clock \in Clock
    /\ cache \in [QKeys -> [snap : Clock, stamp : Clock, held : BOOLEAN]]
    /\ query \in [QCalls -> [at : {"idle", "collecting", "collected"},
                             key : QKeys \cup {""}, forced : BOOLEAN,
                             began : Clock, snap : Clock]]
    /\ answer \in [snap : Clock, began : Clock, done : Clock, forced : BOOLEAN]

(***************************************************************************)
(* However collectors of one key overlap, an answer shows the scheduler as *)
(* it was less than one TTL and one collection before: _get_cached() never *)
(* prolongs an entry, and an entry is at most one collection older than    *)
(* its stamp.                                                              *)
(***************************************************************************)
AnswersAreRecent == answer.done < answer.snap + Ttl + MaxCollect

(***************************************************************************)
(* "force (bool): Bypass cache if True": a forced answer shows a state the *)
(* scheduler was in after the query was made, also when a slower query     *)
(* stored meanwhile.                                                       *)
(***************************************************************************)
ForcedIsFresh == answer.forced => answer.snap >= answer.began
=============================================================================
