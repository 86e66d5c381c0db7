------------------------------- MODULE Replay -------------------------------
(***************************************************************************)
(* The event-replay plugin: one stream of a session as the broker's tap    *)
(* hands it over, its bounded buffer, and a consumer that splices replay   *)
(* into live delivery.                                                     *)
(*                                                                         *)
(* Event n of the stream has seq n; First is the first seq this plugin saw *)
(* of the stream.  The events up to `old' are past session_max_age.        *)
(***************************************************************************)
EXTENDS Integers, Sequences, FiniteSetsExt

CONSTANTS
    LoSeq,     \* the first seq of the stream the plugin sees
    HiSeq,      \* bound: the last event of the stream
    MaxBytes,  \* session_max_bytes
    BatchMax   \* max_events of a fetch

ASSUME ReplayConstants ==
    /\ LoSeq \in Nat \ {0} /\ HiSeq \in Nat /\ LoSeq <= HiSeq
    /\ MaxBytes \in Nat /\ BatchMax \in Nat \ {0}

VARIABLES
    rseq,      \* the last seq the broker stamped
    old,       \* events up to this one are past the age bound
    kept,      \* the buffer of the stream; << >> also when it does not exist
    exists,    \* `_session_buffers' has the stream
    dropped,   \* the buffer's last_dropped_seq, 0: None
    stream,    \* its entry in `_streams': <<first, last dropped>> or << >>
    matching,  \* the events the consumer's patterns match
    reader,    \* the consumer: "away", "draining", "spliced"
    pos,       \* its after_seq
    got,       \* events it saw, live or replayed, or wrote off at a reported gap
    missed     \* this drain ended on a stream that has no buffer

rpVars == <<rseq, old, kept, exists, dropped, stream, matching, reader, pos, got,
            missed>>

Seqs == LoSeq .. HiSeq
Events == [seq : Seqs, size : 1 .. MaxBytes + 1]

RpInit ==
    /\ rseq = LoSeq - 1 /\ old = LoSeq - 1
    /\ kept = << >> /\ exists = FALSE /\ dropped = 0 /\ stream = << >>
    /\ matching \in SUBSET Seqs
    /\ reader = "away" /\ pos = -1 /\ got = {}
    /\ missed = FALSE

-----------------------------------------------------------------------------
(***************************************************************************)
(* _RingBuffer: what is left of a buffer is a suffix, and last_dropped_seq *)
(* is the seq before it.                                                   *)
(***************************************************************************)
Bytes(b) ==
    LET Upto[i \in 0 .. Len(b)] == IF i = 0 THEN 0 ELSE Upto[i - 1] + b[i].size
    IN Upto[Len(b)]

\* b without the events before position k; where age, and where size stops.
From(b, k) == SubSeq(b, k, Len(b))
Young(b)   == {k \in 1 .. Len(b) + 1 : k = Len(b) + 1 \/ b[k].seq > old}
Fitting(b) == {k \in 1 .. Len(b) + 1 : Bytes(From(b, k)) <= MaxBytes}

\* The longest suffix of b that neither age nor size evicts.
Enforced(b) == From(b, Min(Young(b) \cap Fitting(b)))

Aged(b) == From(b, Min(Young(b)))

DroppedUncounted(b, rest, was) == was

\* last_dropped_seq after b was cut to rest.
DroppedBy(b, rest, was) == IF rest = b THEN was ELSE b[Len(b) - Len(rest)].seq

\* The tap: retention goes on whether or not anyone reads.
OnReplayEvent(size) ==
    /\ rseq < HiSeq
    /\ rseq' = rseq + 1
    /\ LET rec == IF stream = << >> THEN <<rseq + 1, 0>> ELSE stream
           full == Append(kept, [seq |-> rseq + 1, size |-> size])
       IN /\ stream' = rec
          /\ kept' = Enforced(full)
          /\ dropped' = DroppedBy(full, kept', IF exists THEN dropped ELSE rec[2])
    /\ exists' = TRUE
    \* a spliced or draining consumer has its live callback registered
    /\ got' = IF reader = "away" THEN got ELSE got \cup {rseq + 1}
    /\ UNCHANGED <<old, matching, reader, pos, missed>>

\* Time passes: more of the stream is past the age bound.
TimeAges ==
    /\ \E k \in old + 1 .. rseq : old' = k
    /\ UNCHANGED <<rseq, kept, exists, dropped, stream, matching, reader, pos, got,
                   missed>>

\* The sweeper, and the stats route: an emptied buffer is deleted.
EvictAged ==
    /\ exists
    /\ kept' = Aged(kept)
    /\ exists' = (kept' # << >>)
    /\ dropped' = IF exists' THEN DroppedBy(kept, kept', dropped) ELSE 0
    /\ stream' = IF exists' \/ stream = << >> THEN stream
                 ELSE <<stream[1], DroppedBy(kept, kept', dropped)>>
    /\ UNCHANGED <<rseq, old, matching, reader, pos, got, missed>>

\* The LRU bound on `_streams': so many others were seen since.
ForgetStream ==
    /\ stream # << >> /\ stream' = << >>
    /\ UNCHANGED <<rseq, old, kept, exists, dropped, matching, reader, pos, got,
                   missed>>

-----------------------------------------------------------------------------
(***************************************************************************)
(* The consumer: live callback first, then replay_iter() from its position *)
(* until a batch is empty.                                                 *)
(***************************************************************************)
Join ==
    /\ reader = "away"
    /\ reader' = "draining" /\ missed' = FALSE
    /\ UNCHANGED <<rseq, old, kept, exists, dropped, stream, matching, pos, got>>

\* It drops off the broker; its position and what it saw it keeps.
Drop ==
    /\ reader # "away" /\ reader' = "away"
    /\ UNCHANGED <<rseq, old, kept, exists, dropped, stream, matching, pos, got,
                   missed>>

EventMatches(e) == e.seq \in matching

\* select(): the oldest, at least one, at most BatchMax; here, their seqs.
Select(b, lower) ==
    LET found == {i \in 1 .. Len(b) : b[i].seq > lower /\ EventMatches(b[i])}
        first == {i \in found : Cardinality({j \in found : j < i}) < BatchMax}
    IN {b[i].seq : i \in first}

FirstHeld == IF stream # << >> THEN stream[1]
            ELSE IF kept # << >> THEN kept[1].seq ELSE 0

Gap(lower, b, last, first) ==
    \/ b # << >> /\ b[1].seq > IF lower >= 0 THEN lower + 1 ELSE first
    \/ last # 0 /\ last > lower

\* A batch that is empty ends the drain.
ReplayIter(batch) ==
    /\ pos' = IF batch = {} THEN pos ELSE Max(batch)
    /\ reader' = IF batch = {} THEN "spliced" ELSE reader

\* _route_fetch and _read.
Fetch ==
    /\ reader = "draining" /\ exists
    /\ kept' = Aged(kept)
    /\ dropped' = DroppedBy(kept, kept', dropped)
    /\ LET batch == Select(kept', pos)
           gap == Gap(pos, kept', dropped', FirstHeld)
       IN /\ got' = got \cup batch \cup (IF gap THEN LoSeq .. rseq - Len(kept') ELSE {})
          /\ ReplayIter(batch)
    /\ UNCHANGED <<rseq, old, exists, stream, matching, missed>>

\* The stream has no buffer: an empty batch and no gap.
FetchNothing ==
    /\ reader = "draining" /\ ~exists
    /\ reader' = "spliced" /\ missed' = TRUE
    /\ UNCHANGED <<rseq, old, kept, exists, dropped, stream, matching, pos, got>>

RpNext ==
    \/ \E size \in 1 .. MaxBytes + 1 : OnReplayEvent(size)
    \/ TimeAges \/ EvictAged \/ ForgetStream
    \/ Join \/ Drop \/ Fetch \/ FetchNothing

RpFair == WF_rpVars(Fetch \/ FetchNothing)

RpSpec == RpInit /\ [][RpNext]_rpVars /\ RpFair

-----------------------------------------------------------------------------
RpTypeOK ==
    /\ rseq \in LoSeq - 1 .. HiSeq /\ old \in LoSeq - 1 .. rseq
    /\ kept \in Seq(Events) /\ exists \in BOOLEAN /\ dropped \in 0 .. HiSeq
    /\ stream \in {<< >>} \cup (Seqs \X (0 .. HiSeq))
    /\ matching \subseteq Seqs /\ reader \in {"away", "draining", "spliced"}
    /\ pos \in -1 .. HiSeq /\ got \subseteq Seqs
    /\ missed \in BOOLEAN

\* The events the consumer asked for and never saw.
Lost == {n \in matching : n <= rseq /\ n \notin got}

\* The record of the stream goes back to its first event here.
Remembered == stream # << >> /\ stream[1] = LoSeq

(***************************************************************************)
(* A consumer that registered its live callback and drained replay has     *)
(* every event its patterns match, or was told of the gap, whatever was    *)
(* evicted by age, by size or by the sweeper meanwhile, and however often  *)
(* it was away.  Two ways out the code leaves open: a drain that ends on a *)
(* stream whose buffer the sweeper deleted, and a stream whose record the  *)
(* LRU bound forgot.                                                       *)
(***************************************************************************)
SplicedIsComplete ==
    reader = "spliced" /\ ~missed /\ Remembered => Lost = {}

(***************************************************************************)
(* The buffer is a run of consecutive events that ends with the newest one *)
(* the size bound lets in, within both bounds: what was dropped is all     *)
(* below what is kept.                                                     *)
(***************************************************************************)
RetainedIsSuffix ==
    /\ \A i \in 1 .. Len(kept) : kept[i].seq = rseq - Len(kept) + i
    /\ Bytes(kept) <= MaxBytes
    /\ exists /\ Remembered =>
           dropped = IF rseq - Len(kept) < LoSeq THEN 0 ELSE rseq - Len(kept)

(***************************************************************************)
(* replay_iter() always ends: select() returns at least one event while    *)
(* any is left, so the position moves on.                                  *)
(***************************************************************************)
DrainEnds == reader = "draining" ~> reader # "draining"
=============================================================================
