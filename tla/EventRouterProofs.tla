-------------------------- MODULE EventRouterProofs --------------------------
(***************************************************************************)
(* The safety properties of EventRouter for every set of subscribers,      *)
(* endpoints, plugins, topics, sessions and patterns, and every size of    *)
(* the queues and of the sequence table.  IndInv is the inductive          *)
(* invariant; the proof has one lemma per operator, one per conjunct, and  *)
(* under it one step per action.                                           *)
(***************************************************************************)
EXTENDS EventRouter, SeqFacts

USE NoneAssumption, SizeAssumption, BoundAssumption

-----------------------------------------------------------------------------
(* The operators. *)

\* Every event is of a stream that is numbered.
LEMMA StreamFacts ==
  ASSUME NEW e \in Kinds
  PROVE  /\ Stream(e) \in Streams
         /\ e.session = None <=> Stream(e) = None
         /\ e.session # None => Stream(e) \in SessionKeys
BY DEF Kinds, Stream, Streams, SessionKeys

\* The index made of a list is an index.
LEMMA ReindexType ==
  ASSUME NEW list \in Seq(Patterns)
  PROVE  Reindex(list) \in Index
<1>1. ToSet(list) \subseteq Pattern
  BY PatternAssumption DEF ToSet
<1> QED  BY <1>1 DEF Reindex, Index

\* The index of a list finds an event exactly when a pattern of it matches.
LEMMA IndexFinds ==
  ASSUME NEW list \in Seq(Patterns), NEW e \in Kinds
  PROVE  Indexed(Reindex(list), e) <=> Matches(ToSet(list), e)
<1> DEFINE P == ToSet(list)
           x == Reindex(list)
<1>1. P \subseteq Pattern
  BY PatternAssumption DEF ToSet
<1>2. /\ e.src \in Endpoints /\ e.plugin \in Plugins /\ e.topic \in Topics
      /\ e.session \in Sessions \cup {None}
  BY DEF Kinds
<1>3. x.rest = {p \in P : ~IsNarrow(p)}
  BY DEF Reindex
<1>4. ASSUME e.session # None
      PROVE  x.streams[<<e.src, e.plugin, e.session>>] =
               {p \in P : IsNarrow(p) /\ <<e.src, e.plugin, e.session>> = <<p.endpoint, p.plugin, p.session>>}
  BY <1>2, <1>4 DEF Reindex, SessionKeys
<1>5. x.pairs[<<e.src, e.plugin>>] =
        {p \in P : IsNarrow(p) /\ <<e.src, e.plugin>> = <<p.endpoint, p.plugin>>}
  BY <1>2 DEF Reindex
<1> HIDE DEF P, x
<1>6. CASE e.session = None
  <2>1. Indexed(x, e) <=> Matches(x.rest, e) \/ Matches(x.pairs[<<e.src, e.plugin>>], e)
    BY <1>6 DEF Indexed
  <2>2. \A p \in P : IsNarrow(p) /\ MatchesOne(p, e) => p.endpoint = e.src /\ p.plugin = e.plugin
    BY <1>1 DEF IsNarrow, MatchesOne
  <2> QED  BY <1>3, <1>5, <2>1, <2>2 DEF Matches, P, x
<1>7. CASE e.session # None
  <2>1. Indexed(x, e) <=> \/ Matches(x.rest, e)
                          \/ Matches(x.streams[<<e.src, e.plugin, e.session>>], e)
    BY <1>7 DEF Indexed
  <2>2. \A p \in P : IsNarrow(p) /\ MatchesOne(p, e)
                       => p.endpoint = e.src /\ p.plugin = e.plugin /\ p.session = e.session
    BY <1>1, <1>7 DEF IsNarrow, MatchesOne
  <2> QED  BY <1>3, <1>4, <1>7, <2>1, <2>2 DEF Matches, P, x
<1> QED  BY <1>6, <1>7 DEF P, x

\* r is q with x at its end, and perhaps without its first element.
Pushed(q, x, r) ==
  \E o \in {0, 1} :
    /\ Len(r) = Len(q) + 1 - o
    /\ \A i \in 1..Len(r) : r[i] = IF i + o = Len(q) + 1 THEN x ELSE q[i + o]

\* push keeps the queue within its depth and the order of what it holds.
LEMMA PushFacts ==
  ASSUME NEW S, NEW q \in Seq(S), Len(q) <= EventQueue, NEW x \in S
  PROVE  /\ Push(q, x) \in Seq(S) /\ Len(Push(q, x)) <= EventQueue
         /\ Pushed(q, x, Push(q, x))
<1> DEFINE g == Append(q, x)
<1>0. Len(q) \in Nat
  OBVIOUS
<1>1. /\ g \in Seq(S) /\ Len(g) = Len(q) + 1
      /\ \A i \in 1..(Len(q) + 1) : g[i] = IF i = Len(q) + 1 THEN x ELSE q[i]
  BY AppendFacts
<1>2. Push(q, x) = IF Len(g) > EventQueue THEN Tail(g) ELSE g
  BY DEF Push
<1> HIDE DEF g
<1>3. CASE Len(g) > EventQueue
  <2>1. g # <<>>
    BY <1>0, <1>1
  <2>2. /\ Tail(g) \in Seq(S) /\ Len(Tail(g)) = Len(q)
        /\ \A i \in 1..Len(q) : Tail(g)[i] = g[i + 1]
    BY <1>0, <1>1, <2>1, TailFacts
  <2> QED  BY <1>0, <1>1, <1>2, <1>3, <2>2 DEF Pushed
<1>4. CASE ~(Len(g) > EventQueue)
  BY <1>0, <1>1, <1>2, <1>4 DEF Pushed
<1> QED  BY <1>3, <1>4

\* A counter of the table is what the next event of its stream gets.
LEMMA NextSeqIs ==
  ASSUME CountersSound, NEW i \in Counters
  PROVE  Known(sessionSeq[i][1]) /\ NextSeq(sessionSeq[i][1]) = sessionSeq[i][2]
<1> DEFINE k == sessionSeq[i][1]
<1>1. Known(k)
  BY DEF Known
<1>2. Slot(k) \in Counters /\ sessionSeq[Slot(k)][1] = k
  BY DEF Slot
<1>3. Slot(k) = i
  BY <1>2 DEF CountersSound
<1> QED  BY <1>1, <1>3 DEF NextSeq

\* The next number of a stream is at most the high-water mark.
LEMMA NextSeqType ==
  ASSUME TypeOK, CountersSound, NEW k
  PROVE  NextSeq(k) \in 0..MaxSeq /\ NextSeq(k) <= base
<1>0. base \in 0..MaxSeq /\ sessionSeq \in Seq(SessionKeys \X (0..MaxSeq))
  BY DEF TypeOK
<1>1. CASE Known(k)
  <2>1. Slot(k) \in Counters /\ sessionSeq[Slot(k)][1] = k
    BY <1>1 DEF Known, Slot
  <2>2. sessionSeq[Slot(k)] \in SessionKeys \X (0..MaxSeq)
    BY <1>0, <2>1 DEF Counters
  <2> QED  BY <1>1, <2>1, <2>2 DEF NextSeq, CountersSound
<1>2. CASE ~Known(k)
  BY <1>0, <1>2 DEF NextSeq
<1> QED  BY <1>1, <1>2

\* Counting an event of stream k: its counter is the last of the table, the
\* others are old counters of other streams.
LEMMA CountedFacts ==
  ASSUME TypeOK, CountersSound, NEW k \in SessionKeys, NextSeq(k) < MaxSeq
  PROVE  /\ Counted(k) \in Seq(SessionKeys \X (0..MaxSeq)) /\ Len(Counted(k)) <= SessionSeqMax
         /\ \A i, j \in 1..Len(Counted(k)) : Counted(k)[i][1] = Counted(k)[j][1] => i = j
         /\ \E i \in 1..Len(Counted(k)) : Counted(k)[i] = <<k, NextSeq(k) + 1>>
         /\ \A i \in 1..Len(Counted(k)) :
              \/ Counted(k)[i] = <<k, NextSeq(k) + 1>>
              \/ Counted(k)[i][1] # k /\ \E j \in Counters : Counted(k)[i] = sessionSeq[j]
<1> DEFINE S == SessionKeys \X (0..MaxSeq)
           kept == IF Known(k) THEN RemoveAt(sessionSeq, Slot(k)) ELSE sessionSeq
           new == <<k, NextSeq(k) + 1>>
           t == Append(kept, new)
<1>0. sessionSeq \in Seq(S) /\ Len(sessionSeq) \in Nat /\ Len(sessionSeq) <= SessionSeqMax
  BY DEF TypeOK
<1>1. new \in S /\ new[1] = k
  BY NextSeqType
<1>2. \A i, j \in Counters : sessionSeq[i][1] = sessionSeq[j][1] => i = j
  BY DEF CountersSound
<1>3. /\ kept \in Seq(S) /\ Len(kept) \in Nat /\ Len(kept) <= SessionSeqMax
      /\ \A i, j \in 1..Len(kept) : kept[i][1] = kept[j][1] => i = j
      /\ \A i \in 1..Len(kept) : kept[i][1] # k /\ \E j \in Counters : kept[i] = sessionSeq[j]
  <2>1. CASE Known(k)
    <3> DEFINE s == Slot(k)
    <3>1. s \in 1..Len(sessionSeq) /\ sessionSeq[s][1] = k
      BY <2>1 DEF Known, Slot, Counters
    <3> HIDE DEF s
    <3>2. /\ RemoveAt(sessionSeq, s) \in Seq(S)
          /\ Len(RemoveAt(sessionSeq, s)) = Len(sessionSeq) - 1
          /\ \A i \in 1..(Len(sessionSeq) - 1) :
               RemoveAt(sessionSeq, s)[i] = IF i < s THEN sessionSeq[i] ELSE sessionSeq[i + 1]
      BY <1>0, <3>1, RemoveAtFacts
    <3>3. kept = RemoveAt(sessionSeq, s)
      BY <2>1 DEF s
    <3> HIDE DEF kept
    <3>4. Len(kept) \in Nat /\ Len(kept) = Len(sessionSeq) - 1
      BY <1>0, <3>1, <3>2, <3>3
    <3>5. ASSUME NEW i \in 1..Len(kept)
          PROVE  \E a \in Counters : kept[i] = sessionSeq[a] /\ a # s /\ a = IF i < s THEN i ELSE i + 1
      <4> DEFINE a == IF i < s THEN i ELSE i + 1
      <4>1. i \in 1..(Len(sessionSeq) - 1) /\ s \in Nat
        BY <3>1, <3>4
      <4>2. a \in 1..Len(sessionSeq) /\ a # s
        BY <1>0, <3>1, <4>1
      <4>3. kept[i] = sessionSeq[a]
        BY <3>2, <3>3, <4>1
      <4>4. a \in Counters
        BY <4>2 DEF Counters
      <4> QED  BY <4>2, <4>3, <4>4
    <3>6. ASSUME NEW i \in 1..Len(kept), NEW j \in 1..Len(kept), kept[i][1] = kept[j][1]
          PROVE  i = j
      <4>1. PICK a \in Counters : kept[i] = sessionSeq[a] /\ a = IF i < s THEN i ELSE i + 1
        BY <3>5
      <4>2. PICK b \in Counters : kept[j] = sessionSeq[b] /\ b = IF j < s THEN j ELSE j + 1
        BY <3>5
      <4>3. a = b
        BY <1>2, <3>6, <4>1, <4>2
      <4>4. i \in Nat /\ j \in Nat /\ s \in Nat
        BY <3>1, <3>4
      <4> QED  BY <4>1, <4>2, <4>3, <4>4
    <3>7. \A i \in 1..Len(kept) : kept[i][1] # k
      <4> SUFFICES ASSUME NEW i \in 1..Len(kept)
                   PROVE  kept[i][1] # k
        OBVIOUS
      <4>1. PICK a \in Counters : kept[i] = sessionSeq[a] /\ a # s
        BY <3>5
      <4> QED  BY <1>2, <3>1, <4>1 DEF Counters
    <3> QED  BY <1>0, <3>2, <3>3, <3>4, <3>5, <3>6, <3>7
  <2>2. CASE ~Known(k)
    BY <1>0, <1>2, <2>2 DEF Known, Counters
  <2> QED  BY <2>1, <2>2
<1> HIDE DEF kept
<1>4. /\ t \in Seq(S) /\ Len(t) = Len(kept) + 1
      /\ \A i \in 1..(Len(kept) + 1) : t[i] = IF i = Len(kept) + 1 THEN new ELSE kept[i]
  BY <1>1, <1>3, AppendFacts
<1>5. Counted(k) = IF Len(t) > SessionSeqMax THEN Tail(t) ELSE t
  BY DEF Counted, kept
<1>9. new = <<k, NextSeq(k) + 1>>
  OBVIOUS
<1> HIDE DEF t, new
<1>6. /\ \A i, j \in 1..Len(t) : t[i][1] = t[j][1] => i = j
      /\ \A i \in 1..Len(t) : \/ t[i] = new
                              \/ t[i][1] # k /\ \E j \in Counters : t[i] = sessionSeq[j]
      /\ t[Len(t)] = new /\ Len(t) \in Nat /\ Len(t) >= 1
  <2>1. t[Len(t)] = new /\ Len(t) \in Nat /\ Len(t) >= 1
    BY <1>3, <1>4
  <2>2. \A i \in 1..Len(t) : (i = Len(t) /\ t[i] = new) \/ (i \in 1..Len(kept) /\ t[i] = kept[i])
    BY <1>3, <1>4
  <2>3. \A i \in 1..Len(t) : \/ t[i] = new
                             \/ t[i][1] # k /\ \E j \in Counters : t[i] = sessionSeq[j]
    BY <1>3, <2>2
  <2>4. \A i, j \in 1..Len(t) : t[i][1] = t[j][1] => i = j
    <3> SUFFICES ASSUME NEW i \in 1..Len(t), NEW j \in 1..Len(t), t[i][1] = t[j][1]
                 PROVE  i = j
      OBVIOUS
    <3> QED  BY <1>1, <1>3, <2>2
  <2> QED  BY <2>1, <2>3, <2>4, Zenon
<1>7. CASE Len(t) > SessionSeqMax
  <2>1. Len(t) = SessionSeqMax + 1 /\ Len(t) >= 2 /\ t # <<>>
    BY <1>3, <1>4, <1>7
  <2>2. /\ Tail(t) \in Seq(S) /\ Len(Tail(t)) = SessionSeqMax
        /\ \A i \in 1..SessionSeqMax : Tail(t)[i] = t[i + 1]
    BY <1>4, <2>1, TailFacts
  <2>3. \A i \in 1..SessionSeqMax : i + 1 \in 1..Len(t)
    BY <2>1
  <2>4. Tail(t)[SessionSeqMax] = new /\ SessionSeqMax \in 1..SessionSeqMax
    BY <1>6, <2>1, <2>2
  <2>5. \A i, j \in 1..SessionSeqMax : Tail(t)[i][1] = Tail(t)[j][1] => i = j
    BY <1>6, <2>2, <2>3
  <2>6. \A i \in 1..SessionSeqMax :
          \/ Tail(t)[i] = new
          \/ Tail(t)[i][1] # k /\ \E j \in Counters : Tail(t)[i] = sessionSeq[j]
    BY <1>6, <2>2, <2>3
  <2>7. Counted(k) = Tail(t)
    BY <1>5, <1>7
  <2>8. Len(Counted(k)) = SessionSeqMax /\ Len(Counted(k)) <= SessionSeqMax
    BY <2>2, <2>7
  <2>9. Counted(k) \in Seq(SessionKeys \X (0..MaxSeq))
    BY <2>2, <2>7
  <2>10. PICK u : u = Tail(t)
    OBVIOUS
  <2>11. \E i \in 1..SessionSeqMax : u[i] = new
    BY <2>4, <2>10
  <2>12. /\ \A i, j \in 1..SessionSeqMax : u[i][1] = u[j][1] => i = j
         /\ \A i \in 1..SessionSeqMax :
              \/ u[i] = new
              \/ u[i][1] # k /\ \E j \in Counters : u[i] = sessionSeq[j]
    BY <2>5, <2>6, <2>10, Zenon
  <2>13. Counted(k) = u
    BY <2>7, <2>10
  <2> QED  BY <1>9, <2>8, <2>9, <2>11, <2>12, <2>13, Zenon
<1>8. CASE ~(Len(t) > SessionSeqMax)
  <2>1. Counted(k) = t
    BY <1>5, <1>8
  <2>2. Len(t) <= SessionSeqMax /\ Len(t) \in 1..Len(t)
    BY <1>6, <1>8
  <2> QED  BY <1>4, <1>6, <1>9, <2>1, <2>2
<1> QED  BY <1>7, <1>8

\* A counter of the table after a step, likewise.
LEMMA NextSeqIsAfter ==
  ASSUME CountersSound', NEW k, NEW i \in Counters', sessionSeq'[i][1] = k
  PROVE  NextSeq(k)' = sessionSeq'[i][2]
<1>1. Known(k)'
  BY DEF Known
<1>2. Slot(k)' \in Counters' /\ sessionSeq'[Slot(k)'][1] = k
  BY DEF Slot
<1>3. Slot(k)' = i
  BY <1>2 DEF CountersSound
<1> QED  BY <1>1, <1>3 DEF NextSeq

\* No counter goes back.
Forward == \A k \in Streams : CounterOf(k) <= CounterOf(k)' /\ CounterOf(k)' \in Nat

\* The counter of a stream is a number.
LEMMA CounterType ==
  ASSUME TypeOK, CountersSound, NEW k
  PROVE  CounterOf(k) \in 0..MaxSeq
BY NextSeqType DEF CounterOf, TypeOK

\* A step that leaves the counters alone.
LEMMA CountersKept ==
  ASSUME TypeOK, CountersSound, UNCHANGED seqVars
  PROVE  /\ CountersSound' /\ Forward
         /\ \A k : CounterOf(k)' = CounterOf(k)
<1>1. CountersSound'
  BY DEF CountersSound, Counters, seqVars
<1>2. \A k : CounterOf(k)' = CounterOf(k)
  BY DEF CounterOf, NextSeq, Known, Slot, Counters, seqVars
<1>3. Forward
  BY <1>2, CounterType DEF Forward
<1> QED  BY <1>1, <1>2, <1>3

\* Numbering an event: its stream moves by one, no other goes back.
LEMMA NumberFacts ==
  ASSUME TypeOK, CountersSound, NEW e \in Kinds, Number(e)
  PROVE  /\ sessionSeq' \in Seq(SessionKeys \X (0..MaxSeq)) /\ Len(sessionSeq') <= SessionSeqMax
         /\ base' \in 0..MaxSeq /\ globalSeq' \in 0..MaxSeq
         /\ CountersSound' /\ Forward
         /\ StampOf(e) = CounterOf(Stream(e)) /\ StampOf(e) \in 0..MaxSeq
         /\ CounterOf(Stream(e))' = StampOf(e) + 1
<1>0. /\ sessionSeq \in Seq(SessionKeys \X (0..MaxSeq)) /\ Len(sessionSeq) <= SessionSeqMax
      /\ base \in 0..MaxSeq /\ globalSeq \in 0..MaxSeq
  BY DEF TypeOK
<1>1. StampOf(e) = CounterOf(Stream(e)) /\ StampOf(e) \in 0..MaxSeq
  <2>1. StampOf(e) = CounterOf(Stream(e))
    BY StreamFacts DEF StampOf, CounterOf
  <2> QED  BY <2>1, CounterType
<1>2. CASE e.session = None
  <2>1. /\ globalSeq < MaxSeq /\ globalSeq' = globalSeq + 1
        /\ sessionSeq' = sessionSeq /\ base' = base
    BY <1>2 DEF Number
  <2>2. CountersSound'
    BY <2>1 DEF CountersSound, Counters
  <2>3. \A k : NextSeq(k)' = NextSeq(k)
    BY <2>1 DEF NextSeq, Known, Slot, Counters
  <2>4. CounterOf(None) = globalSeq /\ CounterOf(None)' = globalSeq + 1
    BY <2>1 DEF CounterOf
  <2>5. \A k \in SessionKeys : CounterOf(k)' = CounterOf(k)
    BY <2>3 DEF CounterOf
  <2>6. Forward
    <3> SUFFICES ASSUME NEW k \in Streams
                 PROVE  CounterOf(k) <= CounterOf(k)' /\ CounterOf(k)' \in Nat
      BY DEF Forward
    <3>1. CounterOf(k) \in 0..MaxSeq
      BY CounterType
    <3> QED  BY <1>0, <2>4, <2>5, <3>1 DEF Streams
  <2>7. Stream(e) = None
    BY <1>2, StreamFacts
  <2> QED  BY <1>0, <1>1, <2>1, <2>2, <2>4, <2>6, <2>7
<1>3. CASE e.session # None
  <2> DEFINE k == Stream(e)
             m == NextSeq(k)
  <2>0. k \in SessionKeys /\ k # None
    BY <1>3, StreamFacts
  <2>1. /\ m < MaxSeq /\ sessionSeq' = Counted(k) /\ globalSeq' = globalSeq
        /\ base' = Max({base, m + 1})
    BY <1>3 DEF Number
  <2>2. m \in 0..MaxSeq /\ m <= base
    BY NextSeqType
  <2> HIDE DEF k, m
  <2>3. base' \in {base, m + 1} /\ base' >= base /\ base' >= m + 1
    <3>1. base \in Nat /\ m + 1 \in Nat
      BY <1>0, <2>2
    <3> QED  BY <2>1, <3>1, MaxOfTwo
  <2>4. base' \in 0..MaxSeq
    BY <1>0, <2>1, <2>2, <2>3
  <2>5. /\ sessionSeq' \in Seq(SessionKeys \X (0..MaxSeq)) /\ Len(sessionSeq') <= SessionSeqMax
        /\ \A i, j \in 1..Len(sessionSeq') : sessionSeq'[i][1] = sessionSeq'[j][1] => i = j
        /\ \E i \in 1..Len(sessionSeq') : sessionSeq'[i] = <<k, m + 1>>
        /\ \A i \in 1..Len(sessionSeq') :
             \/ sessionSeq'[i] = <<k, m + 1>>
             \/ sessionSeq'[i][1] # k /\ \E j \in Counters : sessionSeq'[i] = sessionSeq[j]
    <3>1. NextSeq(k) < MaxSeq
      BY <2>1 DEF m
    <3>2. /\ Counted(k) \in Seq(SessionKeys \X (0..MaxSeq)) /\ Len(Counted(k)) <= SessionSeqMax
          /\ \A i, j \in 1..Len(Counted(k)) : Counted(k)[i][1] = Counted(k)[j][1] => i = j
          /\ \E i \in 1..Len(Counted(k)) : Counted(k)[i] = <<k, NextSeq(k) + 1>>
          /\ \A i \in 1..Len(Counted(k)) :
               \/ Counted(k)[i] = <<k, NextSeq(k) + 1>>
               \/ Counted(k)[i][1] # k /\ \E j \in Counters : Counted(k)[i] = sessionSeq[j]
      BY <2>0, <3>1, CountedFacts, Zenon
    <3>3. sessionSeq' = Counted(k) /\ m = NextSeq(k)
      BY <2>1 DEF m
    <3> QED  BY <3>2, <3>3, Zenon
  <2>6. \A i \in Counters : sessionSeq[i][2] <= base /\ sessionSeq[i][2] \in 0..MaxSeq
    BY <1>0 DEF CountersSound, Counters
  <2>7. CountersSound'
    <3>1. \A i \in Counters' : sessionSeq'[i][2] <= base'
      <4> SUFFICES ASSUME NEW i \in 1..Len(sessionSeq')
                   PROVE  sessionSeq'[i][2] <= base'
        BY DEF Counters
      <4>1. CASE sessionSeq'[i] = <<k, m + 1>>
        BY <2>3, <4>1
      <4>2. CASE \E j \in Counters : sessionSeq'[i] = sessionSeq[j]
        BY <1>0, <2>3, <2>4, <2>6, <4>2
      <4> QED  BY <2>5, <4>1, <4>2
    <3> QED  BY <2>5, <3>1 DEF CountersSound, Counters
  <2>8. NextSeq(k)' = m + 1
    <3>1. PICK i \in 1..Len(sessionSeq') : sessionSeq'[i] = <<k, m + 1>>
      BY <2>5
    <3>2. i \in Counters'
      BY DEF Counters
    <3>3. sessionSeq'[i][1] = k /\ sessionSeq'[i][2] = m + 1
      BY <3>1
    <3>4. PICK y : y = k
      OBVIOUS
    <3>5. NextSeq(y)' = sessionSeq'[i][2]
      BY <2>7, <3>2, <3>3, <3>4, NextSeqIsAfter
    <3> QED  BY <3>3, <3>4, <3>5
  <2>9. ASSUME NEW x \in SessionKeys
        PROVE  NextSeq(x) <= NextSeq(x)' /\ NextSeq(x)' \in Nat
    <3>0. NextSeq(x) \in 0..MaxSeq /\ NextSeq(x) <= base
      BY NextSeqType
    <3>1. CASE ~Known(x)'
      <4>1. NextSeq(x)' = base'
        BY <3>1 DEF NextSeq
      <4> QED  BY <1>0, <2>3, <2>4, <3>0, <4>1
    <3>2. CASE Known(x)'
      <4>1. PICK i \in Counters' : sessionSeq'[i][1] = x
        BY <3>2 DEF Known
      <4>3. NextSeq(x)' = sessionSeq'[i][2]
        BY <2>7, <4>1, NextSeqIsAfter
      <4>4. i \in 1..Len(sessionSeq')
        BY DEF Counters
      <4>5. CASE sessionSeq'[i] = <<k, m + 1>>
        <5>1. x = k
          BY <4>1, <4>5
        <5> QED  BY <2>2, <4>3, <4>5, <5>1 DEF m
      <4>6. CASE \E j \in Counters : sessionSeq'[i] = sessionSeq[j]
        <5>1. PICK j \in Counters : sessionSeq'[i] = sessionSeq[j]
          BY <4>6
        <5>2. NextSeq(sessionSeq[j][1]) = sessionSeq[j][2]
          BY NextSeqIs
        <5>3. NextSeq(x) = sessionSeq[j][2]
          BY <4>1, <5>1, <5>2
        <5> QED  BY <3>0, <4>3, <5>1, <5>3
      <4> QED  BY <2>5, <4>4, <4>5, <4>6
    <3> QED  BY <3>1, <3>2
  <2>10. Forward
    <3> SUFFICES ASSUME NEW x \in Streams
                 PROVE  CounterOf(x) <= CounterOf(x)' /\ CounterOf(x)' \in Nat
      BY DEF Forward
    <3>1. CASE x = None
      BY <1>0, <2>1, <3>1 DEF CounterOf
    <3>2. CASE x # None
      BY <2>9, <3>2 DEF CounterOf, Streams
    <3> QED  BY <3>1, <3>2
  <2>11. CounterOf(k)' = m + 1 /\ StampOf(e) = m
    BY <1>3, <2>0, <2>8 DEF CounterOf, StampOf, k, m
  <2> QED  BY <1>0, <1>1, <2>1, <2>4, <2>5, <2>7, <2>10, <2>11 DEF k
<1> QED  BY <1>2, <1>3

-----------------------------------------------------------------------------
(* The queue of one subscriber: the moves it can make. *)

\* What an event is made of.
LEMMA EventFacts ==
  ASSUME NEW x \in Event
  PROVE  x[1] \in Kinds /\ x[2] \in 0..MaxSeq /\ x # None /\ Stream(x[1]) \in Streams
<1>1. x[1] \in Kinds /\ x[2] \in 0..MaxSeq
  BY DEF Event
<1>2. x # None
  BY <1>1 DEF Event
<1> QED  BY <1>1, <1>2, StreamFacts

\* What was ahead stays ahead while the counters move forward.
LEMMA StaysAhead ==
  ASSUME TypeOK, CountersSound, Forward, NEW n \in Names,
         seen'[n] = seen[n], NEW x \in Event, Ahead(n, x)
  PROVE  Ahead(n, x)'
<1>1. Stream(x[1]) \in Streams /\ x[2] \in 0..MaxSeq
  BY EventFacts
<1>2. PICK k \in Streams : k = Stream(x[1])
  BY <1>1
<1>3. CounterOf(k) \in Nat /\ CounterOf(k)' \in Nat /\ CounterOf(k) <= CounterOf(k)'
  BY CounterType DEF Forward
<1> QED  BY <1>1, <1>2, <1>3 DEF Ahead

\* The queue of n is left alone, and the hand too, or it is emptied.
LEMMA OrderKept ==
  ASSUME TypeOK, CountersSound, Forward, NEW n \in Names, OrderOf(n),
         seen'[n] = seen[n], buf'[n] = buf[n], hand'[n] \in {hand[n], None}
  PROVE  OrderOf(n)'
<1>0. buf[n] \in Seq(Event) /\ hand[n] \in Event \cup {None}
  BY DEF TypeOK
<1>1. ASSUME NEW i \in 1..Len(buf[n])
      PROVE  Ahead(n, buf[n][i]) /\ buf[n][i] \in Event
  BY <1>0 DEF OrderOf
<1>2. PICK q : q = buf[n]
  OBVIOUS
<1>3. \A i \in 1..Len(q) : Ahead(n, q[i])'
  <2> SUFFICES ASSUME NEW i \in 1..Len(q)
               PROVE  Ahead(n, q[i])'
    OBVIOUS
  <2> QED  BY <1>1, <1>2, StaysAhead
<1>4. ASSUME hand'[n] # None
      PROVE  Ahead(n, hand[n])' /\ hand'[n] = hand[n]
  <2>1. PICK h \in Event : h = hand[n] /\ h = hand'[n] /\ Ahead(n, h)
    BY <1>0, <1>4 DEF OrderOf
  <2>2. Ahead(n, h)'
    BY <2>1, StaysAhead
  <2> QED  BY <2>1, <2>2 DEF Ahead
<1> QED  BY <1>2, <1>3, <1>4 DEF OrderOf, Before, Ahead

\* The queue of n and the hand are emptied.
LEMMA OrderEmpty ==
  ASSUME NEW n \in Names, buf'[n] = <<>>, hand'[n] = None
  PROVE  OrderOf(n)'
BY DEF OrderOf

\* An event that got the next number of its stream is pushed.
LEMMA OrderPush ==
  ASSUME TypeOK, CountersSound, SeenBehind, Forward, NEW n \in Names, OrderOf(n),
         NEW x \in Event, x[2] = CounterOf(Stream(x[1])), CounterOf(Stream(x[1]))' = x[2] + 1,
         seen'[n] = seen[n], buf'[n] = Push(buf[n], x), hand'[n] = hand[n]
  PROVE  OrderOf(n)'
<1>0. /\ buf[n] \in Seq(Event) /\ Len(buf[n]) <= EventQueue /\ Len(buf[n]) \in Nat
      /\ hand[n] \in Event \cup {None} /\ seen[n] \in [Streams -> Nat]
  BY DEF TypeOK
<1>1. PICK q \in Seq(Event) : q = buf[n]
  BY <1>0
<1>11. Len(q) <= EventQueue
  BY <1>0, <1>1
<1>12. Push(q, x) \in Seq(Event)
  BY <1>11, PushFacts
<1>2. PICK r \in Seq(Event) : r = Push(q, x) /\ r = buf'[n]
  BY <1>1, <1>12
<1>3. PICK o \in {0, 1} :
        /\ Len(r) = Len(q) + 1 - o
        /\ \A i \in 1..Len(r) : r[i] = IF i + o = Len(q) + 1 THEN x ELSE q[i + o]
  <2>1. Pushed(q, x, Push(q, x))
    BY <1>11, PushFacts
  <2> QED  BY <1>2, <2>1, Zenon DEF Pushed
<1>4. /\ \A i \in 1..Len(q) : q[i] \in Event /\ Ahead(n, q[i])
      /\ \A i, j \in 1..Len(q) : i < j => Before(q[i], q[j])
  BY <1>1 DEF OrderOf
<1>5. ASSUME NEW y \in Event, Ahead(n, y)
      PROVE  Before(y, x) /\ Ahead(n, y)'
  <2>1. Ahead(n, y)'
    BY <1>5, StaysAhead
  <2>2. Before(y, x)
    BY <1>5 DEF Before, Ahead
  <2> QED  BY <2>1, <2>2
<1>6. Ahead(n, x)'
  <2>1. Stream(x[1]) \in Streams /\ x[2] \in Nat
    BY EventFacts
  <2>2. PICK k \in Streams : k = Stream(x[1])
    BY <2>1
  <2>3. seen[n][k] <= CounterOf(k)
    BY <2>2 DEF SeenBehind
  <2>4. x[2] >= seen'[n][k] /\ x[2] < CounterOf(k)'
    BY <1>0, <2>1, <2>2, <2>3
  <2> QED  BY <2>2, <2>4 DEF Ahead
<1>7. ASSUME NEW i \in 1..Len(r)
      PROVE  \/ i + o = Len(q) + 1 /\ i = Len(r) /\ r[i] = x
             \/ i + o \in 1..Len(q) /\ r[i] = q[i + o] /\ i < Len(r)
  <2>1. Len(q) \in Nat /\ Len(r) \in Nat /\ o \in Nat /\ i \in Nat
    BY <1>0, <1>1
  <2> QED  BY <1>3, <2>1
<1>8. \A i \in 1..Len(r) : r[i] \in Event /\ Ahead(n, r[i])'
  <2> SUFFICES ASSUME NEW i \in 1..Len(r)
               PROVE  r[i] \in Event /\ Ahead(n, r[i])'
    OBVIOUS
  <2>1. CASE r[i] = x
    BY <1>6, <2>1
  <2>2. CASE i + o \in 1..Len(q) /\ r[i] = q[i + o]
    BY <1>4, <1>5, <2>2
  <2> QED  BY <1>7, <2>1, <2>2
<1>9. \A i, j \in 1..Len(r) : i < j => Before(r[i], r[j])
  <2> SUFFICES ASSUME NEW i \in 1..Len(r), NEW j \in 1..Len(r), i < j
               PROVE  Before(r[i], r[j])
    OBVIOUS
  <2>1. i + o \in 1..Len(q) /\ r[i] = q[i + o]
    BY <1>7
  <2>2. CASE r[j] = x
    BY <1>4, <1>5, <2>1, <2>2
  <2>3. CASE j + o \in 1..Len(q) /\ r[j] = q[j + o]
    BY <1>4, <2>1, <2>3
  <2> QED  BY <1>7, <2>2, <2>3
<1>10. ASSUME hand[n] # None
       PROVE  \E h \in Event : /\ h = hand[n] /\ Ahead(n, h)'
                               /\ \A i \in 1..Len(r) : Before(h, r[i])
  <2>1. PICK h \in Event : h = hand[n] /\ Ahead(n, h) /\ \A i \in 1..Len(q) : Before(h, q[i])
    BY <1>0, <1>1, <1>10 DEF OrderOf
  <2>2. Before(h, x) /\ Ahead(n, h)'
    BY <1>5, <2>1
  <2>3. \A i \in 1..Len(r) : Before(h, r[i])
    BY <1>7, <2>1, <2>2
  <2> QED  BY <2>1, <2>2, <2>3
<1> QED  BY <1>2, <1>8, <1>9, <1>10 DEF OrderOf, Ahead, Before

\* A sender with an empty hand pops the next event, or waits.
LEMMA OrderPop ==
  ASSUME TypeOK, CountersSound, Forward, NEW n \in Names, OrderOf(n), PopOrWait(n),
         hand[n] = None, seen' = seen
  PROVE  OrderOf(n)'
<1>0. buf[n] \in Seq(Event) /\ hand \in [Names -> Event \cup {None}] /\ buf \in [Names -> Seq(Event)]
  BY DEF TypeOK
<1>1. CASE buf[n] = <<>>
  BY <1>0, <1>1, OrderEmpty DEF PopOrWait
<1>2. CASE buf[n] # <<>>
  <2>1. PICK q \in Seq(Event) : q = buf[n] /\ q # <<>>
    BY <1>0, <1>2
  <2>2. /\ Tail(q) \in Seq(Event) /\ Len(Tail(q)) = Len(q) - 1 /\ Len(q) >= 1
        /\ Head(q) = q[1] /\ q[1] \in Event
        /\ \A i \in 1..(Len(q) - 1) : Tail(q)[i] = q[i + 1]
    BY <2>1, TailFacts
  <2>3. hand'[n] = q[1] /\ buf'[n] = Tail(q)
    BY <1>0, <1>2, <2>1, <2>2 DEF PopOrWait
  <2>4. /\ \A i \in 1..Len(q) : q[i] \in Event /\ Ahead(n, q[i])
        /\ \A i, j \in 1..Len(q) : i < j => Before(q[i], q[j])
    BY <2>1 DEF OrderOf
  <2>5. \A i \in 1..Len(q) : Ahead(n, q[i])'
    BY <2>4, StaysAhead
  <2>6. PICK r \in Seq(Event) : r = Tail(q)
    BY <2>2
  <2>7. Len(q) \in Nat /\ Len(r) = Len(q) - 1 /\ \A i \in 1..Len(r) : r[i] = q[i + 1] /\ i + 1 \in 1..Len(q)
    BY <2>2, <2>6
  <2>8. /\ \A i \in 1..Len(r) : Ahead(n, r[i])' /\ Before(q[1], r[i])
        /\ \A i, j \in 1..Len(r) : i < j => Before(r[i], r[j])
    <3>1. ASSUME NEW i \in 1..Len(r)
          PROVE  Ahead(n, r[i])' /\ Before(q[1], r[i])
      <4>1. 1 \in 1..Len(q) /\ i + 1 \in 1..Len(q) /\ 1 < i + 1 /\ r[i] = q[i + 1]
        BY <2>2, <2>7
      <4>2. Ahead(n, q[i + 1])' /\ Before(q[1], q[i + 1])
        BY <2>4, <2>5, <4>1
      <4> QED  BY <4>1, <4>2
    <3>2. ASSUME NEW i \in 1..Len(r), NEW j \in 1..Len(r), i < j
          PROVE  Before(r[i], r[j])
      <4>1. i + 1 \in 1..Len(q) /\ j + 1 \in 1..Len(q) /\ i + 1 < j + 1
        BY <2>7, <3>2
      <4>2. Before(q[i + 1], q[j + 1])
        BY <2>4, <4>1
      <4> QED  BY <2>7, <4>2
    <3> QED  BY <3>1, <3>2
  <2>9. Ahead(n, q[1])'
    BY <2>2, <2>5, <2>7
  <2> QED  BY <2>3, <2>6, <2>8, <2>9 DEF OrderOf, Ahead, Before
<1> QED  BY <1>1, <1>2

\* A sender has sent what was in its hand and goes on with the queue.
LEMMA OrderSent ==
  ASSUME TypeOK, CountersSound, NEW n \in Names, OrderOf(n), PopOrWait(n),
         hand[n] # None, seen' = Received(n), UNCHANGED seqVars
  PROVE  OrderOf(n)'
<1>0. /\ buf[n] \in Seq(Event) /\ hand \in [Names -> Event \cup {None}]
      /\ buf \in [Names -> Seq(Event)] /\ seen \in [Names -> [Streams -> Nat]]
  BY DEF TypeOK
<1>1. PICK h \in Event : h = hand[n] /\ \A i \in 1..Len(buf[n]) : Before(h, buf[n][i])
  BY <1>0 DEF OrderOf
<1>2. Stream(h[1]) \in Streams /\ h[2] \in Nat
  BY EventFacts
<1>3. seen'[n] = [seen[n] EXCEPT ![Stream(h[1])] = h[2] + 1]
  BY <1>0, <1>1 DEF Received
<1>4. \A k : CounterOf(k)' = CounterOf(k)
  BY CountersKept
<1>5. ASSUME NEW y \in Event, Ahead(n, y), Before(h, y)
      PROVE  Ahead(n, y)'
  <2>1. Stream(y[1]) \in Streams /\ y[2] \in Nat
    BY EventFacts
  <2>2. PICK k \in Streams : k = Stream(y[1])
    BY <2>1
  <2>3. y[2] < CounterOf(k)' /\ y[2] >= seen[n][k]
    BY <1>4, <1>5, <2>2 DEF Ahead
  <2>4. y[2] >= seen'[n][k]
    <3>1. CASE k = Stream(h[1])
      BY <1>0, <1>2, <1>3, <1>5, <2>1, <2>2, <3>1 DEF Before
    <3>2. CASE k # Stream(h[1])
      BY <1>0, <1>2, <1>3, <2>3, <3>2
    <3> QED  BY <3>1, <3>2
  <2> QED  BY <2>2, <2>3, <2>4 DEF Ahead
<1>6. CASE buf[n] = <<>>
  BY <1>0, <1>6, OrderEmpty DEF PopOrWait
<1>7. CASE buf[n] # <<>>
  <2>1. PICK q \in Seq(Event) : q = buf[n] /\ q # <<>>
    BY <1>0, <1>7
  <2>2. /\ Tail(q) \in Seq(Event) /\ Len(Tail(q)) = Len(q) - 1 /\ Len(q) >= 1
        /\ Head(q) = q[1] /\ q[1] \in Event
        /\ \A i \in 1..(Len(q) - 1) : Tail(q)[i] = q[i + 1]
    BY <2>1, TailFacts
  <2>3. hand'[n] = q[1] /\ buf'[n] = Tail(q)
    BY <1>0, <1>7, <2>1, <2>2 DEF PopOrWait
  <2>4. /\ \A i \in 1..Len(q) : q[i] \in Event /\ Ahead(n, q[i]) /\ Before(h, q[i])
        /\ \A i, j \in 1..Len(q) : i < j => Before(q[i], q[j])
    BY <1>1, <2>1 DEF OrderOf
  <2>5. \A i \in 1..Len(q) : Ahead(n, q[i])'
    BY <1>5, <2>4
  <2>6. PICK r \in Seq(Event) : r = Tail(q)
    BY <2>2
  <2>7. Len(q) \in Nat /\ Len(r) = Len(q) - 1 /\ \A i \in 1..Len(r) : r[i] = q[i + 1] /\ i + 1 \in 1..Len(q)
    BY <2>2, <2>6
  <2>8. ASSUME NEW i \in 1..Len(r)
        PROVE  Ahead(n, r[i])' /\ Before(q[1], r[i])
    <3>1. 1 \in 1..Len(q) /\ i + 1 \in 1..Len(q) /\ 1 < i + 1 /\ r[i] = q[i + 1]
      BY <2>2, <2>7
    <3>2. Ahead(n, q[i + 1])' /\ Before(q[1], q[i + 1])
      BY <2>4, <2>5, <3>1
    <3> QED  BY <3>1, <3>2
  <2>9. ASSUME NEW i \in 1..Len(r), NEW j \in 1..Len(r), i < j
        PROVE  Before(r[i], r[j])
    <3>1. i + 1 \in 1..Len(q) /\ j + 1 \in 1..Len(q) /\ i + 1 < j + 1
      BY <2>7, <2>9
    <3>2. Before(q[i + 1], q[j + 1])
      BY <2>4, <3>1
    <3> QED  BY <2>7, <3>2
  <2>10. Ahead(n, q[1])'
    BY <2>2, <2>5, <2>7
  <2> QED  BY <2>3, <2>6, <2>8, <2>9, <2>10 DEF OrderOf, Ahead, Before
<1> QED  BY <1>6, <1>7

-----------------------------------------------------------------------------
(* The invariant at the start and through every step. *)

\* The initial state satisfies the invariant.
LEMMA InitInv == Init => IndInv
<1> SUFFICES ASSUME Init PROVE IndInv
  OBVIOUS
<1>1. TypeOK
  BY DEF Init, TypeOK
<1>2. IndexOfList /\ SendersKnown /\ NoLostWakeup
  BY DEF Init, IndexOfList, SendersKnown, NoLostWakeup
<1>3. CountersSound
  BY DEF Init, CountersSound, Counters
<1>4. SeenBehind
  <2> SUFFICES ASSUME NEW n \in Names, NEW k \in Streams
               PROVE  seen[n][k] <= CounterOf(k)
    BY DEF SeenBehind
  <2>1. seen[n][k] = 0
    BY DEF Init
  <2> QED  BY <1>1, <1>3, <2>1, CounterType
<1>5. HandThenQueue
  BY DEF Init, HandThenQueue, OrderOf
<1> QED  BY <1>1, <1>2, <1>3, <1>4, <1>5 DEF IndInv

\* The list of a subscriber, also of one that has none.
LEMMA ListType ==
  ASSUME TypeOK, NEW n \in Names
  PROVE  ListOf(n) \in Seq(Patterns)
BY DEF TypeOK, ListOf

\* New patterns are filed as they are listed.
LEMMA SetPatternsFacts ==
  ASSUME TypeOK, IndexOfList, NEW n \in Names, NEW list \in Seq(Patterns), SetPatterns(n, list)
  PROVE  /\ subs' \in [Names -> {None} \cup Seq(Patterns)]
         /\ index' \in [Names -> {None} \cup Index]
         /\ IndexOfList'
<1>0. subs \in [Names -> {None} \cup Seq(Patterns)] /\ index \in [Names -> {None} \cup Index]
  BY DEF TypeOK
<1>1. Reindex(list) \in Index
  BY ReindexType
<1>2. PICK x \in Index : x = Reindex(list)
  BY <1>1
<1>3. subs' = [subs EXCEPT ![n] = list] /\ index' = [index EXCEPT ![n] = x]
  BY <1>2 DEF SetPatterns
<1>4. IndexOfList'
  <2> SUFFICES ASSUME NEW m \in Names
               PROVE  /\ subs'[m] = None => index'[m] = None
                      /\ subs'[m] # None => index'[m] = Reindex(subs'[m])
    BY DEF IndexOfList
  <2>1. CASE m = n
    <3>1. subs'[m] = list /\ index'[m] = x /\ list # None
      BY <1>0, <1>3, <2>1
    <3> QED  BY <1>2, <3>1
  <2>2. CASE m # n
    <3>1. subs'[m] = subs[m] /\ index'[m] = index[m]
      BY <1>0, <1>3, <2>2
    <3> QED  BY <3>1 DEF IndexOfList
  <2> QED  BY <2>1, <2>2
<1> QED  BY <1>0, <1>3, <1>4

\* What was seen stays behind counters that move forward.
LEMMA SeenKept ==
  ASSUME TypeOK, CountersSound, SeenBehind, Forward, seen' = seen
  PROVE  SeenBehind'
<1> SUFFICES ASSUME NEW m \in Names, NEW k \in Streams
             PROVE  seen[m][k] <= CounterOf(k)'
  BY DEF SeenBehind
<1>1. seen[m][k] \in Nat /\ seen[m][k] <= CounterOf(k)
  BY DEF TypeOK, SeenBehind
<1> QED  BY <1>1, CounterType DEF Forward

\* A step that concerns the queue of n alone.
LEMMA OthersKept ==
  ASSUME TypeOK, CountersSound, HandThenQueue, Forward, NEW n \in Names, OrderOf(n)',
         \A m \in Names \ {n} : buf'[m] = buf[m] /\ hand'[m] = hand[m] /\ seen'[m] = seen[m]
  PROVE  HandThenQueue'
<1> SUFFICES ASSUME NEW m \in Names
             PROVE  OrderOf(m)'
  BY DEF HandThenQueue
<1>1. CASE m = n
  BY <1>1
<1>2. CASE m # n
  BY <1>2, OrderKept DEF HandThenQueue
<1> QED  BY <1>1, <1>2

\* A step that leaves queues, senders and counters alone.
LEMMA OutKept ==
  ASSUME IndInv, UNCHANGED <<outVars, seqVars, seen>>
  PROVE  CountersSound' /\ SeenBehind' /\ HandThenQueue'
<1>0. TypeOK /\ CountersSound /\ SeenBehind /\ HandThenQueue
  BY DEF IndInv
<1>1. UNCHANGED seqVars /\ buf' = buf /\ hand' = hand /\ seen' = seen
  BY DEF outVars
<1>2. CountersSound' /\ Forward
  BY <1>0, <1>1, CountersKept
<1>3. SeenBehind'
  BY <1>0, <1>1, <1>2, SeenKept
<1>4. HandThenQueue'
  BY <1>0, <1>1, <1>2, OrderKept DEF HandThenQueue
<1> QED  BY <1>2, <1>3, <1>4

\* Subscribe and unsubscribe.
LEMMA PatternsInv ==
  ASSUME IndInv, NEW n \in Names, NEW list \in Seq(Patterns), SetPatterns(n, list),
         UNCHANGED <<connVars, outVars, seqVars, seen>>
  PROVE  IndInv'
<1>0. TypeOK /\ IndexOfList /\ SendersKnown /\ NoLostWakeup
  BY DEF IndInv
<1>1. CountersSound' /\ SeenBehind' /\ HandThenQueue'
  BY OutKept
<1>2. /\ subs' \in [Names -> {None} \cup Seq(Patterns)]
      /\ index' \in [Names -> {None} \cup Index] /\ IndexOfList'
  BY <1>0, SetPatternsFacts
<1>3. TypeOK'
  BY <1>0, <1>2 DEF TypeOK, connVars, outVars, seqVars
<1>4. SendersKnown' /\ NoLostWakeup'
  BY <1>0 DEF SendersKnown, NoLostWakeup, connVars, outVars
<1> QED  BY <1>1, <1>2, <1>3, <1>4 DEF IndInv

\* A step that leaves the patterns alone.
LEMMA IndexKept ==
  ASSUME IndexOfList, UNCHANGED subVars
  PROVE  IndexOfList'
BY DEF IndexOfList, subVars

\* A fresh registration.
LEMMA AddEndpointInv ==
  ASSUME IndInv, NEW n \in Names, AddEndpoint(n)
  PROVE  IndInv'
<1>0. TypeOK /\ IndexOfList /\ SendersKnown /\ NoLostWakeup /\ CountersSound /\ SeenBehind /\ HandThenQueue
  BY DEF IndInv
<1>1. ListOf(n) \in Seq(Patterns) /\ SetPatterns(n, ListOf(n))
  BY <1>0, ListType DEF AddEndpoint
<1>2. /\ subs' \in [Names -> {None} \cup Seq(Patterns)]
      /\ index' \in [Names -> {None} \cup Index] /\ IndexOfList'
  <2>1. PICK list \in Seq(Patterns) : list = ListOf(n)
    BY <1>1
  <2> QED  BY <1>0, <1>1, <2>1, SetPatternsFacts
<1>3. /\ conn' = [conn EXCEPT ![n] = "up"] /\ buf' = [buf EXCEPT ![n] = <<>>]
      /\ wake' = [wake EXCEPT ![n] = FALSE] /\ sender' = [sender EXCEPT ![n] = "idle"]
      /\ hand' = [hand EXCEPT ![n] = None] /\ seen' = [seen EXCEPT ![n] = [k \in Streams |-> 0]]
      /\ leaving' = leaving /\ UNCHANGED seqVars
  BY DEF AddEndpoint
<1>4. TypeOK'
  BY <1>0, <1>2, <1>3 DEF TypeOK, seqVars
<1>5. SendersKnown' /\ NoLostWakeup'
  BY <1>0, <1>3 DEF TypeOK, SendersKnown, NoLostWakeup
<1>6. CountersSound' /\ Forward /\ \A k : CounterOf(k)' = CounterOf(k)
  BY <1>0, <1>3, CountersKept
<1>7. SeenBehind'
  <2> SUFFICES ASSUME NEW m \in Names, NEW k \in Streams
               PROVE  seen'[m][k] <= CounterOf(k)'
    BY DEF SeenBehind
  <2>1. seen'[m][k] = 0 \/ seen'[m][k] = seen[m][k]
    BY <1>0, <1>3 DEF TypeOK
  <2>2. CounterOf(k) \in 0..MaxSeq /\ seen[m][k] <= CounterOf(k) /\ CounterOf(k)' = CounterOf(k)
    BY <1>0, <1>6, CounterType DEF SeenBehind
  <2> QED  BY <2>1, <2>2
<1>8. HandThenQueue'
  <2>1. buf'[n] = <<>> /\ hand'[n] = None
    BY <1>0, <1>3 DEF TypeOK
  <2>2. OrderOf(n)'
    BY <2>1, OrderEmpty
  <2>3. \A m \in Names \ {n} : buf'[m] = buf[m] /\ hand'[m] = hand[m] /\ seen'[m] = seen[m]
    BY <1>0, <1>3 DEF TypeOK
  <2> QED  BY <1>0, <1>6, <2>2, <2>3, OthersKept
<1> QED  BY <1>2, <1>4, <1>5, <1>6, <1>7, <1>8 DEF IndInv

\* A sender is stopped or started again: the queue stays, the hand is emptied.
LEMMA HandEmptied ==
  ASSUME IndInv, NEW n \in Names, hand' = [hand EXCEPT ![n] = None], UNCHANGED <<buf, seqVars, seen>>
  PROVE  CountersSound' /\ SeenBehind' /\ HandThenQueue'
<1>0. TypeOK /\ CountersSound /\ SeenBehind /\ HandThenQueue
  BY DEF IndInv
<1>1. CountersSound' /\ Forward
  BY <1>0, CountersKept
<1>2. SeenBehind'
  BY <1>0, <1>1, SeenKept
<1>3. hand'[n] = None /\ \A m \in Names \ {n} : hand'[m] = hand[m]
  BY <1>0 DEF TypeOK
<1>4. OrderOf(n)'
  BY <1>0, <1>1, <1>3, OrderKept DEF HandThenQueue
<1>5. HandThenQueue'
  BY <1>0, <1>1, <1>3, <1>4, OthersKept
<1> QED  BY <1>1, <1>2, <1>5

\* A resume.
LEMMA ResumeInv ==
  ASSUME IndInv, NEW n \in Names, Resume(n)
  PROVE  IndInv'
<1>0. TypeOK /\ IndexOfList /\ SendersKnown /\ NoLostWakeup
  BY DEF IndInv
<1>1. CountersSound' /\ SeenBehind' /\ HandThenQueue'
  BY HandEmptied DEF Resume, RestartSender
<1>2. IndexOfList'
  BY <1>0, IndexKept DEF Resume
<1>3. TypeOK'
  BY <1>0 DEF TypeOK, Resume, RestartSender, subVars, seqVars
<1>4. SendersKnown' /\ NoLostWakeup'
  BY <1>0 DEF TypeOK, SendersKnown, NoLostWakeup, Resume, RestartSender
<1> QED  BY <1>1, <1>2, <1>3, <1>4 DEF IndInv

\* A socket dies, or is closed.
LEMMA DieInv ==
  ASSUME IndInv, NEW n \in Names, Die(n) \/ Closed(n)
  PROVE  IndInv'
<1>0. TypeOK /\ IndexOfList /\ SendersKnown /\ NoLostWakeup
  BY DEF IndInv
<1>1. CountersSound' /\ SeenBehind' /\ HandThenQueue'
  BY OutKept DEF Die, Closed
<1>2. IndexOfList'
  BY <1>0, IndexKept DEF Die, Closed
<1>3. TypeOK'
  BY <1>0 DEF TypeOK, Die, Closed, subVars, seqVars, outVars
<1>4. SendersKnown' /\ NoLostWakeup'
  BY <1>0 DEF TypeOK, SendersKnown, NoLostWakeup, Die, Closed, outVars
<1> QED  BY <1>1, <1>2, <1>3, <1>4 DEF IndInv

\* The sender ends: the broker notices a dead socket, or a send fails.
LEMMA SenderEndsInv ==
  ASSUME IndInv, NEW n \in Names, SocketDrop(n) \/ SendFails(n)
  PROVE  IndInv'
<1>0. TypeOK /\ IndexOfList /\ SendersKnown /\ NoLostWakeup
  BY DEF IndInv
<1>1. CountersSound' /\ SeenBehind' /\ HandThenQueue'
  BY HandEmptied DEF SocketDrop, SendFails, PauseSender
<1>2. IndexOfList'
  BY <1>0, IndexKept DEF SocketDrop, SendFails
<1>3. TypeOK'
  BY <1>0 DEF TypeOK, SocketDrop, SendFails, PauseSender, subVars, seqVars, connVars
<1>4. SendersKnown' /\ NoLostWakeup'
  BY <1>0, ZenonT(40) DEF TypeOK, SendersKnown, NoLostWakeup, SocketDrop, SendFails, PauseSender, connVars
<1> QED  BY <1>1, <1>2, <1>3, <1>4 DEF IndInv

\* A participant is removed.
LEMMA RemoveEndpointInv ==
  ASSUME IndInv, NEW n \in Names, RemoveEndpoint(n)
  PROVE  IndInv'
<1>0. TypeOK /\ IndexOfList /\ SendersKnown /\ NoLostWakeup /\ CountersSound /\ SeenBehind /\ HandThenQueue
  BY DEF IndInv
<1>1. /\ conn' = [conn EXCEPT ![n] = "absent"] /\ subs' = [subs EXCEPT ![n] = None]
      /\ index' = [index EXCEPT ![n] = None] /\ buf' = [buf EXCEPT ![n] = <<>>]
      /\ sender' = [sender EXCEPT ![n] = "none"] /\ hand' = [hand EXCEPT ![n] = None]
      /\ leaving' \in [Names -> BOOLEAN] /\ UNCHANGED <<wake, seqVars, seen>>
  BY <1>0 DEF TypeOK, RemoveEndpoint, PauseSender
<1>2. TypeOK'
  BY <1>0, <1>1 DEF TypeOK, seqVars
<1>3. IndexOfList'
  BY <1>0, <1>1 DEF TypeOK, IndexOfList
<1>4. SendersKnown' /\ NoLostWakeup'
  BY <1>0, <1>1 DEF TypeOK, SendersKnown, NoLostWakeup
<1>5. CountersSound' /\ Forward
  BY <1>0, <1>1, CountersKept
<1>6. SeenBehind'
  BY <1>0, <1>1, <1>5, SeenKept
<1>7. HandThenQueue'
  <2>1. /\ buf'[n] = <<>> /\ hand'[n] = None
        /\ \A m \in Names \ {n} : buf'[m] = buf[m] /\ hand'[m] = hand[m] /\ seen'[m] = seen[m]
    BY <1>0, <1>1 DEF TypeOK
  <2>2. OrderOf(n)'
    BY <2>1, OrderEmpty
  <2> QED  BY <1>0, <1>5, <2>1, <2>2, OthersKept
<1> QED  BY <1>2, <1>3, <1>4, <1>5, <1>6, <1>7 DEF IndInv

\* An event is numbered and pushed to its receivers.
LEMMA IngestInv ==
  ASSUME IndInv, NEW e \in Kinds, Ingest(e)
  PROVE  IndInv'
<1>0. TypeOK /\ IndexOfList /\ SendersKnown /\ NoLostWakeup /\ CountersSound /\ SeenBehind /\ HandThenQueue
  BY DEF IndInv
<1>1. /\ sessionSeq' \in Seq(SessionKeys \X (0..MaxSeq)) /\ Len(sessionSeq') <= SessionSeqMax
      /\ base' \in 0..MaxSeq /\ globalSeq' \in 0..MaxSeq
      /\ CountersSound' /\ Forward
      /\ StampOf(e) = CounterOf(Stream(e)) /\ StampOf(e) \in 0..MaxSeq
      /\ CounterOf(Stream(e))' = StampOf(e) + 1
  BY <1>0, NumberFacts DEF Ingest
<1>2. PICK x \in Event : x = <<e, StampOf(e)>>
  BY <1>1 DEF Event
<1>3. x[2] = CounterOf(Stream(x[1])) /\ CounterOf(Stream(x[1]))' = x[2] + 1
  <2>1. x[1] = e /\ x[2] = StampOf(e)
    BY <1>2
  <2> QED  BY <1>1, <2>1
<1>4. /\ buf' = [n \in Names |-> IF n \in Receivers(e) THEN Push(buf[n], x) ELSE buf[n]]
      /\ wake' = [n \in Names |-> wake[n] \/ n \in Receivers(e)]
      /\ UNCHANGED <<connVars, subVars, sender, hand, seen>>
  BY <1>2 DEF Ingest
<1>5. ASSUME NEW n \in Names
      PROVE  buf[n] \in Seq(Event) /\ Len(buf[n]) <= EventQueue
  BY <1>0 DEF TypeOK
<1>6. ASSUME NEW n \in Names
      PROVE  buf'[n] \in Seq(Event) /\ Len(buf'[n]) <= EventQueue
  <2>1. Push(buf[n], x) \in Seq(Event) /\ Len(Push(buf[n], x)) <= EventQueue
    BY <1>5, PushFacts
  <2> QED  BY <1>4, <1>5, <2>1
<1>7. TypeOK'
  <2>1. buf' \in [Names -> Seq(Event)] /\ \A n \in Names : Len(buf'[n]) <= EventQueue
    BY <1>4, <1>6
  <2>2. wake' \in [Names -> BOOLEAN]
    BY <1>0, <1>4 DEF TypeOK
  <2> QED  BY <1>0, <1>1, <1>4, <2>1, <2>2 DEF TypeOK, connVars, subVars
<1>8. IndexOfList'
  BY <1>0, <1>4, IndexKept
<1>9. SendersKnown'
  BY <1>0, <1>4 DEF SendersKnown, connVars
<1>10. NoLostWakeup'
  <2> SUFFICES ASSUME NEW n \in Names, conn[n] = "up", buf'[n] # <<>>
               PROVE  sender[n] = "sending" \/ (sender[n] = "idle" /\ wake'[n])
    BY <1>4 DEF NoLostWakeup, connVars
  <2>1. sender[n] \in {"idle", "sending"}
    BY <1>0 DEF SendersKnown, TypeOK
  <2>2. CASE n \in Receivers(e)
    BY <1>4, <2>1, <2>2
  <2>3. CASE n \notin Receivers(e)
    <3>1. buf'[n] = buf[n]
      BY <1>4, <2>3
    <3> QED  BY <1>0, <1>4, <3>1 DEF NoLostWakeup
  <2> QED  BY <2>2, <2>3
<1>11. SeenBehind'
  BY <1>0, <1>1, <1>4, SeenKept
<1>12. HandThenQueue'
  <2> SUFFICES ASSUME NEW n \in Names
               PROVE  OrderOf(n)'
    BY DEF HandThenQueue
  <2>1. OrderOf(n) /\ seen'[n] = seen[n] /\ hand'[n] = hand[n]
    BY <1>0, <1>4 DEF HandThenQueue
  <2>2. CASE n \in Receivers(e)
    <3>1. buf'[n] = Push(buf[n], x)
      BY <1>4, <2>2
    <3> QED  BY <1>0, <1>1, <1>3, <2>1, <3>1, OrderPush
  <2>3. CASE n \notin Receivers(e)
    <3>1. buf'[n] = buf[n]
      BY <1>4, <2>3
    <3> QED  BY <1>0, <1>1, <2>1, <3>1, OrderKept
  <2> QED  BY <2>2, <2>3
<1> QED  BY <1>1, <1>7, <1>8, <1>9, <1>10, <1>11, <1>12 DEF IndInv

\* What popping does to the variables of the sender.
LEMMA PopFacts ==
  ASSUME TypeOK, NEW n \in Names, PopOrWait(n)
  PROVE  /\ buf' \in [Names -> Seq(Event)] /\ \A m \in Names : Len(buf'[m]) <= EventQueue
         /\ hand' \in [Names -> Event \cup {None}] /\ sender' \in [Names -> {"none", "idle", "sending"}]
         /\ \A m \in Names \ {n} : buf'[m] = buf[m] /\ hand'[m] = hand[m] /\ sender'[m] = sender[m]
         /\ \/ sender'[n] = "sending" /\ hand'[n] # None
            \/ sender'[n] = "idle" /\ hand'[n] = None /\ buf'[n] = <<>>
<1>0. /\ buf \in [Names -> Seq(Event)] /\ \A m \in Names : Len(buf[m]) <= EventQueue
      /\ hand \in [Names -> Event \cup {None}] /\ sender \in [Names -> {"none", "idle", "sending"}]
  BY DEF TypeOK
<1>1. CASE buf[n] = <<>>
  BY <1>0, <1>1 DEF PopOrWait
<1>2. CASE buf[n] # <<>>
  <2>1. /\ Tail(buf[n]) \in Seq(Event) /\ Len(Tail(buf[n])) = Len(buf[n]) - 1
        /\ Head(buf[n]) \in Event /\ Len(buf[n]) \in Nat /\ Len(buf[n]) <= EventQueue
    BY <1>0, <1>2, TailFacts
  <2>2. Head(buf[n]) # None /\ Len(Tail(buf[n])) <= EventQueue
    BY <2>1, EventFacts
  <2>3. /\ sender' = [sender EXCEPT ![n] = "sending"] /\ hand' = [hand EXCEPT ![n] = Head(buf[n])]
        /\ buf' = [buf EXCEPT ![n] = Tail(buf[n])]
    BY <1>2 DEF PopOrWait
  <2> QED  BY <1>0, <2>1, <2>2, <2>3
<1> QED  BY <1>1, <1>2

\* A sender wakes.
LEMMA WakeInv ==
  ASSUME IndInv, NEW n \in Names, Wake(n)
  PROVE  IndInv'
<1>0. TypeOK /\ IndexOfList /\ SendersKnown /\ NoLostWakeup /\ CountersSound /\ SeenBehind /\ HandThenQueue
  BY DEF IndInv
<1>1. /\ sender[n] = "idle" /\ wake' = [wake EXCEPT ![n] = FALSE] /\ PopOrWait(n)
      /\ UNCHANGED <<connVars, subVars, seqVars, seen>>
  BY DEF Wake
<1>2. /\ buf' \in [Names -> Seq(Event)] /\ \A m \in Names : Len(buf'[m]) <= EventQueue
      /\ hand' \in [Names -> Event \cup {None}] /\ sender' \in [Names -> {"none", "idle", "sending"}]
      /\ \A m \in Names \ {n} : buf'[m] = buf[m] /\ hand'[m] = hand[m] /\ sender'[m] = sender[m]
      /\ \/ sender'[n] = "sending" /\ hand'[n] # None
         \/ sender'[n] = "idle" /\ hand'[n] = None /\ buf'[n] = <<>>
  BY <1>0, <1>1, PopFacts
<1>3. TypeOK'
  BY <1>0, <1>1, <1>2 DEF TypeOK, connVars, subVars, seqVars
<1>4. SendersKnown'
  BY <1>0, <1>1, <1>2 DEF SendersKnown, connVars
<1>5. NoLostWakeup'
  BY <1>0, <1>1, <1>2 DEF NoLostWakeup, connVars, TypeOK
<1>6. IndexOfList'
  BY <1>0, <1>1, IndexKept
<1>7. CountersSound' /\ Forward
  BY <1>0, <1>1, CountersKept
<1>8. SeenBehind'
  BY <1>0, <1>1, <1>7, SeenKept
<1>9. HandThenQueue'
  <2>1. hand[n] = None /\ OrderOf(n) /\ seen' = seen
    BY <1>0, <1>1 DEF SendersKnown, HandThenQueue
  <2>2. OrderOf(n)'
    BY <1>0, <1>1, <1>7, <2>1, OrderPop
  <2> QED  BY <1>0, <1>2, <1>7, <2>1, <2>2, OthersKept
<1> QED  BY <1>3, <1>4, <1>5, <1>6, <1>7, <1>8, <1>9 DEF IndInv

\* What a delivery does to what was seen: one number of one stream, higher than
\* the last and published.
LEMMA ReceivedFacts ==
  ASSUME IndInv, NEW n \in Names, Sent(n)
  PROVE  /\ seen' \in [Names -> [Streams -> 0..(MaxSeq + 1)]]
         /\ \A m \in Names \ {n} : seen'[m] = seen[m]
         /\ \A k \in Streams : \/ seen'[n][k] = seen[n][k]
                               \/ seen'[n][k] > seen[n][k] /\ seen'[n][k] <= CounterOf(k)
<1>0. TypeOK /\ SendersKnown /\ HandThenQueue /\ CountersSound
  BY DEF IndInv
<1>1. hand[n] # None /\ seen' = Received(n)
  BY <1>0 DEF Sent, SendersKnown
<1>2. PICK h \in Event : h = hand[n] /\ Ahead(n, h)
  BY <1>0, <1>1 DEF TypeOK, HandThenQueue, OrderOf
<1>3. Stream(h[1]) \in Streams /\ h[2] \in 0..MaxSeq
  BY EventFacts
<1>4. PICK s \in Streams : s = Stream(h[1])
  BY <1>3
<1>5. seen' = [seen EXCEPT ![n] = [seen[n] EXCEPT ![s] = h[2] + 1]]
  BY <1>0, <1>1, <1>2, <1>4 DEF Received, TypeOK
<1>6. h[2] >= seen[n][s] /\ h[2] < CounterOf(s) /\ CounterOf(s) \in 0..MaxSeq
  BY <1>0, <1>2, <1>4, CounterType DEF Ahead
<1>7. seen \in [Names -> [Streams -> 0..(MaxSeq + 1)]]
  BY <1>0 DEF TypeOK
<1>8. /\ seen'[n] = [seen[n] EXCEPT ![s] = h[2] + 1] /\ seen[n] \in [Streams -> 0..(MaxSeq + 1)]
      /\ \A m \in Names \ {n} : seen'[m] = seen[m]
  BY <1>5, <1>7
<1>9. seen' \in [Names -> [Streams -> 0..(MaxSeq + 1)]]
  <2>1. h[2] + 1 \in 0..(MaxSeq + 1)
    BY <1>3
  <2> QED  BY <1>5, <1>7, <2>1
<1>10. ASSUME NEW k \in Streams
       PROVE  \/ seen'[n][k] = seen[n][k]
              \/ seen'[n][k] > seen[n][k] /\ seen'[n][k] <= CounterOf(k)
  <2>1. CASE k = s
    BY <1>3, <1>6, <1>8, <2>1
  <2>2. CASE k # s
    BY <1>8, <2>2
  <2> QED  BY <2>1, <2>2
<1> QED  BY <1>8, <1>9, <1>10

\* A send completes.
LEMMA SentInv ==
  ASSUME IndInv, NEW n \in Names, Sent(n)
  PROVE  IndInv'
<1>0. TypeOK /\ IndexOfList /\ SendersKnown /\ NoLostWakeup /\ CountersSound /\ SeenBehind /\ HandThenQueue
  BY DEF IndInv
<1>1. /\ sender[n] = "sending" /\ seen' = Received(n) /\ PopOrWait(n)
      /\ UNCHANGED <<connVars, subVars, wake, seqVars>>
  BY DEF Sent
<1>2. /\ buf' \in [Names -> Seq(Event)] /\ \A m \in Names : Len(buf'[m]) <= EventQueue
      /\ hand' \in [Names -> Event \cup {None}] /\ sender' \in [Names -> {"none", "idle", "sending"}]
      /\ \A m \in Names \ {n} : buf'[m] = buf[m] /\ hand'[m] = hand[m] /\ sender'[m] = sender[m]
      /\ \/ sender'[n] = "sending" /\ hand'[n] # None
         \/ sender'[n] = "idle" /\ hand'[n] = None /\ buf'[n] = <<>>
  BY <1>0, <1>1, PopFacts
<1>3. /\ seen' \in [Names -> [Streams -> 0..(MaxSeq + 1)]]
      /\ \A m \in Names \ {n} : seen'[m] = seen[m]
      /\ \A k \in Streams : \/ seen'[n][k] = seen[n][k]
                            \/ seen'[n][k] > seen[n][k] /\ seen'[n][k] <= CounterOf(k)
  BY ReceivedFacts
<1>4. TypeOK'
  BY <1>0, <1>1, <1>2, <1>3 DEF TypeOK, connVars, subVars, seqVars
<1>5. SendersKnown'
  BY <1>0, <1>1, <1>2 DEF SendersKnown, connVars
<1>6. NoLostWakeup'
  BY <1>0, <1>1, <1>2 DEF NoLostWakeup, connVars
<1>7. IndexOfList'
  BY <1>0, <1>1, IndexKept
<1>8. CountersSound' /\ Forward /\ \A k : CounterOf(k)' = CounterOf(k)
  BY <1>0, <1>1, CountersKept
<1>9. SeenBehind'
  <2> SUFFICES ASSUME NEW m \in Names, NEW k \in Streams
               PROVE  seen'[m][k] <= CounterOf(k)'
    BY DEF SeenBehind
  <2>1. seen[m][k] <= CounterOf(k) /\ CounterOf(k)' = CounterOf(k)
    BY <1>0, <1>8 DEF SeenBehind
  <2>2. CASE m = n
    BY <1>3, <2>1, <2>2
  <2>3. CASE m # n
    <3>1. seen'[m] = seen[m]
      BY <1>3, <2>3
    <3> QED  BY <2>1, <3>1
  <2> QED  BY <2>2, <2>3
<1>10. HandThenQueue'
  <2>1. hand[n] # None /\ OrderOf(n)
    BY <1>0, <1>1 DEF SendersKnown, HandThenQueue
  <2>2. OrderOf(n)'
    BY <1>0, <1>1, <2>1, OrderSent
  <2> QED  BY <1>0, <1>2, <1>3, <1>8, <2>2, OthersKept
<1> QED  BY <1>4, <1>5, <1>6, <1>7, <1>8, <1>9, <1>10 DEF IndInv

\* Every step keeps the invariant.
LEMMA StepInv == IndInv /\ [Next]_vars => IndInv'
<1> SUFFICES ASSUME IndInv, [Next]_vars PROVE IndInv'
  OBVIOUS
<1>1. ASSUME NEW n \in Names, NEW p \in Patterns, Subscribe(n, p)
      PROVE  IndInv'
  <2>1. ListOf(n) \in Seq(Patterns)
    BY ListType DEF IndInv
  <2>2. PICK list \in Seq(Patterns) : list = Append(ListOf(n), p)
    BY <2>1, AppendFacts
  <2> QED  BY <1>1, <2>2, PatternsInv DEF Subscribe
<1>2. ASSUME NEW n \in Names, NEW p \in Patterns, Unsubscribe(n, p)
      PROVE  IndInv'
  <2>1. ListOf(n) \in Seq(Patterns)
    BY ListType DEF IndInv
  <2>2. PICK list \in Seq(Patterns) : list = RemoveFirst(ListOf(n), p)
    BY <2>1, RemoveFirstType
  <2> QED  BY <1>2, <2>2, PatternsInv DEF Unsubscribe
<1>3. CASE Life
  <2>1. PICK n \in Names : \/ AddEndpoint(n) \/ Resume(n) \/ Die(n) \/ SocketDrop(n)
                           \/ RemoveEndpoint(n) \/ Closed(n)
    BY <1>3 DEF Life
  <2> QED  BY <2>1, AddEndpointInv, ResumeInv, DieInv, SenderEndsInv, RemoveEndpointInv
<1>4. CASE Sending
  <2>1. PICK n \in Names : Wake(n) \/ Sent(n) \/ SendFails(n)
    BY <1>4 DEF Sending
  <2> QED  BY <2>1, WakeInv, SentInv, SenderEndsInv
<1>5. ASSUME NEW e \in Kinds, Ingest(e)
      PROVE  IndInv'
  BY <1>5, IngestInv
<1>6. CASE UNCHANGED vars
  <2>1. TypeOK /\ IndexOfList /\ SendersKnown /\ NoLostWakeup
    BY DEF IndInv
  <2>2. CountersSound' /\ SeenBehind' /\ HandThenQueue'
    BY <1>6, OutKept DEF vars, outVars, seqVars
  <2>3. IndexOfList'
    BY <1>6, <2>1, IndexKept DEF vars, subVars
  <2>4. TypeOK' /\ SendersKnown' /\ NoLostWakeup'
    BY <1>6, <2>1 DEF vars, TypeOK, SendersKnown, NoLostWakeup
  <2> QED  BY <2>2, <2>3, <2>4 DEF IndInv
<1> QED  BY <1>1, <1>2, <1>3, <1>4, <1>5, <1>6 DEF Next

\* The invariant holds in every state.
LEMMA Invariance == Spec => []IndInv
BY InitInv, StepInv, PTL DEF Spec

-----------------------------------------------------------------------------
(* What the invariant says. *)

\* The hand in front of the queue.
LEMMA PendingOrder ==
  ASSUME IndInv
  PROVE  QueueInOrder
<1> SUFFICES ASSUME NEW n \in Names
             PROVE  LET q == Pending(n) IN
                      /\ \A i \in 1..Len(q) : Ahead(n, q[i])
                      /\ \A i, j \in 1..Len(q) : i < j => Before(q[i], q[j])
  BY DEF QueueInOrder
<1>0. buf[n] \in Seq(Event) /\ hand[n] \in Event \cup {None} /\ OrderOf(n)
  BY DEF IndInv, TypeOK, HandThenQueue
<1>1. PICK b \in Seq(Event) : b = buf[n]
  BY <1>0
<1>2. /\ \A i \in 1..Len(b) : Ahead(n, b[i])
      /\ \A i, j \in 1..Len(b) : i < j => Before(b[i], b[j])
  BY <1>0, <1>1 DEF OrderOf
<1>3. CASE hand[n] = None
  <2>1. Pending(n) = b
    BY <1>1, <1>3 DEF Pending
  <2> QED  BY <1>2, <2>1
<1>4. CASE hand[n] # None
  <2>1. PICK h \in Event : h = hand[n] /\ Ahead(n, h) /\ \A i \in 1..Len(b) : Before(h, b[i])
    BY <1>0, <1>1, <1>4 DEF OrderOf
  <2>2. /\ <<h>> \o b \in Seq(Event) /\ Len(<<h>> \o b) = Len(b) + 1 /\ Len(b) \in Nat
        /\ \A i \in 1..(Len(b) + 1) : (<<h>> \o b)[i] = IF i = 1 THEN h ELSE b[i - 1]
    OBVIOUS
  <2>7. PICK q : q = <<h>> \o b
    OBVIOUS
  <2>3. q = Pending(n)
    BY <1>1, <1>4, <2>1, <2>7 DEF Pending
  <2>4. ASSUME NEW i \in 1..Len(q)
        PROVE  (i = 1 /\ q[i] = h) \/ (i - 1 \in 1..Len(b) /\ q[i] = b[i - 1] /\ i > 1)
    BY <2>2, <2>7
  <2>5. \A i \in 1..Len(q) : Ahead(n, q[i])
    BY <1>2, <2>1, <2>4
  <2>6. ASSUME NEW i \in 1..Len(q), NEW j \in 1..Len(q), i < j
        PROVE  Before(q[i], q[j])
    <3>1. j - 1 \in 1..Len(b) /\ q[j] = b[j - 1]
      BY <2>4, <2>6
    <3>2. CASE i = 1 /\ q[i] = h
      BY <2>1, <3>1, <3>2
    <3>3. CASE i - 1 \in 1..Len(b) /\ q[i] = b[i - 1]
      <4>1. i - 1 < j - 1
        BY <2>6
      <4> QED  BY <1>2, <3>1, <3>3, <4>1
    <3> QED  BY <2>4, <3>2, <3>3
  <2> QED  BY <2>3, <2>5, <2>6
<1> QED  BY <1>3, <1>4

\* Delivery queues are bounded and in the order of their streams, everything in
\* them is ahead of what was received, and no wakeup is lost, for any number of
\* subscribers, depth of the queues and size of the counter table (push, drain,
\* restart_sender, next_seq).
THEOREM QueuesAreSound == Spec => []QueuesSound
<1>1. IndInv => QueuesSound
  BY PendingOrder DEF IndInv, QueuesSound
<1> QED  BY <1>1, Invariance, PTL

\* The ingest index finds an event for a subscriber exactly when a pattern of its
\* list matches it, whatever the patterns are (_reindex against _matches).
THEOREM IndexIsExact == Spec => []IndexAgrees
<1>1. IndInv => IndexAgrees
  <2> SUFFICES ASSUME IndInv, NEW n \in Names
               PROVE  /\ subs[n] = None <=> index[n] = None
                      /\ subs[n] # None =>
                           \A e \in Kinds : Indexed(index[n], e) <=> Matches(ToSet(subs[n]), e)
    BY DEF IndexAgrees
  <2>0. subs[n] \in {None} \cup Seq(Patterns) /\ IndexOfList
    BY DEF IndInv, TypeOK
  <2>1. CASE subs[n] = None
    BY <2>0, <2>1 DEF IndexOfList
  <2>2. CASE subs[n] # None
    <3>1. PICK list \in Seq(Patterns) : list = subs[n] /\ index[n] = Reindex(list)
      BY <2>0, <2>2 DEF IndexOfList
    <3>2. Reindex(list) \in Index
      BY ReindexType
    <3>3. index[n] # None
      BY <3>1, <3>2
    <3>4. \A e \in Kinds : Indexed(Reindex(list), e) <=> Matches(ToSet(list), e)
      BY IndexFinds
    <3> QED  BY <2>2, <3>1, <3>3, <3>4
  <2> QED  BY <2>1, <2>2
<1> QED  BY <1>1, Invariance, PTL

\* A registered subscriber sees the numbers of every stream strictly increase,
\* through overflows of its queue, reconnects and the pruning of counters.
THEOREM NumbersGoForward == Spec => SeqForward
<1>1. IndInv /\ [Next]_vars => [OnlyForward]_vars
  <2> SUFFICES ASSUME IndInv, Next, NEW n \in Names, NEW k \in Streams,
                      conn[n] # "absent", seen'[n][k] # seen[n][k]
               PROVE  seen'[n][k] > seen[n][k]
    BY DEF OnlyForward
  <2>1. ASSUME NEW m \in Names, Sent(m)
        PROVE  seen'[n][k] > seen[n][k]
    <3>1. CASE m = n
      BY <2>1, <3>1, ReceivedFacts
    <3>2. CASE m # n
      BY <2>1, <3>2, ReceivedFacts
    <3> QED  BY <3>1, <3>2
  <2>2. ASSUME NEW m \in Names, AddEndpoint(m)
        PROVE  FALSE
    <3>1. conn[m] = "absent" /\ seen' = [seen EXCEPT ![m] = [x \in Streams |-> 0]]
      BY <2>2 DEF AddEndpoint
    <3>2. m # n
      BY <3>1
    <3> QED  BY <3>1, <3>2 DEF IndInv, TypeOK
  <2>3. CASE seen' = seen
    BY <2>3
  <2>4. CASE Life
    BY <2>2, <2>3, <2>4 DEF Life, Resume, Die, SocketDrop, RemoveEndpoint, Closed
  <2>5. CASE Sending
    BY <2>1, <2>3, <2>5 DEF Sending, Wake, SendFails
  <2> QED  BY <2>3, <2>4, <2>5 DEF Next, Subscribe, Unsubscribe, Ingest
<1> QED  BY <1>1, Invariance, PTL DEF Spec, SeqForward
=============================================================================
