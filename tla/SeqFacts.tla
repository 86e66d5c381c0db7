------------------------------ MODULE SeqFacts ------------------------------
(* Facts about numbers and sequences that the proofs of several modules use. *)
EXTENDS Naturals, FiniteSets, SequencesExt, SequenceTheorems, WellFoundedInduction, TLAPS

\* A set of naturals that is not empty has a least element.
LEMMA LeastNatural ==
  ASSUME NEW T, T \subseteq Nat, T # {}
  PROVE  \E x \in T : \A y \in T : x <= y
<1>1. \E R : IsWellFoundedOn(R, Nat) /\ \A a, b \in Nat : a < b => <<a, b>> \in R
  <2>1. \A a, b \in Nat : a < b => <<a, b>> \in OpToRel(<, Nat)
    BY Zenon DEF OpToRel
  <2> QED  BY <2>1, NatLessThanWellFounded, Zenon
<1>2. PICK R : IsWellFoundedOn(R, Nat) /\ \A a, b \in Nat : a < b => <<a, b>> \in R
  BY <1>1
<1>3. \E x \in T : \A y \in T : ~(<<y, x>> \in R)
  <2>1. IsWellFoundedOn(R, Nat)
    BY <1>2
  <2> QED  BY <2>1, WFMin, Zenon
<1>4. PICK x \in T : \A y \in T : ~(<<y, x>> \in R)
  BY <1>3
<1>5. \A y \in T : ~(y < x)
  BY <1>2, <1>4, Zenon
<1>6. \A y \in T : x <= y
  BY <1>5
<1> QED  BY <1>6

\* The larger of two numbers.
LEMMA MaxOfTwo ==
  ASSUME NEW a \in Nat, NEW b \in Nat
  PROVE  Max({a, b}) \in {a, b} /\ Max({a, b}) >= a /\ Max({a, b}) >= b
<1>1. \E x \in {a, b} : \A y \in {a, b} : x >= y
  OBVIOUS
<1> QED  BY <1>1 DEF Max

\* RemoveAt takes one element out and keeps the others in their order.
LEMMA RemoveAtFacts ==
  ASSUME NEW S, NEW q \in Seq(S), NEW i \in 1..Len(q)
  PROVE  /\ RemoveAt(q, i) \in Seq(S)
         /\ Len(RemoveAt(q, i)) = Len(q) - 1
         /\ \A j \in 1..(Len(q) - 1) :
              RemoveAt(q, i)[j] = IF j < i THEN q[j] ELSE q[j + 1]
<1>1. Len(q) \in Nat /\ i \in Nat /\ i >= 1 /\ i <= Len(q)
  OBVIOUS
<1>2. PICK a : a = SubSeq(q, 1, i - 1)
  OBVIOUS
<1>3. PICK b : b = SubSeq(q, i + 1, Len(q))
  OBVIOUS
<1>4. a \in Seq(S) /\ Len(a) = i - 1 /\ \A j \in 1..(i - 1) : a[j] = q[j]
  BY <1>1, <1>2
<1>5. b \in Seq(S) /\ Len(b) = Len(q) - i /\ \A j \in 1..(Len(q) - i) : b[j] = q[j + i]
  BY <1>1, <1>3
<1>6. RemoveAt(q, i) = a \o b
  BY <1>2, <1>3 DEF RemoveAt
<1>7. a \o b \in Seq(S) /\ Len(a \o b) = Len(a) + Len(b)
  BY <1>4, <1>5, ConcatProperties
<1>8. ASSUME NEW j \in 1..(Len(q) - 1)
      PROVE  (a \o b)[j] = IF j < i THEN q[j] ELSE q[j + 1]
  <2>1. j \in 1..(Len(a) + Len(b))
    BY <1>1, <1>4, <1>5
  <2>2. (a \o b)[j] = IF j <= Len(a) THEN a[j] ELSE b[j - Len(a)]
    BY <1>4, <1>5, <2>1, ConcatProperties
  <2>3. CASE j < i
    BY <1>1, <1>4, <2>2, <2>3
  <2>4. CASE ~(j < i)
    <3>1. j - Len(a) \in 1..(Len(q) - i) /\ ~(j <= Len(a))
      BY <1>1, <1>4, <2>4
    <3>2. b[j - Len(a)] = q[(j - Len(a)) + i]
      BY <1>5, <3>1
    <3> QED  BY <1>1, <1>4, <2>2, <2>4, <3>1, <3>2
  <2> QED  BY <2>3, <2>4
<1> QED  BY <1>1, <1>4, <1>5, <1>6, <1>7, <1>8

\* RemoveFirst takes an element out or none.
LEMMA RemoveFirstType ==
  ASSUME NEW S, NEW q \in Seq(S), NEW e
  PROVE  RemoveFirst(q, e) \in Seq(S) /\ Len(RemoveFirst(q, e)) <= Len(q)
<1> DEFINE T == {i \in 1..Len(q) : q[i] = e}
<1>1. CASE T = {}
  BY <1>1 DEF RemoveFirst
<1>2. CASE T # {}
  <2>0. T \subseteq Nat /\ T # {}
    BY <1>2
  <2>1. \E x \in T : \A y \in T : x <= y
    <3> HIDE DEF T
    <3> QED  BY <2>0, LeastNatural
  <2>2. Min(T) \in T
    BY <2>1 DEF Min
  <2>3. RemoveFirst(q, e) = RemoveAt(q, Min(T))
    <3>1. SelectInSeq(q, LAMBDA v : v = e) = Min(T)
      BY <1>2, Zenon DEF SelectInSeq
    <3> QED  BY <1>2, <3>1, Zenon DEF RemoveFirst
  <2>4. Min(T) \in 1..Len(q)
    BY <2>2
  <2> HIDE DEF T
  <2> QED  BY <2>3, <2>4, RemoveAtFacts
<1> QED  BY <1>1, <1>2

\* Append keeps the old elements and puts the new one at the end.
LEMMA AppendFacts ==
  ASSUME NEW S, NEW q \in Seq(S), NEW x \in S
  PROVE  /\ Append(q, x) \in Seq(S) /\ Len(Append(q, x)) = Len(q) + 1
         /\ \A i \in 1..(Len(q) + 1) : Append(q, x)[i] = IF i = Len(q) + 1 THEN x ELSE q[i]
OBVIOUS

\* Tail drops the first element.
LEMMA TailFacts ==
  ASSUME NEW S, NEW q \in Seq(S), q # <<>>
  PROVE  /\ Tail(q) \in Seq(S) /\ Len(Tail(q)) = Len(q) - 1 /\ Len(q) >= 1
         /\ Head(q) = q[1] /\ q[1] \in S
         /\ \A i \in 1..(Len(q) - 1) : Tail(q)[i] = q[i + 1]
OBVIOUS

\* One sequence behind another.
LEMMA ConcatFacts ==
  ASSUME NEW S, NEW p \in Seq(S), NEW q \in Seq(S)
  PROVE  /\ p \o q \in Seq(S) /\ Len(p \o q) = Len(p) + Len(q)
         /\ \A i \in 1..Len(p) : (p \o q)[i] = p[i]
         /\ \A i \in Len(p) + 1..Len(p) + Len(q) : (p \o q)[i] = q[i - Len(p)]
OBVIOUS

\* The positions of a sequence, and what is on them.
LEMMA SeqElements ==
  ASSUME NEW S, NEW q \in Seq(S)
  PROVE  DOMAIN q = 1..Len(q) /\ Len(q) \in Nat /\ \A i \in 1..Len(q) : q[i] \in S
OBVIOUS

\* One element alone.
LEMMA SingleFacts ==
  ASSUME NEW S, NEW x \in S
  PROVE  <<x>> \in Seq(S) /\ Len(<<x>>) = 1 /\ <<x>>[1] = x
OBVIOUS

\* What holds first and is kept by each step holds all along.
LEMMA StepsStay ==
  ASSUME NEW N \in Nat, NEW V, NEW F, F[0] \in V, \A i \in 1..N : F[i - 1] \in V => F[i] \in V
  PROVE  \A i \in 0..N : F[i] \in V
<1> DEFINE T == {i \in 0..N : F[i] \notin V}
<1> SUFFICES ASSUME T # {}
             PROVE  FALSE
  OBVIOUS
<1>1. PICK n \in T : \A m \in T : n <= m
  <2>1. T \subseteq Nat
    OBVIOUS
  <2> HIDE DEF T
  <2> QED  BY <2>1, LeastNatural
<1>2. n \in 1..N /\ n - 1 \in 0..N /\ ~(n <= n - 1)
  OBVIOUS
<1> QED  BY <1>1, <1>2

\* A first value, and what each of N steps makes of the value before it.
Stepping(N, V, a, step) == N \in Nat /\ a \in V /\ step \in [V \X (1..N) -> V]

\* A function defined by its first value and its steps.
LEMMA StepsExist ==
  ASSUME NEW N, NEW V, NEW a, NEW step, Stepping(N, V, a, step)
  PROVE  \E g \in [0..N -> V] : g[0] = a /\ \A i \in 1..N : g[i] = step[<<g[i - 1], i>>]
<1>0. N \in Nat /\ a \in V /\ step \in [V \X (1..N) -> V]
  BY DEF Stepping
<1> DEFINE Runs(n, g) == g \in [0..n -> V] /\ g[0] = a /\ \A i \in 1..n : g[i] = step[<<g[i - 1], i>>]
           T == {n \in 0..N : ~\E g : Runs(n, g)}
<1>1. T = {}
  <2> SUFFICES ASSUME T # {}
               PROVE  FALSE
    OBVIOUS
  <2>1. PICK n \in T : \A m \in T : n <= m
    <3>1. T \subseteq Nat
      OBVIOUS
    <3> HIDE DEF T
    <3> QED  BY <3>1, LeastNatural
  <2>2. n \in 0..N /\ ~\E g : Runs(n, g)
    OBVIOUS
  <2>3. CASE n = 0
    <3>1. Runs(0, [i \in 0..0 |-> a])
      BY <1>0
    <3> QED  BY <2>2, <2>3, <3>1
  <2>4. CASE n # 0
    <3>1. n \in 1..N /\ n - 1 \in 0..N /\ ~(n <= n - 1) /\ n - 1 \in 0..n - 1
      <4> HIDE DEF T, Runs
      <4> QED  BY <1>0, <2>2, <2>4
    <3>2. PICK g : Runs(n - 1, g)
      <4> HIDE DEF Runs
      <4> QED  BY <2>1, <3>1
    <3>3. PICK s \in V : s = step[<<g[n - 1], n>>]
      <4>1. g[n - 1] \in V
        BY <3>1, <3>2
      <4>2. <<g[n - 1], n>> \in V \X (1..N)
        BY <3>1, <4>1
      <4> HIDE DEF T, Runs
      <4> QED  BY <1>0, <4>2
    <3>4. PICK h : h = [i \in 0..n |-> IF i = n THEN s ELSE g[i]]
      OBVIOUS
    <3>5. h[0] = g[0] /\ h[n] = s /\ (\A i \in 0..n - 1 : h[i] = g[i]) /\ h \in [0..n -> V]
      BY <3>1, <3>2, <3>4
    <3>6. \A i \in 1..n : h[i] = step[<<h[i - 1], i>>]
      <4> SUFFICES ASSUME NEW i \in 1..n
                   PROVE  h[i] = step[<<h[i - 1], i>>]
        OBVIOUS
      <4>1. CASE i = n
        BY <3>1, <3>3, <3>5, <4>1
      <4>2. CASE i # n
        <5>1. i \in 1..n - 1 /\ i \in 0..n - 1 /\ i - 1 \in 0..n - 1
          BY <3>1, <4>2
        <5> QED  BY <3>2, <3>5, <5>1
      <4> QED  BY <4>1, <4>2
    <3>7. Runs(n, h)
      BY <3>2, <3>5, <3>6
    <3> HIDE DEF T, Runs
    <3> QED  BY <2>2, <3>7
  <2> QED  BY <2>3, <2>4
<1>2. N \in 0..N
  BY <1>0
<1>3. PICK g : Runs(N, g)
  <2> HIDE DEF Runs
  <2> QED  BY <1>1, <1>2
<1> QED  BY <1>3
=============================================================================
