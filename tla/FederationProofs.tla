-------------------------- MODULE FederationProofs --------------------------
(***************************************************************************)
(* The safety properties of Federation for every finite set of resources   *)
(* with any members, classes, tasks, bodies of joins and number of         *)
(* overlapping operations.  The invariant speaks of one resource at a time *)
(* and only of those on which no two operations have overlapped; a lemma   *)
(* says that what an operation does elsewhere does not disturb a resource, *)
(* and one lemma per operation follows the resource it is at.              *)
(***************************************************************************)
EXTENDS Federation, SeqFacts, FiniteSetTheorems

-----------------------------------------------------------------------------
(* Sequences. *)

\* The elements of a sequence.
LEMMA ToSetFacts ==
  ASSUME NEW S, NEW q \in Seq(S)
  PROVE  /\ ToSet(q) \subseteq S /\ (\A i \in 1..Len(q) : q[i] \in ToSet(q))
         /\ \A x \in ToSet(q) : \E i \in 1..Len(q) : x = q[i]
<1>1. DOMAIN q = 1..Len(q) /\ \A i \in 1..Len(q) : q[i] \in S
  OBVIOUS
<1>2. ToSet(q) = {q[i] : i \in 1..Len(q)}
  BY <1>1, Zenon DEF ToSet
<1> QED  BY <1>1, <1>2, Zenon

\* The elements of a tail.
LEMMA TailSet ==
  ASSUME NEW S, NEW q \in Seq(S), q # <<>>
  PROVE  /\ Tail(q) \in Seq(S) /\ Head(q) = q[1] /\ q[1] \in S /\ Len(q) >= 1
         /\ ToSet(q) = {q[1]} \cup ToSet(Tail(q))
<1>1. /\ Tail(q) \in Seq(S) /\ Len(Tail(q)) = Len(q) - 1 /\ Len(q) >= 1 /\ Len(q) \in Nat
      /\ Head(q) = q[1] /\ q[1] \in S
      /\ \A i \in 1..(Len(q) - 1) : Tail(q)[i] = q[i + 1]
  BY TailFacts
<1>2. PICK t \in Seq(S) : t = Tail(q)
  BY <1>1
<1>3. ASSUME NEW x \in ToSet(q)
      PROVE  x = q[1] \/ x \in ToSet(t)
  <2>1. PICK i \in 1..Len(q) : x = q[i]
    BY ToSetFacts
  <2>2. CASE i = 1
    BY <2>1, <2>2
  <2>3. CASE i # 1
    <3>1. i - 1 \in 1..Len(t) /\ t[i - 1] = q[(i - 1) + 1]
      BY <1>1, <1>2, <2>3
    <3>2. t[i - 1] = x
      BY <2>1, <3>1
    <3> QED  BY <3>1, <3>2, ToSetFacts
  <2> QED  BY <2>2, <2>3
<1>4. ASSUME NEW x \in ToSet(t)
      PROVE  x \in ToSet(q)
  <2>1. PICK i \in 1..Len(t) : x = t[i]
    BY ToSetFacts
  <2>2. i + 1 \in 1..Len(q) /\ x = q[i + 1]
    BY <1>1, <1>2, <2>1
  <2> QED  BY <2>2, ToSetFacts
<1>5. q[1] \in ToSet(q)
  <2>1. 1 \in 1..Len(q)
    BY <1>1
  <2> QED  BY <2>1, ToSetFacts
<1>6. ToSet(q) = {q[1]} \cup ToSet(t)
  BY <1>3, <1>4, <1>5, Zenon
<1> QED  BY <1>1, <1>2, <1>6

\* The rest of a sequence from one of its elements.
LEMMA FromFacts ==
  ASSUME NEW S, NEW q \in Seq(S), NEW i \in 1..Len(q)
  PROVE  /\ From(q, i) \in Seq(S) /\ From(q, i) # <<>> /\ From(q, i)[1] = q[i] /\ q[i] \in S
         /\ ToSet(q) = Before(q, i) \cup ToSet(From(q, i))
<1>1. Len(q) \in Nat /\ i \in Nat /\ i >= 1 /\ i <= Len(q)
  OBVIOUS
<1>2. PICK a : a = SubSeq(q, 1, i - 1)
  OBVIOUS
<1>3. PICK b : b = SubSeq(q, i, Len(q))
  OBVIOUS
<1>4. a \in Seq(S) /\ Len(a) = i - 1 /\ \A j \in 1..(i - 1) : a[j] = q[j]
  BY <1>1, <1>2
<1>5. b \in Seq(S) /\ Len(b) = Len(q) - i + 1 /\ \A j \in 1..(Len(q) - i + 1) : b[j] = q[j + i - 1]
  BY <1>1, <1>3
<1>6. From(q, i) = b /\ Before(q, i) = ToSet(a)
  BY <1>1, <1>2, <1>3 DEF From, Before
<1>7. b # <<>> /\ b[1] = q[i] /\ q[i] \in S
  BY <1>1, <1>5
<1>8. ASSUME NEW x \in ToSet(q)
      PROVE  x \in ToSet(a) \cup ToSet(b)
  <2>1. PICK j \in 1..Len(q) : x = q[j]
    BY ToSetFacts
  <2>2. CASE j < i
    <3>1. j \in 1..Len(a) /\ a[j] = x
      BY <1>1, <1>4, <2>1, <2>2
    <3> QED  BY <1>4, <3>1, ToSetFacts
  <2>3. CASE ~(j < i)
    <3>1. j - i + 1 \in 1..Len(b) /\ b[j - i + 1] = q[(j - i + 1) + i - 1]
      BY <1>1, <1>5, <2>3
    <3>2. b[j - i + 1] = x
      BY <1>1, <2>1, <3>1
    <3> QED  BY <1>5, <3>1, <3>2, ToSetFacts
  <2> QED  BY <2>2, <2>3
<1>9. ASSUME NEW x \in ToSet(a)
      PROVE  x \in ToSet(q)
  <2>1. PICK j \in 1..Len(a) : x = a[j]
    BY <1>4, ToSetFacts
  <2>2. j \in 1..Len(q) /\ x = q[j]
    BY <1>1, <1>4, <2>1
  <2> QED  BY <2>2, ToSetFacts
<1>10. ASSUME NEW x \in ToSet(b)
       PROVE  x \in ToSet(q)
  <2>1. PICK j \in 1..Len(b) : x = b[j]
    BY <1>5, ToSetFacts
  <2>2. j + i - 1 \in 1..Len(q) /\ x = q[j + i - 1]
    BY <1>1, <1>5, <2>1
  <2> QED  BY <2>2, ToSetFacts
<1>11. ToSet(q) = ToSet(a) \cup ToSet(b)
  BY <1>8, <1>9, <1>10, Zenon
<1> QED  BY <1>5, <1>6, <1>7, <1>11

\* The first element of a sequence in a set, and what comes before it.
LEMMA FirstInFacts ==
  ASSUME NEW S, NEW q \in Seq(S), NEW T
  PROVE  LET i == FirstIn(q, T) IN
         /\ i = 0 => Before(q, i) = ToSet(q)
         /\ i # 0 => /\ i \in 1..Len(q) /\ q[i] \in T /\ q[i] \in S
                     /\ From(q, i) \in Seq(S) /\ From(q, i) # <<>> /\ From(q, i)[1] = q[i]
                     /\ ToSet(q) = Before(q, i) \cup ToSet(From(q, i))
         /\ Before(q, i) \subseteq ToSet(q) /\ \A x \in Before(q, i) : x \notin T
<1> DEFINE I == {i \in 1..Len(q) : q[i] \in T}
<1>1. FirstIn(q, T) = IF I # {} THEN Min(I) ELSE 0
  BY Zenon DEF FirstIn, SelectInSeq
<1>2. CASE I = {}
  <2>1. FirstIn(q, T) = 0
    BY <1>1, <1>2
  <2>2. Before(q, 0) = ToSet(q)
    BY DEF Before
  <2>3. ASSUME NEW x \in ToSet(q)
        PROVE  x \notin T
    <3>1. PICK j \in 1..Len(q) : x = q[j]
      BY ToSetFacts
    <3> QED  BY <1>2, <3>1
  <2> HIDE DEF I
  <2> QED  BY <2>1, <2>2, <2>3
<1>3. CASE I # {}
  <2>1. I \subseteq Nat
    OBVIOUS
  <2>2. \E x \in I : \A y \in I : x <= y
    <3> HIDE DEF I
    <3> QED  BY <1>3, <2>1, LeastNatural
  <2>3. Min(I) \in I /\ \A y \in I : Min(I) <= y
    <3> HIDE DEF I
    <3> QED  BY <2>2 DEF Min
  <2>4. PICK i \in 1..Len(q) : i = FirstIn(q, T) /\ q[i] \in T /\ \A j \in 1..Len(q) : q[j] \in T => i <= j
    BY <1>1, <1>3, <2>3
  <2> HIDE DEF I
  <2>5. i # 0 /\ i \in Nat /\ Len(q) \in Nat /\ i <= Len(q) /\ i >= 1
    BY <2>4
  <2>6. ASSUME NEW x \in Before(q, i)
        PROVE  x \notin T
    <3>1. PICK a : a = SubSeq(q, 1, i - 1)
      OBVIOUS
    <3>2. a \in Seq(S) /\ Len(a) = i - 1 /\ \A j \in 1..(i - 1) : a[j] = q[j]
      BY <2>5, <3>1
    <3>3. x \in ToSet(a)
      BY <2>5, <3>1 DEF Before
    <3>4. PICK j \in 1..(i - 1) : x = a[j]
      BY <3>2, <3>3, ToSetFacts
    <3>5. j \in 1..Len(q) /\ ~(i <= j) /\ x = q[j]
      BY <2>5, <3>2, <3>4
    <3> QED  BY <2>4, <3>5
  <2> QED  BY <2>4, <2>5, <2>6, FromFacts
<1> QED  BY <1>2, <1>3

\* A sequence of all elements of a finite set, each once, has them all.
LEMMA SetToSeqsFacts ==
  ASSUME NEW S, IsFiniteSet(S), NEW q \in SetToSeqs(S)
  PROVE  q \in Seq(S) /\ ToSet(q) = S
<1>1. PICK n \in Nat : n = Cardinality(S)
  BY FS_CardinalityType
<1>2. q \in [1..n -> S] /\ \A i, j \in 1..n : i # j => q[i] # q[j]
  BY <1>1, Zenon DEF SetToSeqs
<1>3. q \in Seq(S) /\ Len(q) = n
  BY <1>2
<1>4. ToSet(q) \subseteq S /\ (\A i \in 1..n : q[i] \in ToSet(q)) /\ \A x \in ToSet(q) : \E i \in 1..n : x = q[i]
  BY <1>3, ToSetFacts
<1>5. q \in [1..n -> ToSet(q)]
  BY <1>2, <1>4
<1>6. q \in Bijection(1..n, ToSet(q))
  <2>1. q \in Injection(1..n, ToSet(q))
    BY <1>2, <1>5 DEF Injection, IsInjective
  <2>2. q \in Surjection(1..n, ToSet(q))
    BY <1>4, <1>5 DEF Surjection
  <2> QED  BY <2>1, <2>2 DEF Bijection
<1>7. Cardinality(ToSet(q)) = n
  <2>1. IsFiniteSet(1..n) /\ Cardinality(1..n) = n
    <3>1. 1 \in Int /\ n \in Int
      OBVIOUS
    <3>2. IsFiniteSet(1..n) /\ Cardinality(1..n) = IF 1 > n THEN 0 ELSE n - 1 + 1
      BY <3>1, FS_Interval
    <3> QED  BY <3>2
  <2>2. ExistsBijection(1..n, ToSet(q))
    BY <1>6 DEF ExistsBijection
  <2> QED  BY <2>1, <2>2, FS_Bijection
<1>8. ToSet(q) \in SUBSET S
  BY <1>4
<1> QED  BY <1>1, <1>3, <1>7, <1>8, FS_Subset

-----------------------------------------------------------------------------
(* Resources, their members, and the operations at them. *)

\* Every member belongs to one resource, which lists it.
LEMMA OwnsFacts ==
  /\ \A r \in Res : Owns[r] \subseteq Mem /\ Order[r] \in Seq(Owns[r]) /\ Order[r] # <<>> /\ ToSet(Order[r]) = Owns[r]
  /\ \A m \in Mem : ResOf[m] \in Res
  /\ \A m \in Mem, r \in Res : m \in Owns[r] <=> ResOf[m] = r
<1>1. ASSUME NEW r \in Res
      PROVE  Owns[r] \subseteq Mem /\ Order[r] \in Seq(Owns[r]) /\ Order[r] # <<>> /\ ToSet(Order[r]) = Owns[r]
  <2>1. Order[r] \in Seq(Mem) /\ Order[r] # <<>> /\ Owns[r] = ToSet(Order[r])
    BY FedShape DEF Owns
  <2>2. PICK q \in Seq(Mem) : q = Order[r]
    BY <2>1
  <2>3. ToSet(q) \subseteq Mem /\ \A i \in 1..Len(q) : q[i] \in ToSet(q)
    BY ToSetFacts
  <2>4. q \in Seq(ToSet(q))
    BY <2>3
  <2> QED  BY <2>1, <2>2, <2>3, <2>4
<1>2. ASSUME NEW m \in Mem
      PROVE  ResOf[m] \in Res /\ m \in Owns[ResOf[m]]
  <2>1. \E r \in Res : m \in Owns[r]
    BY FedShape
  <2>2. ResOf[m] = CHOOSE r \in Res : m \in Owns[r]
    BY DEF ResOf
  <2> QED  BY <2>1, <2>2, Zenon
<1>3. ASSUME NEW m \in Mem, NEW r \in Res, m \in Owns[r]
      PROVE  ResOf[m] = r
  BY <1>2, <1>3, FedShape
<1> QED  BY <1>1, <1>2, <1>3, Zenon

\* A declaration is a number, and not 0.
LEMMA DeclFacts ==
  ASSUME NEW m \in Mem, NEW v \in 1..Versions
  PROVE  Decl(m, v) \in 1..Versions /\ Decl(m, v) # 0 /\ Decl(m, v) \in 0..Versions
BY FedShape DEF Decl

\* The operations of O that are at a resource.
Here(O, r) == {o \in O : r \in Touched(o)}

\* Where an operation is, by its kind.
LEMMA TouchedFacts ==
  ASSUME NEW o, OpType(o)
  PROVE  /\ Touched(o) \subseteq Res
         /\ o.kind \in {"join", "leave", "cancel"} => o.r \in Res /\ Touched(o) = {o.r}
         /\ o.kind = "topology" => Touched(o) = {}
         /\ o.kind = "sync" => Touched(o) = ToSet(o.res)
         /\ o.kind = "rollback" => Touched(o) = {ResOf[o.todo[1]]}
         /\ o.kind \in {"join", "rollback", "leave", "cancel", "topology", "sync"}
<1>1. CASE o.kind = "join" /\ o.r \in Res
  BY <1>1 DEF Touched
<1>2. CASE o.kind \in {"leave", "cancel"} /\ o.r \in Res
  BY <1>2 DEF Touched
<1>3. CASE o.kind = "rollback" /\ o.todo \in Seq(Mem) /\ o.todo # <<>>
  <2>1. Touched(o) = {ResOf[o.todo[1]]}
    BY <1>3 DEF Touched
  <2>2. o.todo[1] \in Mem
    BY <1>3, TailFacts
  <2> QED  BY <1>3, <2>1, <2>2, OwnsFacts
<1>4. CASE o.kind = "topology"
  BY <1>4 DEF Touched
<1>5. CASE o.kind = "sync" /\ o.res \in Seq(Res)
  <2>1. Touched(o) = ToSet(o.res)
    BY <1>5 DEF Touched
  <2> QED  BY <1>5, <2>1, ToSetFacts
<1> QED  BY <1>1, <1>2, <1>3, <1>4, <1>5 DEF OpType

\* The member that an operation drains belongs to a resource it is at.
LEMMA DrainedFacts ==
  ASSUME NEW o, OpType(o), o.kind \in {"leave", "sync"}
  PROVE  /\ o.todo # <<>> /\ o.todo[1] \in Mem /\ ResOf[o.todo[1]] \in Touched(o)
         /\ o.todo \in Seq(Owns[ResOf[o.todo[1]]])
<1>1. CASE o.kind = "leave"
  <2>1. o.r \in Res /\ o.todo \in Seq(Owns[o.r]) /\ o.todo # <<>>
    BY <1>1 DEF OpType
  <2>2. o.todo[1] \in Owns[o.r]
    BY <2>1, TailFacts
  <2>3. Touched(o) = {o.r}
    BY <1>1, TouchedFacts
  <2> QED  BY <2>1, <2>2, <2>3, OwnsFacts
<1>2. CASE o.kind = "sync"
  <2>1. o.res \in Seq(Res) /\ o.res # <<>> /\ o.todo \in Seq(Owns[o.res[1]]) /\ o.todo # <<>>
    BY <1>2 DEF OpType
  <2>2. o.todo[1] \in Owns[o.res[1]]
    BY <2>1, TailFacts
  <2>3. o.res[1] \in Res /\ o.res[1] \in ToSet(o.res)
    BY <2>1, TailSet
  <2>4. Touched(o) = ToSet(o.res)
    BY <1>2, TouchedFacts
  <2> QED  BY <2>1, <2>2, <2>3, <2>4, OwnsFacts
<1> QED  BY <1>1, <1>2

\* The operations, as they are made.
LEMMA OpFacts ==
  /\ \A r \in Res, v \in 1..Versions, l \in {"unread", "ok", "suspect", "lost"} :
       /\ OpType(Joining(r, v, l)) /\ Touched(Joining(r, v, l)) = {r} /\ Joining(r, v, l).kind = "join"
       /\ Joining(r, v, l).live = l
  /\ \A r \in Res, c \in BOOLEAN : \A q \in Seq(Owns[r]) : q # <<>> =>
       /\ OpType(Leaving(r, c, q)) /\ Touched(Leaving(r, c, q)) = {r} /\ Leaving(r, c, q).kind = "leave"
       /\ Leaving(r, c, q).todo = q
  /\ \A r \in Res, T \in SUBSET Tasks :
       /\ OpType(Cancelling(r, T)) /\ Touched(Cancelling(r, T)) = {r} /\ Cancelling(r, T).kind = "cancel"
  /\ OpType(Heard) /\ Touched(Heard) = {} /\ Heard.kind = "topology"
<1>1. ASSUME NEW r \in Res, NEW v \in 1..Versions, NEW l \in {"unread", "ok", "suspect", "lost"}
      PROVE  /\ OpType(Joining(r, v, l)) /\ Touched(Joining(r, v, l)) = {r} /\ Joining(r, v, l).kind = "join"
             /\ Joining(r, v, l).live = l
  <2>1. OpType(Joining(r, v, l))
    BY DEF OpType, Joining
  <2> QED  BY <2>1, TouchedFacts DEF Joining
<1>2. ASSUME NEW r \in Res, NEW c \in BOOLEAN, NEW q \in Seq(Owns[r]), q # <<>>
      PROVE  /\ OpType(Leaving(r, c, q)) /\ Touched(Leaving(r, c, q)) = {r} /\ Leaving(r, c, q).kind = "leave"
             /\ Leaving(r, c, q).todo = q
  <2>1. OpType(Leaving(r, c, q))
    BY <1>2 DEF OpType, Leaving
  <2> QED  BY <2>1, TouchedFacts DEF Leaving
<1>3. ASSUME NEW r \in Res, NEW T \in SUBSET Tasks
      PROVE  /\ OpType(Cancelling(r, T)) /\ Touched(Cancelling(r, T)) = {r}
             /\ Cancelling(r, T).kind = "cancel"
  <2>1. OpType(Cancelling(r, T))
    BY DEF OpType, Cancelling
  <2> QED  BY <2>1, TouchedFacts DEF Cancelling
<1>4. OpType(Heard) /\ Touched(Heard) = {} /\ Heard.kind = "topology"
  <2>1. OpType(Heard)
    BY DEF OpType, Heard
  <2> QED  BY <2>1, TouchedFacts DEF Heard
<1> QED  BY <1>1, <1>2, <1>3, <1>4

\* A pass over the resources in R.
LEMMA SyncingFacts ==
  ASSUME NEW R \in Seq(Res), NEW ver \in [Res -> 0..Versions], R # <<>>, NEW q \in Seq(Owns[R[1]]), q # <<>>
  PROVE  /\ OpType(Syncing(R, ver, q)) /\ Touched(Syncing(R, ver, q)) = ToSet(R)
         /\ Syncing(R, ver, q).kind = "sync" /\ Syncing(R, ver, q).todo = q /\ Syncing(R, ver, q).ver = ver
<1>1. OpType(Syncing(R, ver, q))
  BY DEF OpType, Syncing
<1>2. Syncing(R, ver, q).kind = "sync" /\ Syncing(R, ver, q).todo = q /\ Syncing(R, ver, q).ver = ver /\ Syncing(R, ver, q).res = R
  BY DEF Syncing
<1> QED  BY <1>1, <1>2, TouchedFacts

-----------------------------------------------------------------------------
(* A resource on which no two operations have overlapped is idle or has one *)
(* operation at it; the invariant of either case is easier to work with.    *)

MembersHere(r) == \A m \in Owns[r] : pool[m] # 0 => joined[r] # 0

Declared(m, r) == joined[r] # 0 /\ pool[m] = Decl(m, joined[r])

IdleSound(r) ==
  /\ MembersHere(r)
  /\ \A m \in Owns[r] : m \in attached => Declared(m, r)
  /\ joined[r] # 0 /\ live[r] = "ok" => (net[r] = "present" \/ Pending) /\ Owns[r] \subseteq attached

OpSound(o, r) ==
  /\ Holds(o, r)
  /\ MembersHere(r)
  /\ \A m \in Owns[r] : m \in attached /\ o.kind \notin {"leave", "cancel"} /\ ~(o.kind = "sync" /\ o.todo[1] = m)
                          => Declared(m, r)
  /\ joined[r] # 0 /\ live[r] = "ok" => net[r] = "present" \/ Pending \/ o.kind = "sync"

\* With no operation at it.
LEMMA ResIdle ==
  OpsTyped => \A r \in Res : Here(ops, r) = {} => (ResSound(r) <=> IdleSound(r))
<1> SUFFICES ASSUME OpsTyped, NEW r \in Res, Here(ops, r) = {}
             PROVE  ResSound(r) <=> IdleSound(r)
  OBVIOUS
<1>1. \A o \in ops : OpType(o) /\ r \notin Touched(o)
  BY DEF OpsTyped, Here
<1>2. ~AtLeave(r)
  BY <1>1, TouchedFacts DEF AtLeave
<1>3. \A m \in Owns[r] : ~Draining(m)
  <2> SUFFICES ASSUME NEW m \in Owns[r], NEW o \in ops, o.kind \in {"leave", "sync"}, o.todo[1] = m
               PROVE  FALSE
    BY DEF Draining
  <2>1. m \in Mem /\ ResOf[m] = r
    BY OwnsFacts
  <2> QED  BY <1>1, <2>1, DrainedFacts
<1>4. r \notin Busy
  BY <1>1 DEF Busy
<1>5. AtSync(r) <=> Pending
  BY <1>1, TouchedFacts DEF AtSync, Pending
<1>6. OneAt(r) /\ \A o \in ops : r \in Touched(o) => Holds(o, r)
  BY <1>1 DEF OneAt
<1>7. ResSound(r) <=>
        /\ \A m \in Owns[r] :
             /\ pool[m] # 0 => joined[r] # 0
             /\ m \in attached => joined[r] # 0 /\ pool[m] = Decl(m, joined[r])
        /\ (joined[r] # 0 /\ live[r] = "ok") =>
             (net[r] = "present" \/ AtSync(r)) /\ Owns[r] \subseteq attached
  BY <1>2, <1>3, <1>4, <1>6, Zenon DEF ResSound
<1> QED  BY <1>5, <1>7, Zenon DEF IdleSound, MembersHere, Declared

\* With one operation at it.
LEMMA ResOp ==
  OpsTyped => \A r \in Res : \A o : Here(ops, r) = {o} => (ResSound(r) <=> OpSound(o, r))
<1> SUFFICES ASSUME OpsTyped, NEW r \in Res, NEW o, Here(ops, r) = {o}
             PROVE  ResSound(r) <=> OpSound(o, r)
  OBVIOUS
<1>1. /\ o \in ops /\ r \in Touched(o) /\ \A p \in ops : OpType(p) /\ (r \in Touched(p) => p = o)
  BY DEF OpsTyped, Here
<1>2. AtLeave(r) <=> o.kind \in {"leave", "cancel"}
  <2>1. ASSUME NEW p \in ops, p.kind \in {"leave", "cancel"}, p.r = r
        PROVE  p = o
    BY <1>1, <2>1, TouchedFacts
  <2>2. ASSUME o.kind \in {"leave", "cancel"}
        PROVE  o.r = r
    BY <1>1, <2>2, TouchedFacts
  <2> QED  BY <1>1, <2>1, <2>2 DEF AtLeave
<1>3. \A m \in Owns[r] : Draining(m) <=> o.kind \in {"leave", "sync"} /\ o.todo[1] = m
  <2> SUFFICES ASSUME NEW m \in Owns[r], NEW p \in ops, p.kind \in {"leave", "sync"}, p.todo[1] = m
               PROVE  p = o
    BY <1>1 DEF Draining
  <2>1. m \in Mem /\ ResOf[m] = r
    BY OwnsFacts
  <2> QED  BY <1>1, <2>1, DrainedFacts
<1>4. r \in Busy
  BY <1>1 DEF Busy
<1>5. AtSync(r) <=> Pending \/ o.kind = "sync"
  <2>1. ASSUME NEW p \in ops, p.kind = "sync", r \in ToSet(p.res)
        PROVE  p = o
    BY <1>1, <2>1, TouchedFacts
  <2>2. ASSUME o.kind = "sync"
        PROVE  r \in ToSet(o.res)
    BY <1>1, <2>2, TouchedFacts
  <2> QED  BY <1>1, <2>1, <2>2 DEF AtSync, Pending
<1>6. OneAt(r) /\ ((\A p \in ops : r \in Touched(p) => Holds(p, r)) <=> Holds(o, r))
  BY <1>1 DEF OneAt
<1>7. ResSound(r) <=>
        /\ Holds(o, r)
        /\ \A m \in Owns[r] :
             /\ pool[m] # 0 => joined[r] # 0
             /\ m \in attached /\ ~(o.kind \in {"leave", "cancel"}) /\ ~(o.kind \in {"leave", "sync"} /\ o.todo[1] = m)
                  => joined[r] # 0 /\ pool[m] = Decl(m, joined[r])
        /\ joined[r] # 0 /\ live[r] = "ok" => net[r] = "present" \/ AtSync(r)
  BY <1>2, <1>3, <1>4, <1>6, Zenon DEF ResSound
<1>8. \A m : (~(o.kind \in {"leave", "cancel"}) /\ ~(o.kind \in {"leave", "sync"} /\ o.todo[1] = m))
             <=> (o.kind \notin {"leave", "cancel"} /\ ~(o.kind = "sync" /\ o.todo[1] = m))
  OBVIOUS
<1> QED  BY <1>5, <1>7, <1>8, Zenon DEF OpSound, MembersHere, Declared

\* There is no third case.
LEMMA ResAny ==
  ASSUME OpsTyped, NEW r \in Res, ResSound(r)
  PROVE  \/ Here(ops, r) = {} /\ IdleSound(r)
         \/ \E o \in ops : Here(ops, r) = {o} /\ OpSound(o, r)
<1>1. \A o, p \in ops : r \in Touched(o) \cap Touched(p) => o = p
  BY DEF ResSound, OneAt
<1>2. Here(ops, r) = {} \/ \E o \in ops : Here(ops, r) = {o}
  BY <1>1 DEF Here
<1> QED  BY <1>2, ResIdle, ResOp

\* The same two facts after a step.
LEMMA ResNext ==
  OpsTyped' => \A r \in Res : /\ Here(ops', r) = {} => (ResSound(r)' <=> IdleSound(r)')
                              /\ \A o : Here(ops', r) = {o} => (ResSound(r)' <=> OpSound(o, r)')
<1>1. OpsTyped => \A r \in Res : /\ Here(ops, r) = {} => (ResSound(r) <=> IdleSound(r))
                                 /\ \A o : Here(ops, r) = {o} => (ResSound(r) <=> OpSound(o, r))
  BY ResIdle, ResOp
<1>2. (OpsTyped => \A r \in Res : /\ Here(ops, r) = {} => (ResSound(r) <=> IdleSound(r))
                                  /\ \A o : Here(ops, r) = {o} => (ResSound(r) <=> OpSound(o, r)))'
  BY <1>1, PTL
<1> QED  BY <1>2

\* What a step leaves alone at a resource.
Same(r) ==
  /\ Here(ops', r) = Here(ops, r) /\ joined'[r] = joined[r]
  /\ \A m \in Owns[r] : pool'[m] = pool[m] /\ (m \in attached' <=> m \in attached)
SameNet(r) ==
  /\ live'[r] # "ok" \/ joined[r] = 0 \/ (live'[r] = live[r] /\ (Pending => Pending'))
  /\ net'[r] = net[r] \/ (Here(ops, r) = {} /\ Pending')

\* A resource that a step does not touch stays sound.
LEMMA Untouched ==
  ASSUME OpsTyped, OpsTyped', NEW r \in Res, ResSound(r), Same(r), SameNet(r)
  PROVE  ResSound(r)'
<1>1. CASE Here(ops, r) = {} /\ IdleSound(r)
  <2>1. Here(ops', r) = {}
    BY <1>1 DEF Same
  <2>2. IdleSound(r)'
    BY <1>1 DEF Same, SameNet, IdleSound, MembersHere, Declared
  <2> QED  BY <2>1, <2>2, ResNext
<1>2. ASSUME NEW o \in ops, Here(ops, r) = {o}, OpSound(o, r)
      PROVE  ResSound(r)'
  <2>1. Here(ops', r) = {o} /\ net'[r] = net[r]
    BY <1>2 DEF Same, SameNet
  <2>2. Holds(o, r)'
    <3>1. Holds(o, r)
      BY <1>2 DEF OpSound
    <3> QED  BY <2>1, <3>1 DEF Holds, Same
  <2>3. OpSound(o, r)'
    BY <1>2, <2>1, <2>2 DEF Same, SameNet, OpSound, MembersHere, Declared
  <2> QED  BY <2>1, <2>3, ResNext
<1> QED  BY <1>1, <1>2, ResAny

\* Adding an operation to the others, and taking one away.
LEMMA HereFacts ==
  ASSUME NEW O, NEW o, NEW x, NEW r
  PROVE  /\ r \in Touched(x) => Here(O \cup {x}, r) = Here(O, r) \cup {x}
         /\ r \notin Touched(x) => Here(O \cup {x}, r) = Here(O, r)
         /\ r \notin Touched(o) => Here(O \ {o}, r) = Here(O, r)
         /\ Here(O, r) = {o} => Here(O \ {o}, r) = {}
         /\ r \notin UNION {Touched(p) : p \in O} <=> Here(O, r) = {}
         /\ Here({}, r) = {}
BY DEF Here

\* The parts of the invariant.
ResPart  == \A r \in Res \ raced : ResSound(r)
TaskPart == (\A t \in Tasks : TaskSound(t)) /\ LiveTaskKnown /\ PlacedIsJoined
BasePart == TypeOK /\ OpsTyped /\ Started

\* What the base says of an operation that is under way.
LEMMA UnderWay ==
  ASSUME BasePart, NEW o \in ops
  PROVE  OpType(o) /\ replayed /\ ops # {}
BY DEF BasePart, OpsTyped, Started

\* While the plugin is started and nothing new is declared, a pool that is made
\* again is as it was.
LEMMA MaterialisedFacts ==
  ASSUME BasePart
  PROVE  /\ Materialised(joined) = pool
         /\ \A r \in Res, v \in 1..Versions :
              \A m \in Mem : LET P == Materialised([joined EXCEPT ![r] = v]) IN
                /\ ResOf[m] # r => P[m] = pool[m]
                /\ ResOf[m] = r => P[m] \in {pool[m], Decl(m, v)}
<1>1. /\ joined \in [Res -> 0..Versions] /\ pool \in [Mem -> 0..Versions]
      /\ \A m \in Mem : joined[ResOf[m]] # 0 => ClassOf[m] \in made
  BY DEF BasePart, TypeOK, Started
<1>2. Materialised(joined) = pool
  <2>1. Materialised(joined) = [m \in Mem |-> pool[m]]
    BY <1>1 DEF Materialised
  <2> QED  BY <1>1, <2>1
<1>3. ASSUME NEW r \in Res, NEW v \in 1..Versions, NEW m \in Mem
      PROVE  LET P == Materialised([joined EXCEPT ![r] = v]) IN
                /\ ResOf[m] # r => P[m] = pool[m]
                /\ ResOf[m] = r => P[m] \in {pool[m], Decl(m, v)}
  <2>1. PICK J : J = [joined EXCEPT ![r] = v]
    OBVIOUS
  <2>2. ResOf[m] \in Res /\ J[ResOf[m]] = IF ResOf[m] = r THEN v ELSE joined[ResOf[m]]
    BY <1>1, <2>1, OwnsFacts
  <2>3. Materialised(J)[m] = IF ClassOf[m] \in made \/ J[ResOf[m]] = 0 THEN pool[m] ELSE Decl(m, J[ResOf[m]])
    BY DEF Materialised
  <2> QED  BY <1>1, <2>1, <2>2, <2>3
<1> QED  BY <1>2, <1>3


-----------------------------------------------------------------------------
(* Types. *)

\* What is required of a set of operations.
OpsFine(Q) == IsFiniteSet(Q) /\ (\A p \in Q : OpType(p)) /\ Cardinality(Q) <= Overlap

\* An operation starts while there is room, ends, or goes on as another.
LEMMA OpsStep ==
  ASSUME BasePart, NEW O, (O = ops /\ Room) \/ (\E o \in ops : O = ops \ {o})
  PROVE  OpsFine(O) /\ \A x : OpType(x) => OpsFine(O \cup {x})
<1>1. /\ IsFiniteSet(ops) /\ (\A p \in ops : OpType(p)) /\ Cardinality(ops) <= Overlap
      /\ Overlap \in Nat /\ Cardinality(ops) \in Nat
  BY FedShape, FS_CardinalityType DEF BasePart, OpsTyped, TypeOK
<1>2. /\ IsFiniteSet(O) /\ (\A p \in O : OpType(p)) /\ Cardinality(O) \in Nat
      /\ Cardinality(O) <= Overlap /\ Cardinality(O) + 1 <= Overlap
  <2>1. CASE O = ops /\ Room
    BY <1>1, <2>1 DEF Room
  <2>2. ASSUME NEW o \in ops, O = ops \ {o}
        PROVE  /\ IsFiniteSet(O) /\ (\A p \in O : OpType(p)) /\ Cardinality(O) \in Nat
               /\ Cardinality(O) <= Overlap /\ Cardinality(O) + 1 <= Overlap
    <3>1. IsFiniteSet(O) /\ Cardinality(O) = Cardinality(ops) - 1
      BY <1>1, <2>2, FS_RemoveElement
    <3>2. Cardinality(O) \in Nat
      BY <3>1, FS_CardinalityType
    <3> QED  BY <1>1, <2>2, <3>1, <3>2
  <2> QED  BY <2>1, <2>2
<1>3. ASSUME NEW x, OpType(x)
      PROVE  OpsFine(O \cup {x})
  <2>1. /\ IsFiniteSet(O \cup {x})
        /\ Cardinality(O \cup {x}) = Cardinality(O) \/ Cardinality(O \cup {x}) = Cardinality(O) + 1
    BY <1>2, FS_AddElement
  <2> QED  BY <1>2, <1>3, <2>1 DEF OpsFine
<1> QED  BY <1>2, <1>3 DEF OpsFine

\* No operation is a fine set of them.
LEMMA NoOps == OpsFine({})
<1>1. IsFiniteSet({}) /\ Cardinality({}) = 0
  BY FS_EmptySet
<1> QED  BY <1>1, FedShape DEF OpsFine

\* A join that is undone.
LEMMA RollingBackFacts ==
  ASSUME NEW q \in Seq(Mem), q # <<>>, NEW r \in Res, ToSet(q) \subseteq Owns[r]
  PROVE  OpType(RollingBack(q)) /\ Touched(RollingBack(q)) = {r} /\ RollingBack(q).kind = "rollback"
<1>1. q[1] \in ToSet(q)
  BY TailSet
<1>2. \A m \in ToSet(q) : ResOf[m] = r
  <2>1. Owns[r] \subseteq Mem
    BY OwnsFacts
  <2> QED  BY <2>1, OwnsFacts
<1>3. RollingBack(q).kind = "rollback" /\ RollingBack(q).todo = q
  BY DEF RollingBack
<1>4. OpType(RollingBack(q))
  BY <1>1, <1>2, <1>3 DEF OpType
<1> QED  BY <1>1, <1>2, <1>3, <1>4, TouchedFacts

\* The types of the data, apart from the operations.
Plain ==
  /\ joined \in [Res -> 0..Versions] /\ pool \in [Mem -> 0..Versions]
  /\ live \in [Res -> {"ok", "suspect", "lost"}]
  /\ net \in [Res -> {"present", "suspect", "lost"}]
  /\ ledger \in [Tasks -> Entry \cup {None}] /\ task \in [Tasks -> TaskRec]
  /\ attached \subseteq Mem /\ ended \subseteq Allocated /\ lapsed \subseteq Tasks /\ raced \subseteq Res
  /\ declared \subseteq Classes /\ made \subseteq Classes
  /\ replayed \in BOOLEAN /\ session \in BOOLEAN

\* The base, by its parts.
LEMMA BaseParts ==
  /\ BasePart => Plain /\ OpsFine(ops) /\ Started
  /\ Plain' /\ OpsFine(ops') /\ Started' => BasePart'
<1>1. BasePart => Plain /\ OpsFine(ops) /\ Started
  BY DEF BasePart, TypeOK, Plain, OpsFine, OpsTyped
<1>2. ASSUME Plain', OpsFine(ops'), Started'
      PROVE  BasePart'
  BY <1>2 DEF BasePart, TypeOK, Plain, OpsFine, OpsTyped
<1> QED  BY <1>1, <1>2

\* The pools of the declared classes, and what their registration leaves.
LEMMA RegisterFacts ==
  ASSUME BasePart, NEW J \in [Res -> 0..Versions]
  PROVE  /\ PoolsOf(J) \subseteq Classes
         /\ Materialised(J) \in [Mem -> 0..Versions]
         /\ \A m \in Mem : J[ResOf[m]] # 0 => ClassOf[m] \in PoolsOf(J)
         /\ Register(J) => /\ session' /\ session' \in BOOLEAN /\ made' \subseteq Classes /\ declared' \subseteq Classes
                           /\ made \subseteq made' /\ PoolsOf(J) \subseteq made'
<1>1. /\ pool \in [Mem -> 0..Versions] /\ made \subseteq Classes
  BY DEF BasePart, TypeOK
<1>2. PoolsOf(J) \subseteq Classes
  BY FedShape DEF PoolsOf
<1>3. Materialised(J) \in [Mem -> 0..Versions]
  <2>1. ASSUME NEW m \in Mem
        PROVE  Materialised(J)[m] \in 0..Versions
    <3>1. Materialised(J)[m] = IF ClassOf[m] \in made \/ J[ResOf[m]] = 0 THEN pool[m] ELSE Decl(m, J[ResOf[m]])
      BY DEF Materialised
    <3>2. pool[m] \in 0..Versions /\ ResOf[m] \in Res /\ J[ResOf[m]] \in 0..Versions
      BY <1>1, OwnsFacts
    <3>3. J[ResOf[m]] # 0 => Decl(m, J[ResOf[m]]) \in 0..Versions
      <4>1. J[ResOf[m]] # 0 => J[ResOf[m]] \in 1..Versions
        BY <3>2
      <4> QED  BY <4>1, DeclFacts
    <3> QED  BY <3>1, <3>2, <3>3
  <2> QED  BY <2>1 DEF Materialised
<1>4. \A m \in Mem : J[ResOf[m]] # 0 => ClassOf[m] \in PoolsOf(J)
  BY DEF PoolsOf
<1>5. Register(J) => /\ session' /\ session' \in BOOLEAN /\ made' \subseteq Classes /\ declared' \subseteq Classes
                     /\ made \subseteq made' /\ PoolsOf(J) \subseteq made'
  BY <1>1, <1>2 DEF Register
<1> QED  BY <1>2, <1>3, <1>4, <1>5

-----------------------------------------------------------------------------
(* Tasks. *)

\* How the federation's calls change a task's record.
TaskMove(a, b) ==
  /\ b \in TaskRec
  /\ b.st = "RUNNING" => a.st = "RUNNING" /\ b.member = a.member
  /\ (a.st \in {"NONE", "QUEUED"} => a.member = None) => (b.st \in {"NONE", "QUEUED"} => b.member = None)
  /\ a.st # "NONE" => b.st # "NONE"
  /\ a.st \in Final => b.st \in Final
  /\ b.st \in {"QUEUED", "RUNNING"} => a.st \in {"QUEUED", "RUNNING"}
Moved(T) == T \in [Tasks -> TaskRec] /\ \A t \in Tasks : TaskMove(task[t], T[t])

\* The ways a record changes.
LEMMA MoveFacts ==
  ASSUME NEW a \in TaskRec
  PROVE  /\ TaskMove(a, a)
         /\ TaskMove(a, [a EXCEPT !.st = "FAILED"]) /\ [a EXCEPT !.st = "FAILED"].st = "FAILED"
         /\ a.st \notin Final => TaskMove(a, [a EXCEPT !.st = "CANCELED"])
         /\ [a EXCEPT !.st = "CANCELED"].st = "CANCELED"
         /\ a.st = "RUNNING" => TaskMove(a, [a EXCEPT !.st = "QUEUED", !.member = None])
         /\ [a EXCEPT !.st = "QUEUED", !.member = None].st = "QUEUED"
         /\ \A b, c : TaskMove(a, b) /\ TaskMove(b, c) => TaskMove(a, c)
<1>1. TaskMove(a, a)
  BY DEF TaskMove
<1>2. ASSUME NEW s \in {"FAILED", "CANCELED"}
      PROVE  TaskMove(a, [a EXCEPT !.st = s]) /\ [a EXCEPT !.st = s].st = s
  BY DEF TaskMove, TaskRec, Final
<1>3. ASSUME a.st = "RUNNING"
      PROVE  TaskMove(a, [a EXCEPT !.st = "QUEUED", !.member = None])
  BY <1>3 DEF TaskMove, TaskRec, Final
<1>4. [a EXCEPT !.st = "QUEUED", !.member = None].st = "QUEUED"
  BY DEF TaskRec
<1>5. ASSUME NEW b, NEW c, TaskMove(a, b), TaskMove(b, c)
      PROVE  TaskMove(a, c)
  BY <1>5 DEF TaskMove
<1> QED  BY <1>1, <1>2, <1>3, <1>4, <1>5

\* No call at all.
LEMMA TasksStay ==
  ASSUME task \in [Tasks -> TaskRec]
  PROVE  Moved(task)
BY MoveFacts DEF Moved

\* The calls themselves: they move records, and leave nothing running on the
\* members they are about.
LEMMA CallFacts ==
  ASSUME task \in [Tasks -> TaskRec], NEW T, Moved(T)
  PROVE  /\ \A S : Moved(Requeued(S)) /\ \A t \in Tasks : Requeued(S)[t].st = "RUNNING" => Requeued(S)[t].member \notin S
         /\ \A m, s : Moved(Drained(m, s)) /\ \A t \in Tasks : Drained(m, s)[t].st = "RUNNING" => Drained(m, s)[t].member # m
         /\ \A m : Moved(Failed(T, m)) /\ \A t \in Tasks : Failed(T, m)[t].st = "RUNNING" =>
                                            T[t].st = "RUNNING" /\ T[t].member = Failed(T, m)[t].member
         /\ \A S, F : Moved(Cancelled(T, S, F)) /\ \A t \in Tasks :
              /\ t \in S \ F => Cancelled(T, S, F)[t].st \in Final
              /\ Cancelled(T, S, F)[t].st = "RUNNING" => T[t].st = "RUNNING" /\ T[t].member = Cancelled(T, S, F)[t].member
<1>2. ASSUME NEW S
      PROVE  Moved(Requeued(S)) /\ \A t \in Tasks : Requeued(S)[t].st = "RUNNING" => Requeued(S)[t].member \notin S
  <2>1. ASSUME NEW t \in Tasks
        PROVE  TaskMove(task[t], Requeued(S)[t]) /\ (Requeued(S)[t].st = "RUNNING" => Requeued(S)[t].member \notin S)
    <3>1. PICK a \in TaskRec : a = task[t]
      OBVIOUS
    <3>2. Requeued(S)[t] = IF a.st = "RUNNING" /\ a.member \in S THEN [a EXCEPT !.st = "QUEUED", !.member = None] ELSE a
      BY <3>1 DEF Requeued
    <3>3. CASE a.st = "RUNNING" /\ a.member \in S
      <4>1. PICK b : b = [a EXCEPT !.st = "QUEUED", !.member = None]
        OBVIOUS
      <4>2. TaskMove(a, b) /\ b.st = "QUEUED"
        BY <3>3, <4>1, MoveFacts, Zenon
      <4> QED  BY <3>1, <3>2, <3>3, <4>1, <4>2
    <3>4. CASE ~(a.st = "RUNNING" /\ a.member \in S)
      BY <3>1, <3>2, <3>4, MoveFacts
    <3> QED  BY <3>3, <3>4
  <2>2. Requeued(S) \in [Tasks -> TaskRec]
    <3>1. \A t \in Tasks : Requeued(S)[t] \in TaskRec
      BY <2>1 DEF TaskMove
    <3> QED  BY <3>1 DEF Requeued
  <2> QED  BY <2>1, <2>2 DEF Moved
<1>3. ASSUME NEW m, NEW s
      PROVE  Moved(Drained(m, s)) /\ \A t \in Tasks : Drained(m, s)[t].st = "RUNNING" => Drained(m, s)[t].member # m
  <2>1. PICK R : R = Requeued({m})
    OBVIOUS
  <2>2. Moved(R) /\ \A t \in Tasks : R[t].st = "RUNNING" => R[t].member # m
    BY <1>2, <2>1
  <2>3. ASSUME NEW t \in Tasks
        PROVE  TaskMove(task[t], Drained(m, s)[t]) /\ (Drained(m, s)[t].st = "RUNNING" => Drained(m, s)[t].member # m)
    <3>1. TaskMove(task[t], R[t]) /\ R[t] \in TaskRec /\ task[t] \in TaskRec
      BY <2>2 DEF Moved
    <3>2. Drained(m, s)[t] \in {R[t], [R[t] EXCEPT !.st = "FAILED"]}
      BY <2>1 DEF Drained
    <3>3. PICK f : f = [R[t] EXCEPT !.st = "FAILED"]
      OBVIOUS
    <3>4. TaskMove(R[t], f) /\ f.st = "FAILED"
      BY <3>1, <3>3, MoveFacts, Zenon
    <3>5. TaskMove(task[t], f)
      BY <3>1, <3>4, MoveFacts, Zenon
    <3>6. Drained(m, s)[t] = R[t] \/ Drained(m, s)[t] = f
      BY <3>2, <3>3, Zenon
    <3> QED  BY <2>2, <3>1, <3>4, <3>5, <3>6
  <2>4. Drained(m, s) \in [Tasks -> TaskRec]
    <3>1. \A t \in Tasks : Drained(m, s)[t] \in TaskRec
      BY <2>3 DEF TaskMove
    <3> QED  BY <3>1 DEF Drained
  <2> QED  BY <2>3, <2>4 DEF Moved
<1>4. ASSUME NEW m
      PROVE  Moved(Failed(T, m)) /\ \A t \in Tasks : Failed(T, m)[t].st = "RUNNING" =>
                                            T[t].st = "RUNNING" /\ T[t].member = Failed(T, m)[t].member
  <2>1. ASSUME NEW t \in Tasks
        PROVE  TaskMove(task[t], Failed(T, m)[t]) /\ (Failed(T, m)[t].st = "RUNNING" =>
                  T[t].st = "RUNNING" /\ T[t].member = Failed(T, m)[t].member)
    <3>1. TaskMove(task[t], T[t]) /\ T[t] \in TaskRec /\ task[t] \in TaskRec
      BY DEF Moved
    <3>2. Failed(T, m)[t] \in {T[t], [T[t] EXCEPT !.st = "FAILED"]}
      BY DEF Failed
    <3>3. PICK f : f = [T[t] EXCEPT !.st = "FAILED"]
      OBVIOUS
    <3>4. TaskMove(T[t], f) /\ f.st = "FAILED"
      BY <3>1, <3>3, MoveFacts, Zenon
    <3>5. TaskMove(task[t], f)
      BY <3>1, <3>4, MoveFacts, Zenon
    <3>6. Failed(T, m)[t] = T[t] \/ Failed(T, m)[t] = f
      BY <3>2, <3>3, Zenon
    <3> QED  BY <3>1, <3>4, <3>5, <3>6
  <2>2. Failed(T, m) \in [Tasks -> TaskRec]
    <3>1. \A t \in Tasks : Failed(T, m)[t] \in TaskRec
      BY <2>1 DEF TaskMove
    <3> QED  BY <3>1 DEF Failed
  <2> QED  BY <2>1, <2>2 DEF Moved
<1>5. ASSUME NEW S, NEW F
      PROVE  Moved(Cancelled(T, S, F)) /\ \A t \in Tasks :
              /\ t \in S \ F => Cancelled(T, S, F)[t].st \in Final
              /\ Cancelled(T, S, F)[t].st = "RUNNING" => T[t].st = "RUNNING" /\ T[t].member = Cancelled(T, S, F)[t].member
  <2>1. ASSUME NEW t \in Tasks
        PROVE  /\ TaskMove(task[t], Cancelled(T, S, F)[t])
               /\ t \in S \ F => Cancelled(T, S, F)[t].st \in Final
               /\ Cancelled(T, S, F)[t].st = "RUNNING" => T[t].st = "RUNNING" /\ T[t].member = Cancelled(T, S, F)[t].member
    <3>1. TaskMove(task[t], T[t]) /\ T[t] \in TaskRec /\ task[t] \in TaskRec
      BY DEF Moved
    <3>2. PICK f : f = [T[t] EXCEPT !.st = "CANCELED"]
      OBVIOUS
    <3>3. Cancelled(T, S, F)[t] = IF t \in S \ F /\ T[t].st \notin Final THEN f ELSE T[t]
      BY <3>2 DEF Cancelled
    <3>4. f.st = "CANCELED" /\ (T[t].st \notin Final => TaskMove(T[t], f))
      BY <3>1, <3>2, MoveFacts, Zenon
    <3>5. T[t].st \notin Final => TaskMove(task[t], f)
      BY <3>1, <3>4, MoveFacts, Zenon
    <3> QED  BY <3>1, <3>3, <3>4, <3>5 DEF Final
  <2>2. Cancelled(T, S, F) \in [Tasks -> TaskRec]
    <3>1. \A t \in Tasks : Cancelled(T, S, F)[t] \in TaskRec
      BY <2>1 DEF TaskMove
    <3> QED  BY <3>1 DEF Cancelled
  <2> QED  BY <2>1, <2>2 DEF Moved
<1> QED  BY <1>2, <1>3, <1>4, <1>5

\* Where a task may run.
RunsAt(m) == ResOf[m] \in raced \/ pool[m] # 0 \/ Draining(m) \/ (~replayed /\ joined[ResOf[m]] # 0)

\* How a step that is not about a task's entry changes the ledger.
Kept(t) ==
  /\ ledger'[t] # None =>
       /\ ledger[t] # None /\ ledger'[t].st = ledger[t].st
       /\ ledger'[t].member # None =>
            /\ ledger'[t].member = ledger[t].member /\ ledger'[t].res = ledger[t].res
            /\ joined[ResOf[ledger[t].member]] # 0 => joined'[ResOf[ledger[t].member]] # 0
  /\ ledger[t] # None /\ ledger'[t] = None /\ task'[t].st \in {"QUEUED", "RUNNING"} => t \in lapsed'

\* What the tasks' part says of one task.
TaskAt(t) ==
  /\ task[t].st \in {"NONE", "QUEUED"} => task[t].member = None
  /\ task[t].st = "RUNNING" => task[t].member # None /\ RunsAt(task[t].member)
  /\ ledger[t] # None =>
       /\ task[t].st # "NONE"
       /\ ledger[t].st \in Final => task[t].st \in Final
       /\ ledger[t].member # None => ledger[t].res = ResOf[ledger[t].member]
       /\ ledger[t].st \notin Final /\ ledger[t].member # None =>
            joined[ResOf[ledger[t].member]] # 0 \/ ResOf[ledger[t].member] \in raced
  /\ task[t].st \in {"QUEUED", "RUNNING"} => ledger[t] # None \/ t \in lapsed

\* The tasks' part is about one task at a time.
LEMMA TaskPartAt == TaskPart <=> \A t \in Tasks : TaskAt(t)
<1>1. ASSUME NEW t \in Tasks
      PROVE  TaskSound(t) <=>
        /\ task[t].st \in {"NONE", "QUEUED"} => task[t].member = None
        /\ task[t].st = "RUNNING" => task[t].member # None /\ RunsAt(task[t].member)
        /\ ledger[t] # None =>
             /\ task[t].st # "NONE"
             /\ ledger[t].st \in Final => task[t].st \in Final
             /\ ledger[t].member # None => ledger[t].res = ResOf[ledger[t].member]
  BY Zenon DEF TaskSound, RunsAt
<1> QED  BY <1>1 DEF TaskPart, TaskAt, LiveTaskKnown, PlacedIsJoined

\* The same after a step.
LEMMA TaskPartNext == TaskPart' <=> \A t \in Tasks : TaskAt(t)'
<1>1. (TaskPart <=> \A t \in Tasks : TaskAt(t))'
  BY TaskPartAt, PTL
<1> QED  BY <1>1

\* A step that moves the records and keeps the entries.
LEMMA TasksKept ==
  ASSUME Plain, Plain', TaskPart, Moved(task'), \A t \in Tasks : Kept(t),
         lapsed \subseteq lapsed', raced \subseteq raced',
         \A t \in Tasks, m \in Mem :
           task'[t].st = "RUNNING" /\ task'[t].member = m /\ RunsAt(m) => RunsAt(m)'
  PROVE  TaskPart'
<1> SUFFICES ASSUME NEW t \in Tasks
             PROVE  TaskAt(t)'
  BY TaskPartNext
<1>1. TaskAt(t) /\ Kept(t) /\ TaskMove(task[t], task'[t])
  BY TaskPartAt DEF Moved
<1>2. task[t] \in TaskRec /\ task'[t] \in TaskRec /\ task[t].member \in Mem \cup {None} /\ task'[t].member \in Mem \cup {None}
  BY DEF Plain, TaskRec
<1>3. task'[t].st = "RUNNING" => task'[t].member # None /\ RunsAt(task[t].member)'
  <2> SUFFICES ASSUME task'[t].st = "RUNNING"
               PROVE  task'[t].member # None /\ RunsAt(task[t].member)'
    OBVIOUS
  <2>1. task[t].st = "RUNNING" /\ task'[t].member = task[t].member /\ task[t].member # None /\ RunsAt(task[t].member)
    BY <1>1 DEF TaskMove, TaskAt
  <2>2. PICK m \in Mem : m = task[t].member /\ task'[t].member = m
    BY <1>2, <2>1
  <2>3. RunsAt(m)
    BY <2>1, <2>2
  <2>4. RunsAt(m)'
    BY <2>2, <2>3
  <2> QED  BY <2>1, <2>2, <2>4 DEF RunsAt, Draining
<1>4. (task'[t].st \in {"NONE", "QUEUED"} => task'[t].member = None) /\ (task[t].st # "NONE" => task'[t].st # "NONE")
  BY <1>1 DEF TaskMove, TaskAt
<1>5. ledger'[t] # None =>
       /\ task'[t].st # "NONE"
       /\ ledger'[t].st \in Final => task'[t].st \in Final
       /\ ledger'[t].member # None => ledger'[t].res = ResOf[ledger'[t].member]
       /\ ledger'[t].st \notin Final /\ ledger'[t].member # None =>
            joined'[ResOf[ledger'[t].member]] # 0 \/ ResOf[ledger'[t].member] \in raced'
  <2> SUFFICES ASSUME ledger'[t] # None
               PROVE  /\ task'[t].st # "NONE"
                      /\ ledger'[t].st \in Final => task'[t].st \in Final
                      /\ ledger'[t].member # None => ledger'[t].res = ResOf[ledger'[t].member]
                      /\ ledger'[t].st \notin Final /\ ledger'[t].member # None =>
                           joined'[ResOf[ledger'[t].member]] # 0 \/ ResOf[ledger'[t].member] \in raced'
    OBVIOUS
  <2>1. ledger[t] # None /\ ledger'[t].st = ledger[t].st
    BY <1>1 DEF Kept
  <2>2. task'[t].st # "NONE" /\ (ledger'[t].st \in Final => task'[t].st \in Final)
    BY <1>1, <2>1 DEF TaskAt, TaskMove
  <2>3. ASSUME ledger'[t].member # None
        PROVE  /\ ledger'[t].res = ResOf[ledger'[t].member]
               /\ ledger'[t].st \notin Final => joined'[ResOf[ledger'[t].member]] # 0 \/ ResOf[ledger'[t].member] \in raced'
    BY <1>1, <2>1, <2>3 DEF TaskAt, Kept
  <2> QED  BY <2>2, <2>3
<1>6. task'[t].st \in {"QUEUED", "RUNNING"} => ledger'[t] # None \/ t \in lapsed'
  BY <1>1 DEF TaskAt, TaskMove, Kept
<1> QED  BY <1>3, <1>4, <1>5, <1>6 DEF TaskAt

\* A step that leaves the ledger and the records alone.
LEMMA EntriesStay ==
  ASSUME Plain, ledger' = ledger, \A r \in Res : joined[r] # 0 => joined'[r] # 0
  PROVE  \A t \in Tasks : Kept(t)
<1> SUFFICES ASSUME NEW t \in Tasks
             PROVE  Kept(t)
  OBVIOUS
<1>1. ledger[t] # None => ledger[t].member \in Mem \cup {None}
  BY DEF Plain, Entry
<1>2. ledger[t] # None /\ ledger[t].member # None => ResOf[ledger[t].member] \in Res
  BY <1>1, OwnsFacts
<1> QED  BY <1>2 DEF Kept

\* A record is dropped with its entries: those of tasks that have ended go, and
\* if all of them do, the others are cancelled or let go.
LEMMA EntriesDrop ==
  ASSUME Plain, TaskPart, NEW r \in Res, NEW all \in BOOLEAN, Forget(r, all), Moved(task'),
         \A t \in Tasks : all /\ t \in Mine(r) /\ task'[t].st \in {"QUEUED", "RUNNING"} => t \in lapsed'
  PROVE  /\ \A t \in Tasks : Kept(t)
         /\ joined' \in [Res -> 0..Versions] /\ joined'[r] = 0 /\ \A s \in Res : s # r => joined'[s] = joined[s]
         /\ ledger' \in [Tasks -> Entry \cup {None}]
<1>1. /\ joined \in [Res -> 0..Versions] /\ ledger \in [Tasks -> Entry \cup {None}]
      /\ joined' = [joined EXCEPT ![r] = 0] /\ ledger' = Dropped(r, all)
  BY DEF Plain, Forget
<1>2. joined' \in [Res -> 0..Versions] /\ joined'[r] = 0 /\ \A s \in Res : s # r => joined'[s] = joined[s]
  <2>1. 0 \in 0..Versions
    BY FedShape
  <2> QED  BY <1>1, <2>1
<1>3. ASSUME NEW t \in Tasks
      PROVE  Kept(t) /\ ledger'[t] \in Entry \cup {None}
  <2>1. TaskAt(t) /\ TaskMove(task[t], task'[t])
    BY TaskPartAt DEF Moved
  <2>2. PICK e : e = ledger[t]
    OBVIOUS
  <2>3. e \in Entry \cup {None}
    BY <1>1, <2>2
  <2>4. PICK f : f = [e EXCEPT !.res = None, !.member = None]
    OBVIOUS
  <2>5. ledger'[t] = CASE e = None -> None
                       [] e # None /\ e.res # r -> e
                       [] OTHER -> IF all \/ e.st \in Final THEN None ELSE f
    BY <1>1, <2>2, <2>4 DEF Dropped
  <2>6. CASE e = None
    <3>1. ledger'[t] = None
      BY <2>5, <2>6
    <3> QED  BY <2>2, <2>6, <3>1 DEF Kept
  <2>7. CASE e # None /\ e.res # r
    <3>1. ledger'[t] = e
      BY <2>5, <2>7
    <3>2. e.member \in Mem \cup {None}
      BY <2>3, <2>7 DEF Entry
    <3>3. e.member # None => ResOf[e.member] \in Res /\ ResOf[e.member] # r
      BY <2>1, <2>2, <2>7, <3>2, OwnsFacts DEF TaskAt
    <3>4. e.member # None => joined'[ResOf[e.member]] = joined[ResOf[e.member]]
      BY <1>2, <3>3
    <3> QED  BY <2>2, <2>3, <3>1, <3>4 DEF Kept
  <2>8. CASE e # None /\ e.res = r /\ (all \/ e.st \in Final)
    <3>1. ledger'[t] = None
      BY <2>5, <2>8
    <3>2. task'[t].st \in {"QUEUED", "RUNNING"} => t \in lapsed'
      <4> SUFFICES ASSUME task'[t].st \in {"QUEUED", "RUNNING"}
                   PROVE  t \in lapsed'
        OBVIOUS
      <4>1. task[t].st \notin Final
        BY <2>1 DEF TaskMove, Final
      <4>2. e.st \notin Final
        BY <2>1, <2>2, <2>8, <4>1 DEF TaskAt
      <4>3. t \in Mine(r)
        BY <2>2, <2>8, <4>2 DEF Mine
      <4> QED  BY <2>8, <4>2, <4>3
    <3> QED  BY <3>1, <3>2 DEF Kept
  <2>9. CASE e # None /\ e.res = r /\ ~(all \/ e.st \in Final)
    <3>1. ledger'[t] = f
      BY <2>5, <2>9
    <3>2. f \in Entry /\ f.member = None /\ f.st = e.st /\ f # None
      BY <2>3, <2>4, <2>9, NoneIsNone DEF Entry
    <3> QED  BY <2>2, <2>9, <3>1, <3>2 DEF Kept
  <2> QED  BY <2>6, <2>7, <2>8, <2>9
<1>4. ledger' \in [Tasks -> Entry \cup {None}]
  BY <1>1, <1>3 DEF Dropped
<1> QED  BY <1>2, <1>3, <1>4

-----------------------------------------------------------------------------
(* The base and the resources, operation by operation.  Every operation but *)
(* the pass of a topology change starts or goes on while none is pending.   *)

\* What a joined resource says of the session, and of a member that is not there.
LEMMA NotThere ==
  ASSUME BasePart, replayed, NEW r \in Res, joined[r] # 0, NEW m \in Owns[r], m \notin There
  PROVE  pool[m] = 0
<1>1. session /\ m \in Mem
  BY OwnsFacts DEF BasePart, Started
<1> QED  BY <1>1 DEF There, Present

\* The liveness that topology gives.
LEMMA TargetFacts ==
  ASSUME Plain, NEW r \in Res
  PROVE  /\ Liveness(r) \in {"ok", "suspect", "lost"} /\ (Liveness(r) = "ok" => net[r] = "present")
         /\ Target(r) \in {"ok", "suspect", "lost"} /\ (Target(r) = "ok" => net[r] = "present")
<1>1. net[r] \in {"present", "suspect", "lost"}
  BY DEF Plain
<1>2. Liveness(r) \in {"ok", "suspect", "lost"} /\ (Liveness(r) = "ok" => net[r] = "present")
  BY <1>1 DEF Liveness
<1> QED  BY <1>2 DEF Target

\* Race leaves alone the resources that have raced.
LEMMA RaceFacts ==
  ASSUME Plain, NEW R \in SUBSET Res, Race(R)
  PROVE  /\ raced \subseteq raced' /\ raced' \subseteq Res
         /\ \A r \in R \ raced' : Here(ops, r) = {}
         /\ \A r \in Res \ R : r \in raced' <=> r \in raced
BY HereFacts DEF Race, Busy, Plain

\* JoinStart.
LEMMA JoinStartKeeps ==
  ASSUME BasePart, ResPart, ~Pending, NEW r0 \in Res, NEW v \in 1..Versions, JoinStart(r0, v)
  PROVE  BasePart' /\ ResPart'
<1>1. PICK x : x = Joining(r0, v, "unread")
  OBVIOUS
<1>2. OpType(x) /\ Touched(x) = {r0} /\ x.kind = "join" /\ x.live = "unread"
  BY <1>1, OpFacts
<1>3. /\ Room /\ replayed /\ joined[r0] = 0 /\ ops' = ops \cup {x} /\ Race({r0})
      /\ UNCHANGED <<joined, ledger, live, attached, declared, replayed, net, ended, pool, made, session, task, lapsed>>
  BY <1>1 DEF JoinStart, state, plug, disp
<1>4. Plain /\ raced \subseteq raced' /\ raced' \subseteq Res /\ \A r \in {r0} \ raced' : Here(ops, r) = {}
  BY <1>3, BaseParts, RaceFacts
<1>5. BasePart'
  <2>1. OpsFine(ops')
    BY <1>2, <1>3, OpsStep
  <2>2. Plain'
    BY <1>3, <1>4 DEF Plain
  <2>3. Started'
    BY <1>3 DEF BasePart, Started
  <2> QED  BY <2>1, <2>2, <2>3, BaseParts
<1>6. ASSUME NEW r \in Res \ raced'
      PROVE  ResSound(r)'
  <2>1. ResSound(r) /\ OpsTyped /\ OpsTyped'
    BY <1>4, <1>5, <1>6 DEF ResPart, BasePart
  <2>2. CASE r # r0
    <3>1. Here(ops', r) = Here(ops, r)
      BY <1>2, <1>3, <2>2 DEF Here
    <3>2. Same(r) /\ SameNet(r)
      BY <1>3, <3>1 DEF Same, SameNet
    <3> QED  BY <2>1, <3>2, Untouched
  <2>3. CASE r = r0
    <3>1. Here(ops, r) = {} /\ IdleSound(r)
      BY <1>4, <1>6, <2>1, <2>3, ResIdle
    <3>2. Here(ops', r) = {x}
      BY <1>2, <1>3, <2>3, <3>1 DEF Here
    <3>3. OpSound(x, r)'
      BY <1>2, <1>3, <2>3, <3>1 DEF OpSound, Holds, IdleSound, MembersHere, Declared
    <3> QED  BY <2>1, <3>2, <3>3, ResNext
  <2> QED  BY <2>2, <2>3
<1> QED  BY <1>5, <1>6 DEF ResPart

\* JoinSized.
LEMMA JoinSizedKeeps ==
  ASSUME BasePart, ResPart, ~Pending, NEW o \in ops, JoinSized(o)
  PROVE  BasePart' /\ ResPart'
<1>1. OpType(o) /\ replayed /\ Plain
  BY UnderWay, BaseParts
<1>2. /\ o.kind = "join" /\ o.r \in Res /\ o.v \in 1..Versions /\ Touched(o) = {o.r}
  BY <1>1, TouchedFacts DEF JoinSized, OpType
<1>3. PICK x : x = Joining(o.r, o.v, Liveness(o.r))
  OBVIOUS
<1>4. OpType(x) /\ Touched(x) = {o.r} /\ x.kind = "join" /\ x.live = Liveness(o.r)
  BY <1>1, <1>2, <1>3, OpFacts, TargetFacts
<1>5. /\ ops' = (ops \ {o}) \cup {x}
      /\ UNCHANGED <<joined, ledger, live, attached, declared, replayed, net, ended, pool, made, session, task, lapsed, raced>>
  BY <1>3 DEF JoinSized, state, plug, disp, Replace
<1>6. BasePart'
  <2>1. OpsFine(ops')
    BY <1>4, <1>5, OpsStep
  <2>2. Plain'
    BY <1>1, <1>5 DEF Plain
  <2>3. Started'
    BY <1>1, <1>5 DEF BasePart, Started
  <2> QED  BY <2>1, <2>2, <2>3, BaseParts
<1>7. ASSUME NEW r \in Res \ raced'
      PROVE  ResSound(r)'
  <2>1. ResSound(r) /\ OpsTyped /\ OpsTyped'
    BY <1>5, <1>6, <1>7 DEF ResPart, BasePart
  <2>2. CASE r # o.r
    <3>1. Here(ops', r) = Here(ops, r)
      BY <1>2, <1>4, <1>5, <2>2 DEF Here
    <3>2. Same(r) /\ SameNet(r)
      BY <1>5, <3>1 DEF Same, SameNet
    <3> QED  BY <2>1, <3>2, Untouched
  <2>3. CASE r = o.r
    <3>1. o \in Here(ops, r)
      BY <1>2, <2>3 DEF Here
    <3>2. Here(ops, r) = {o} /\ OpSound(o, r)
      BY <2>1, <3>1, ResAny
    <3>3. Here(ops', r) = {x}
      BY <1>4, <1>5, <2>3, <3>2 DEF Here
    <3>4. joined[r] = 0 /\ MembersHere(r) /\ \A m \in Owns[r] : m \notin attached
      BY <1>2, <3>2 DEF OpSound, Holds, Declared
    <3>5. OpSound(x, r)'
      BY <1>1, <1>4, <1>5, <2>3, <3>4, TargetFacts DEF OpSound, Holds, MembersHere
    <3> QED  BY <2>1, <3>3, <3>5, ResNext
  <2> QED  BY <2>2, <2>3
<1> QED  BY <1>6, <1>7 DEF ResPart

\* A step that leaves the tasks and what they run on alone.
LEMMA TasksAlone ==
  ASSUME Plain, Plain', TaskPart, UNCHANGED <<task, ledger, joined, pool, replayed, lapsed>>,
         raced \subseteq raced', \A m \in Mem : Draining(m) => Draining(m)'
  PROVE  TaskPart'
<1>1. Moved(task')
  <2>1. Moved(task)
    BY TasksStay DEF Plain
  <2> QED  BY <2>1 DEF Moved
<1>2. \A t \in Tasks : Kept(t)
  BY EntriesStay
<1>3. \A m \in Mem : RunsAt(m) => RunsAt(m)'
  BY DEF RunsAt
<1> QED  BY <1>1, <1>2, <1>3, TasksKept

\* An operation that drains nothing comes or goes.
LEMMA DrainKept ==
  ASSUME \E o : o.kind \notin {"leave", "sync"} /\ ops \ {o} \subseteq ops'
  PROVE  \A m \in Mem : Draining(m) => Draining(m)'
BY DEF Draining

\* A proper prefix of a sequence.
LEMMA PrefixFacts ==
  ASSUME NEW S, NEW q \in Seq(S), NEW k \in 1..Len(q)
  PROVE  /\ SubSeq(q, 1, k - 1) \in Seq(S) /\ ToSet(SubSeq(q, 1, k - 1)) \subseteq ToSet(q)
         /\ ToSet(SubSeq(q, 1, k - 1)) # {} => SubSeq(q, 1, k - 1) # <<>>
<1>1. Len(q) \in Nat /\ k \in Nat /\ k >= 1 /\ k <= Len(q)
  OBVIOUS
<1>2. PICK a : a = SubSeq(q, 1, k - 1)
  OBVIOUS
<1>3. a \in Seq(S)
  BY <1>1, <1>2
<1>4. \A y \in ToSet(a) : \E i \in 1..Len(a) : y = a[i]
  BY <1>3, ToSetFacts
<1>5. Before(q, k) = ToSet(a)
  BY <1>1, <1>2 DEF Before
<1>6. ToSet(a) \subseteq ToSet(q)
  BY <1>5, FromFacts
<1>7. ToSet(a) # {} => a # <<>>
  BY <1>3, <1>4
<1> QED  BY <1>2, <1>3, <1>6, <1>7

\* The members that a refused join has added.
LEMMA AddedFacts ==
  ASSUME NEW r \in Res, NEW k \in 1..Len(Order[r]), NEW a, a = SubSeq(Order[r], 1, k - 1)
  PROVE  a \in Seq(Mem) /\ ToSet(a) \subseteq Owns[r] /\ (ToSet(a) # {} => a # <<>>)
<1>1. PICK q \in Seq(Mem) : q = Order[r] /\ ToSet(q) = Owns[r]
  BY FedShape, OwnsFacts
<1>2. k \in 1..Len(q) /\ a = SubSeq(q, 1, k - 1)
  BY <1>1
<1>3. a \in Seq(Mem) /\ ToSet(a) \subseteq ToSet(q) /\ (ToSet(a) # {} => a # <<>>)
  BY <1>2, PrefixFacts, Zenon
<1> QED  BY <1>1, <1>3, Zenon

\* JoinFinish: a resource that has not raced is not refused, for its members are
\* in no pool.
LEMMA JoinFinishKeeps ==
  ASSUME BasePart, ResPart, TaskPart, ~Pending, NEW o \in ops, JoinFinish(o)
  PROVE  BasePart' /\ ResPart' /\ TaskPart'
<1>1. OpType(o) /\ replayed /\ Plain
  BY UnderWay, BaseParts
<1>2. PICK r0 \in Res, v \in 1..Versions :
        /\ r0 = o.r /\ v = o.v /\ o.kind = "join" /\ Touched(o) = {r0}
        /\ o.live \in {"unread", "ok", "suspect", "lost"}
  BY <1>1, TouchedFacts DEF JoinFinish, OpType
<1>3. PICK J : J = [joined EXCEPT ![r0] = v]
  OBVIOUS
<1>4. PICK P : P = Materialised(J)
  OBVIOUS
<1>5. PICK C : C = {m \in Mem : Clash(P, m, v)}
  OBVIOUS
<1>6. PICK k : k = FirstIn(Order[r0], C)
  OBVIOUS
<1>7. PICK a : a = SubSeq(Order[r0], 1, k - 1)
  OBVIOUS
<1>8. /\ Register(J)
      /\ \/ /\ k = 0
            /\ pool' = [m \in Mem |-> IF m \in Owns[r0] THEN Decl(m, v) ELSE P[m]]
            /\ joined' = J /\ attached' = attached \cup Owns[r0]
            /\ live' = [live EXCEPT ![r0] = IF o.live = "unread" THEN Liveness(r0) ELSE o.live]
            /\ ended' = ended \ Owns[r0]
            /\ ops' = ops \ {o}
         \/ /\ k # 0
            /\ pool' = [m \in Mem |-> IF m \in ToSet(a) THEN (IF m = Order[r0][1] THEN 0 ELSE Decl(m, v))
                                      ELSE P[m]]
            /\ ops' = (ops \ {o}) \cup (IF ToSet(a) = {} THEN {} ELSE {RollingBack(a)})
            /\ UNCHANGED <<joined, attached, live, ended>>
      /\ UNCHANGED <<ledger, replayed, net, task, lapsed, raced>>
  <2>1. JoinFinish(o)
    OBVIOUS
  <2> QED  BY <1>2, <1>3, <1>4, <1>5, <1>6, <1>7, <2>1, Zenon DEF JoinFinish, Replace
<1>9. J \in [Res -> 0..Versions] /\ J[r0] = v /\ v # 0 /\ \A s \in Res : s # r0 => J[s] = joined[s]
  BY <1>1, <1>3 DEF Plain
<1>10. /\ P \in [Mem -> 0..Versions]
       /\ session' /\ session' \in BOOLEAN /\ made' \subseteq Classes /\ declared' \subseteq Classes /\ made \subseteq made'
       /\ \A m \in Mem : J[ResOf[m]] # 0 => ClassOf[m] \in made'
  BY <1>4, <1>8, <1>9, RegisterFacts
<1>11. \A m \in Mem : /\ ResOf[m] # r0 => P[m] = pool[m]
                      /\ ResOf[m] = r0 => P[m] \in {pool[m], Decl(m, v)}
  BY <1>3, <1>4, MaterialisedFacts
<1>12. /\ k = 0 \/ (k \in 1..Len(Order[r0]) /\ Order[r0][k] \in C /\ Order[r0][k] \in Owns[r0])
  <2>1. Order[r0] \in Seq(Owns[r0])
    BY OwnsFacts
  <2> QED  BY <1>6, <2>1, FirstInFacts
<1>13. /\ r0 \notin raced => k = 0 /\ Here(ops, r0) = {o} /\ (o.live = "ok" => net[r0] = "present")
  <2> SUFFICES ASSUME r0 \notin raced
               PROVE  k = 0 /\ Here(ops, r0) = {o} /\ (o.live = "ok" => net[r0] = "present")
    OBVIOUS
  <2>1. o \in Here(ops, r0)
    BY <1>2 DEF Here
  <2>2. Here(ops, r0) = {o} /\ OpSound(o, r0)
    <3>1. ResSound(r0) /\ OpsTyped
      BY DEF ResPart, BasePart
    <3> QED  BY <2>1, <3>1, ResAny
  <2>3. joined[r0] = 0 /\ MembersHere(r0) /\ (o.live = "ok" => net[r0] = "present")
    BY <1>2, <2>2 DEF OpSound, Holds
  <2>4. ASSUME k # 0
        PROVE  FALSE
    <3>1. PICK m \in Owns[r0] : m \in C
      BY <1>12, <2>4
    <3>2. m \in Mem /\ ResOf[m] = r0 /\ pool[m] = 0
      BY <2>3, OwnsFacts DEF MembersHere
    <3>3. P[m] \in {0, Decl(m, v)}
      BY <1>11, <3>2
    <3> QED  BY <1>5, <3>1, <3>3 DEF Clash
  <2> QED  BY <2>2, <2>3, <2>4
<1>14. OpsFine(ops') /\ \A r \in Res : r # r0 => Here(ops', r) = Here(ops, r)
  <2>1. ASSUME k # 0, ToSet(a) # {}
        PROVE  OpType(RollingBack(a)) /\ Touched(RollingBack(a)) = {r0}
    <3>1. a \in Seq(Mem) /\ ToSet(a) \subseteq Owns[r0] /\ a # <<>>
      BY <1>7, <1>12, <2>1, AddedFacts
    <3> QED  BY <3>1, RollingBackFacts
  <2>2. CASE ops' = ops \ {o}
    <3>1. OpsFine(ops \ {o})
      BY OpsStep
    <3> QED  BY <1>2, <2>2, <3>1 DEF Here
  <2>3. CASE k # 0 /\ ToSet(a) # {} /\ ops' = (ops \ {o}) \cup {RollingBack(a)}
    <3>1. OpsFine((ops \ {o}) \cup {RollingBack(a)})
      BY <2>1, <2>3, OpsStep
    <3> QED  BY <1>2, <2>1, <2>3, <3>1 DEF Here
  <2> QED  BY <1>8, <2>2, <2>3
<1>15. \A m \in Mem : /\ pool'[m] \in 0..Versions
                      /\ ResOf[m] # r0 => pool'[m] = pool[m]
                      /\ k = 0 /\ ResOf[m] = r0 => pool'[m] = Decl(m, v)
  <2> SUFFICES ASSUME NEW m \in Mem
               PROVE  /\ pool'[m] \in 0..Versions
                      /\ ResOf[m] # r0 => pool'[m] = pool[m]
                      /\ k = 0 /\ ResOf[m] = r0 => pool'[m] = Decl(m, v)
    OBVIOUS
  <2>1. Decl(m, v) \in 0..Versions /\ P[m] \in 0..Versions /\ 0 \in 0..Versions
    <3>1. Decl(m, v) \in 0..Versions
      BY DeclFacts
    <3>2. Versions \in Nat
      BY FedShape
    <3> QED  BY <1>10, <3>1, <3>2
  <2>2. m \in Owns[r0] <=> ResOf[m] = r0
    BY OwnsFacts
  <2>3. CASE k = 0
    BY <1>8, <1>11, <2>1, <2>2, <2>3
  <2>4. CASE k # 0
    <3>1. m \in ToSet(a) => m \in Owns[r0]
      BY <1>7, <1>12, <2>4, AddedFacts
    <3> QED  BY <1>8, <1>11, <2>1, <2>2, <2>4, <3>1
  <2> QED  BY <2>3, <2>4
<1>16. BasePart'
  <2>1. pool' \in [Mem -> 0..Versions]
    BY <1>8, <1>15
  <2>2. joined' \in [Res -> 0..Versions] /\ attached' \subseteq Mem /\ ended' \subseteq Allocated
    BY <1>1, <1>8, <1>9, OwnsFacts DEF Plain
  <2>3. live' \in [Res -> {"ok", "suspect", "lost"}]
    BY <1>1, <1>2, <1>8, TargetFacts DEF Plain
  <2>4. Plain'
    BY <1>1, <1>8, <1>10, <2>1, <2>2, <2>3 DEF Plain
  <2>5. \A m \in Mem : joined'[ResOf[m]] # 0 => ClassOf[m] \in made'
    <3>1. \A m \in Mem : joined[ResOf[m]] # 0 => ClassOf[m] \in made
      BY DEF BasePart, Started
    <3> QED  BY <1>8, <1>10, <3>1
  <2>6. Started'
    BY <1>1, <1>8, <1>10, <2>5 DEF Started
  <2> QED  BY <1>14, <2>4, <2>6, BaseParts
<1>17. ASSUME NEW r \in Res \ raced'
       PROVE  ResSound(r)'
  <2>1. ResSound(r) /\ OpsTyped /\ OpsTyped' /\ r \notin raced
    BY <1>8, <1>16, <1>17 DEF ResPart, BasePart
  <2>2. CASE r # r0
    <3>1. \A m \in Owns[r] : m \in Mem /\ ResOf[m] = r /\ m \notin Owns[r0]
      BY <2>2, OwnsFacts
    <3>2. joined'[r] = joined[r] /\ live'[r] = live[r] /\ \A m \in Owns[r] : m \in attached' <=> m \in attached
      BY <1>1, <1>8, <1>9, <2>2, <3>1 DEF Plain
    <3>3. \A m \in Owns[r] : pool'[m] = pool[m]
      BY <1>15, <2>2, <3>1
    <3>4. Same(r) /\ SameNet(r)
      BY <1>8, <1>14, <2>2, <3>2, <3>3 DEF Same, SameNet
    <3> QED  BY <2>1, <3>4, Untouched
  <2>3. CASE r = r0
    <3>1. k = 0 /\ Here(ops, r) = {o} /\ (o.live = "ok" => net[r] = "present")
      BY <1>13, <2>1, <2>3
    <3>2. Here(ops', r) = {}
      BY <1>8, <3>1 DEF Here
    <3>3. \A m \in Owns[r] : m \in Mem /\ ResOf[m] = r
      BY OwnsFacts
    <3>4. joined'[r] # 0 /\ \A m \in Owns[r] : m \in attached' /\ pool'[m] = Decl(m, joined'[r])
      BY <1>8, <1>9, <1>15, <2>3, <3>1, <3>3
    <3>5. live'[r] = "ok" => net'[r] = "present"
      BY <1>1, <1>8, <2>3, <3>1, TargetFacts DEF Plain
    <3>6. IdleSound(r)'
      BY <3>4, <3>5 DEF IdleSound, MembersHere, Declared
    <3> QED  BY <2>1, <3>2, <3>6, ResNext
  <2> QED  BY <2>2, <2>3
<1>18. TaskPart'
  <2>1. Moved(task')
    <3>1. Moved(task)
      BY <1>1, TasksStay DEF Plain
    <3> QED  BY <1>8, <3>1 DEF Moved
  <2>2. \A t \in Tasks : Kept(t)
    <3>1. \A r \in Res : joined[r] # 0 => joined'[r] # 0
      BY <1>8, <1>9
    <3> QED  BY <1>1, <1>8, <3>1, EntriesStay
  <2>3. \A m \in Mem : Draining(m) => Draining(m)'
    BY <1>2, <1>8, DrainKept
  <2>4. ASSUME NEW m \in Mem, RunsAt(m)
        PROVE  RunsAt(m)'
    <3>1. ResOf[m] # r0 => joined'[ResOf[m]] = joined[ResOf[m]]
      BY <1>8, <1>9, OwnsFacts
    <3>2. k = 0 /\ ResOf[m] = r0 => pool'[m] # 0
      BY <1>15, DeclFacts
    <3> QED  BY <1>1, <1>8, <1>13, <1>15, <2>3, <2>4, <3>1, <3>2 DEF RunsAt
  <2>5. Plain /\ Plain' /\ lapsed \subseteq lapsed' /\ raced \subseteq raced'
    BY <1>1, <1>8, <1>16 DEF BasePart, TypeOK, Plain
  <2> QED  BY <2>1, <2>2, <2>4, <2>5, TasksKept
<1> QED  BY <1>16, <1>17, <1>18 DEF ResPart

\* Rollback: only a resource that has raced is rolled back.
LEMMA RollbackKeeps ==
  ASSUME BasePart, ResPart, TaskPart, ~Pending, NEW o \in ops, Rollback(o)
  PROVE  BasePart' /\ ResPart' /\ TaskPart'
<1>1. OpType(o) /\ replayed /\ Plain /\ o.kind = "rollback"
  BY UnderWay, BaseParts DEF Rollback
<1>2. PICK q \in Seq(Mem) : q = o.todo /\ q # <<>> /\ \A m \in ToSet(q) : ResOf[m] = ResOf[q[1]]
  BY <1>1 DEF OpType
<1>3. PICK r0 \in Res : r0 = ResOf[q[1]] /\ Touched(o) = {r0}
  BY <1>1, <1>2, TouchedFacts
<1>4. PICK rest : rest = Tail(q)
  OBVIOUS
<1>5. rest \in Seq(Mem) /\ ToSet(rest) \subseteq ToSet(q)
  BY <1>2, <1>4, TailSet
<1>6. PICK i : i = FirstIn(rest, There)
  OBVIOUS
<1>7. i # 0 => /\ i \in 1..Len(rest) /\ rest[i] \in Mem /\ rest[i] \in ToSet(rest)
               /\ From(rest, i) \in Seq(Mem) /\ From(rest, i) # <<>> /\ ToSet(From(rest, i)) \subseteq ToSet(rest)
  BY <1>5, <1>6, FirstInFacts, ToSetFacts
<1>8. \A m \in ToSet(rest) : m \in Mem /\ ResOf[m] = r0 /\ m \in Owns[r0]
  BY <1>2, <1>3, <1>5, ToSetFacts, OwnsFacts
<1>9. /\ task' = Drained(Head(q), TRUE)
      /\ \/ i = 0 /\ pool' = pool /\ ops' = ops \ {o}
         \/ i # 0 /\ pool' = [pool EXCEPT ![rest[i]] = 0] /\ ops' = (ops \ {o}) \cup {RollingBack(From(rest, i))}
      /\ UNCHANGED <<joined, ledger, live, attached, declared, replayed, net, ended, made, session, lapsed, raced>>
  <2>1. Rollback(o)
    OBVIOUS
  <2> QED  BY <1>2, <1>4, <1>6, <2>1 DEF Rollback, Replace, state, plug
<1>10. r0 \in raced
  <2> SUFFICES ASSUME r0 \notin raced
               PROVE  FALSE
    OBVIOUS
  <2>1. ResSound(r0)
    BY DEF ResPart
  <2>2. Holds(o, r0)
    BY <1>3, <2>1 DEF ResSound
  <2> QED  BY <1>1, <2>2 DEF Holds
<1>11. OpsFine(ops') /\ \A r \in Res : r # r0 => Here(ops', r) = Here(ops, r)
  <2>1. CASE ops' = ops \ {o}
    <3>1. OpsFine(ops \ {o})
      BY OpsStep
    <3> QED  BY <1>3, <2>1, <3>1 DEF Here
  <2>2. CASE i # 0 /\ ops' = (ops \ {o}) \cup {RollingBack(From(rest, i))}
    <3>1. ToSet(From(rest, i)) \subseteq Owns[r0]
      BY <1>7, <1>8, <2>2
    <3>2. PICK x : x = RollingBack(From(rest, i))
      OBVIOUS
    <3>3. OpType(x) /\ Touched(x) = {r0}
      BY <1>7, <2>2, <3>1, <3>2, RollingBackFacts
    <3>4. OpsFine((ops \ {o}) \cup {x})
      BY <3>3, OpsStep
    <3> QED  BY <1>3, <2>2, <3>2, <3>3, <3>4 DEF Here
  <2> QED  BY <1>9, <2>1, <2>2
<1>12. pool' \in [Mem -> 0..Versions] /\ \A m \in Mem : ResOf[m] # r0 => pool'[m] = pool[m]
  <2>1. pool \in [Mem -> 0..Versions] /\ Versions \in Nat
    BY <1>1, FedShape DEF Plain
  <2> QED  BY <1>7, <1>8, <1>9, <2>1
<1>13. Moved(task') /\ task' \in [Tasks -> TaskRec]
  <2>1. Moved(task)
    BY <1>1, TasksStay DEF Plain
  <2>2. Moved(Drained(Head(q), TRUE))
    BY <1>1, <2>1, CallFacts DEF Plain
  <2> QED  BY <1>9, <2>2 DEF Moved
<1>14. BasePart'
  <2>1. Plain'
    BY <1>1, <1>9, <1>12, <1>13 DEF Plain
  <2>2. Started'
    BY <1>1, <1>9 DEF BasePart, Started
  <2> QED  BY <1>11, <2>1, <2>2, BaseParts
<1>15. ASSUME NEW r \in Res \ raced'
       PROVE  ResSound(r)'
  <2>1. ResSound(r) /\ OpsTyped /\ OpsTyped' /\ r # r0
    BY <1>9, <1>10, <1>14, <1>15 DEF ResPart, BasePart
  <2>2. \A m \in Owns[r] : m \in Mem /\ ResOf[m] = r
    BY OwnsFacts
  <2>3. Same(r) /\ SameNet(r)
    BY <1>9, <1>11, <1>12, <2>1, <2>2 DEF Same, SameNet
  <2> QED  BY <2>1, <2>3, Untouched
<1>16. TaskPart'
  <2>1. \A t \in Tasks : Kept(t)
    BY <1>1, <1>9, EntriesStay
  <2>2. \A m \in Mem : Draining(m) => Draining(m)'
    BY <1>1, <1>9, DrainKept
  <2>3. \A m \in Mem : RunsAt(m) => RunsAt(m)'
    BY <1>1, <1>9, <1>10, <1>12, <2>2 DEF RunsAt
  <2>4. Plain' /\ lapsed \subseteq lapsed' /\ raced \subseteq raced'
    BY <1>9, <1>14 DEF BasePart, TypeOK, Plain
  <2> QED  BY <1>1, <1>13, <2>1, <2>3, <2>4, TasksKept
<1> QED  BY <1>14, <1>15, <1>16 DEF ResPart

\* One step of a leave, whether it starts or goes on: what it has not taken out
\* yet is still to be done, and what it has is in no pool.
LeaveStep(O, r0, cancel, gone, todo, T) ==
  /\ replayed /\ gone \subseteq Owns[r0] /\ todo \in Seq(Owns[r0])
  /\ LeaveOn(O, r0, cancel, gone, todo, T)
  /\ (O = ops /\ Room) \/ (\E o \in ops : O = ops \ {o} /\ Touched(o) = {r0})
  /\ raced \subseteq raced' /\ raced' \subseteq Res
  /\ Moved(T) /\ \A t \in Tasks : T[t].st = "RUNNING" => T[t].member \notin gone
  /\ \A m \in Mem : Draining(m) => m \in gone \/ \E p \in O : p.kind \in {"leave", "sync"} /\ p.todo[1] = m
  /\ r0 \notin raced' =>
       /\ Here(O, r0) = {} /\ joined[r0] # 0 /\ (live[r0] = "ok" => net[r0] = "present")
       /\ \A m \in Owns[r0] : /\ m \notin ToSet(todo) => pool[m] = 0
                              /\ m \in attached => m \in gone \cup ToSet(todo)

\* It keeps the invariant.
LEMMA LeaveOnKeeps ==
  ASSUME BasePart, ResPart, TaskPart, ~Pending,
         NEW r0 \in Res, NEW cancel \in BOOLEAN, NEW O, NEW gone, NEW todo, NEW T,
         LeaveStep(O, r0, cancel, gone, todo, T)
  PROVE  BasePart' /\ ResPart' /\ TaskPart'
<1>0. /\ replayed /\ gone \subseteq Owns[r0] /\ todo \in Seq(Owns[r0])
      /\ LeaveOn(O, r0, cancel, gone, todo, T)
      /\ (O = ops /\ Room) \/ (\E o \in ops : O = ops \ {o} /\ Touched(o) = {r0})
      /\ raced \subseteq raced' /\ raced' \subseteq Res
      /\ Moved(T) /\ \A t \in Tasks : T[t].st = "RUNNING" => T[t].member \notin gone
      /\ \A m \in Mem : Draining(m) => m \in gone \/ \E p \in O : p.kind \in {"leave", "sync"} /\ p.todo[1] = m
      /\ r0 \notin raced' =>
           /\ Here(O, r0) = {} /\ joined[r0] # 0 /\ (live[r0] = "ok" => net[r0] = "present")
           /\ \A m \in Owns[r0] : /\ m \notin ToSet(todo) => pool[m] = 0
                                  /\ m \in attached => m \in gone \cup ToSet(todo)
  BY DEF LeaveStep
<1> USE <1>0
<1>1. Plain /\ Owns[r0] \subseteq Mem
  BY BaseParts, OwnsFacts
<1>2. PICK i : i = FirstIn(todo, There)
  OBVIOUS
<1>3. PICK B : B = Before(todo, i)
  OBVIOUS
<1>4. PICK F : F = From(todo, i)
  OBVIOUS
<1>5. PICK work : work = IF cancel THEN Mine(r0) ELSE {}
  OBVIOUS
<1>6. /\ ToSet(todo) \subseteq Owns[r0] /\ B \subseteq ToSet(todo) /\ \A m \in B : m \notin There
      /\ i = 0 => B = ToSet(todo)
      /\ i # 0 => /\ i \in 1..Len(todo) /\ todo[i] \in Owns[r0] /\ F \in Seq(Owns[r0]) /\ F # <<>>
                  /\ F[1] = todo[i] /\ ToSet(todo) = B \cup ToSet(F)
  BY <1>2, <1>3, <1>4, FirstInFacts, ToSetFacts
<1>7. PICK x, y : x = Leaving(r0, cancel, F) /\ y = Cancelling(r0, work)
  OBVIOUS
<1>8. /\ i # 0 => OpType(x) /\ Touched(x) = {r0} /\ x.kind = "leave" /\ x.todo = F
      /\ OpType(y) /\ Touched(y) = {r0} /\ y.kind = "cancel"
  <2>1. i # 0 => OpType(x) /\ Touched(x) = {r0} /\ x.kind = "leave" /\ x.todo = F
    BY <1>6, <1>7, OpFacts
  <2>2. work \in SUBSET Tasks
    BY <1>5 DEF Mine
  <2>3. OpType(y) /\ Touched(y) = {r0} /\ y.kind = "cancel"
    BY <1>7, <2>2, OpFacts
  <2> QED  BY <2>1, <2>3
<1>9. /\ attached' = attached \ (gone \cup B)
      /\ \/ /\ i # 0 /\ pool' = [pool EXCEPT ![todo[i]] = 0]
            /\ task' = T \/ task' = Failed(T, todo[i])
            /\ ops' = O \cup {x} /\ UNCHANGED <<joined, ledger>>
         \/ i = 0 /\ task' = T /\ ops' = O \cup {y} /\ UNCHANGED <<joined, ledger, pool>>
         \/ i = 0 /\ task' = Cancelled(T, work, {}) /\ Forget(r0, cancel) /\ ops' = O /\ pool' = pool
      /\ UNCHANGED <<live, declared, replayed, net, ended, made, session, lapsed>>
  <2>1. LeaveOn(O, r0, cancel, gone, todo, T)
    OBVIOUS
  <2> QED  BY <1>2, <1>3, <1>4, <1>5, <1>7, <2>1 DEF LeaveOn, state
<1>10. OpsFine(ops') /\ \A r \in Res : r # r0 => Here(ops', r) = Here(ops, r)
  <2>1. OpsFine(O) /\ \A z : OpType(z) => OpsFine(O \cup {z})
    BY OpsStep
  <2>2. \A r \in Res : r # r0 => Here(O, r) = Here(ops, r)
    BY DEF Here
  <2>3. CASE i # 0 /\ ops' = O \cup {x}
    BY <1>8, <2>1, <2>2, <2>3 DEF Here
  <2>4. CASE ops' = O \cup {y}
    BY <1>8, <2>1, <2>2, <2>4 DEF Here
  <2>5. CASE ops' = O
    BY <2>1, <2>2, <2>5
  <2> QED  BY <1>9, <2>3, <2>4, <2>5
<1>11. /\ pool' \in [Mem -> 0..Versions]
       /\ \A m \in Mem : pool'[m] = IF i # 0 /\ m = todo[i] THEN 0 ELSE pool[m]
  <2>1. pool \in [Mem -> 0..Versions] /\ Versions \in Nat
    BY <1>1, FedShape DEF Plain
  <2> QED  BY <1>1, <1>6, <1>9, <2>1
<1>12. /\ Moved(task') /\ task' \in [Tasks -> TaskRec]
       /\ \A t \in Tasks : task'[t].st = "RUNNING" => T[t].st = "RUNNING" /\ T[t].member = task'[t].member
       /\ i = 0 /\ Forget(r0, cancel) /\ task' = Cancelled(T, work, {}) => \A t \in work \cap Tasks : task'[t].st \in Final
  <2>1. task \in [Tasks -> TaskRec]
    BY <1>1 DEF Plain
  <2>2. /\ \A m : Moved(Failed(T, m)) /\ \A t \in Tasks : Failed(T, m)[t].st = "RUNNING" =>
                                            T[t].st = "RUNNING" /\ T[t].member = Failed(T, m)[t].member
        /\ Moved(Cancelled(T, work, {})) /\ \A t \in Tasks :
             /\ t \in work => Cancelled(T, work, {})[t].st \in Final
             /\ Cancelled(T, work, {})[t].st = "RUNNING" => T[t].st = "RUNNING" /\ T[t].member = Cancelled(T, work, {})[t].member
    <3>1. \A t \in Tasks : t \in work => t \in work \ {}
      OBVIOUS
    <3> QED  BY <2>1, <3>1, CallFacts
  <2>3. Moved(task') /\ \A t \in Tasks : task'[t].st = "RUNNING" => T[t].st = "RUNNING" /\ T[t].member = task'[t].member
    BY <1>9, <2>2
  <2> QED  BY <2>2, <2>3 DEF Moved
<1>13. /\ \A t \in Tasks : Kept(t)
       /\ joined' \in [Res -> 0..Versions] /\ ledger' \in [Tasks -> Entry \cup {None}]
       /\ \A s \in Res : s # r0 => joined'[s] = joined[s]
       /\ \A s \in Res : joined'[s] # 0 => joined[s] # 0
       /\ Forget(r0, cancel) => joined'[r0] = 0
  <2>1. CASE UNCHANGED <<joined, ledger>> /\ (i # 0 \/ ops' = O \cup {y})
    BY <1>1, <2>1, EntriesStay DEF Plain, Forget
  <2>2. CASE i = 0 /\ task' = Cancelled(T, work, {}) /\ Forget(r0, cancel)
    <3>1. \A t \in Tasks : cancel /\ t \in Mine(r0) /\ task'[t].st \in {"QUEUED", "RUNNING"} => t \in lapsed'
      BY <1>5, <1>12, <2>2 DEF Final
    <3>2. /\ \A t \in Tasks : Kept(t)
          /\ joined' \in [Res -> 0..Versions] /\ joined'[r0] = 0 /\ \A s \in Res : s # r0 => joined'[s] = joined[s]
          /\ ledger' \in [Tasks -> Entry \cup {None}]
      BY <1>1, <1>12, <2>2, <3>1, EntriesDrop
    <3> QED  BY <3>2
  <2> QED  BY <1>9, <2>1, <2>2
<1>14. BasePart'
  <2>1. Plain'
    BY <1>1, <1>9, <1>11, <1>12, <1>13 DEF Plain
  <2>2. Started'
    BY <1>9, <1>13, OwnsFacts DEF BasePart, Started
  <2> QED  BY <1>10, <2>1, <2>2, BaseParts
<1>15. ASSUME NEW r \in Res \ raced'
       PROVE  ResSound(r)'
  <2>1. ResSound(r) /\ OpsTyped /\ OpsTyped'
    BY <1>14, <1>15 DEF ResPart, BasePart
  <2>2. CASE r # r0
    <3>1. \A m \in Owns[r] : m \in Mem /\ m \notin Owns[r0]
      BY <2>2, OwnsFacts
    <3>2. \A m \in Owns[r] : pool'[m] = pool[m] /\ (m \in attached' <=> m \in attached)
      BY <1>6, <1>9, <1>11, <3>1
    <3>3. Same(r) /\ SameNet(r)
      BY <1>9, <1>10, <1>13, <2>2, <3>2 DEF Same, SameNet
    <3> QED  BY <2>1, <3>3, Untouched
  <2>3. CASE r = r0
    <3>1. /\ Here(O, r) = {} /\ joined[r] # 0 /\ (live[r] = "ok" => net[r] = "present")
          /\ \A m \in Owns[r] : /\ m \notin ToSet(todo) => pool[m] = 0
                                /\ m \in attached => m \in gone \cup ToSet(todo)
      BY <1>15, <2>3
    <3>2. \A m \in Owns[r] : m \in Mem /\ (m \in B => pool[m] = 0)
      BY <1>1, <1>6, <2>3, <3>1, NotThere
    <3>3. CASE i # 0
      <4>1. ops' = O \cup {x} /\ joined' = joined
        BY <1>9, <3>3
      <4>2. Here(ops', r) = {x}
        BY <1>8, <2>3, <3>1, <3>3, <4>1 DEF Here
      <4>3. F[1] = todo[i] /\ ToSet(F) = {F[1]} \cup ToSet(Tail(F)) /\ ToSet(todo) = B \cup ToSet(F)
        BY <1>6, <3>3, TailSet
      <4>4. \A m \in Owns[r] : /\ m \notin ToSet(Tail(F)) => pool'[m] = 0
                               /\ m \in attached' => m \in ToSet(F)
        BY <1>9, <1>11, <3>1, <3>2, <3>3, <4>3
      <4>5. Holds(x, r)'
        BY <1>8, <3>1, <3>3, <4>1, <4>4 DEF Holds
      <4>6. OpSound(x, r)'
        BY <1>8, <1>9, <3>1, <3>3, <4>1, <4>5 DEF OpSound, MembersHere
      <4> QED  BY <2>1, <4>2, <4>6, ResNext
    <3>4. ASSUME i = 0
          PROVE  \A m \in Owns[r] : pool'[m] = 0 /\ m \notin attached'
      BY <1>6, <1>9, <1>11, <3>1, <3>2, <3>4
    <3>5. CASE i = 0 /\ ops' = O \cup {y} /\ joined' = joined
      <4>1. Here(ops', r) = {y}
        BY <1>8, <2>3, <3>1, <3>5 DEF Here
      <4>2. Holds(y, r)'
        BY <1>8, <3>1, <3>4, <3>5 DEF Holds
      <4>3. OpSound(y, r)'
        BY <1>8, <1>9, <3>1, <3>5, <4>2 DEF OpSound, MembersHere
      <4> QED  BY <2>1, <4>1, <4>3, ResNext
    <3>6. CASE i = 0 /\ ops' = O /\ joined'[r] = 0
      <4>1. Here(ops', r) = {}
        BY <3>1, <3>6
      <4>2. IdleSound(r)'
        BY <3>4, <3>6 DEF IdleSound, MembersHere
      <4> QED  BY <2>1, <4>1, <4>2, ResNext
    <3>7. Forget(r0, cancel) => joined'[r] = 0
      BY <1>13, <2>3
    <3> QED  BY <1>9, <3>3, <3>5, <3>6, <3>7
  <2> QED  BY <2>2, <2>3
<1>16. TaskPart'
  <2>1. ASSUME NEW t \in Tasks, NEW m \in Mem, task'[t].st = "RUNNING", task'[t].member = m, RunsAt(m)
        PROVE  RunsAt(m)'
    <3>1. m \notin gone
      BY <1>12, <2>1
    <3>2. Draining(m) => Draining(m)'
      <4>1. O \subseteq ops'
        BY <1>9
      <4> QED  BY <3>1, <4>1 DEF Draining
    <3>3. i # 0 /\ m = todo[i] => Draining(m)'
      <4> SUFFICES ASSUME i # 0, m = todo[i]
                   PROVE  Draining(m)'
        OBVIOUS
      <4>1. x \in ops' /\ x.kind = "leave" /\ x.todo[1] = m
        BY <1>6, <1>8, <1>9
      <4> QED  BY <4>1 DEF Draining
    <3> QED  BY <1>9, <1>11, <2>1, <3>2, <3>3 DEF RunsAt
  <2>2. Plain' /\ lapsed \subseteq lapsed'
    BY <1>9, <1>14 DEF BasePart, TypeOK, Plain
  <2> QED  BY <1>1, <1>12, <1>13, <2>1, <2>2, TasksKept
<1> QED  BY <1>14, <1>15, <1>16 DEF ResPart

\* LeaveStart.
LEMMA LeaveStartKeeps ==
  ASSUME BasePart, ResPart, TaskPart, ~Pending, NEW r0 \in Res, NEW cancel \in BOOLEAN, LeaveStart(r0, cancel)
  PROVE  BasePart' /\ ResPart' /\ TaskPart'
<1>1. /\ Room /\ replayed /\ joined[r0] # 0 /\ Race({r0}) /\ LeaveOn(ops, r0, cancel, {}, Order[r0], task)
      /\ Plain
  BY BaseParts DEF LeaveStart
<1>2. Order[r0] \in Seq(Owns[r0]) /\ ToSet(Order[r0]) = Owns[r0]
  BY OwnsFacts
<1>3. raced \subseteq raced' /\ raced' \subseteq Res /\ (r0 \notin raced' => Here(ops, r0) = {})
  BY <1>1, RaceFacts
<1>4. Moved(task)
  BY <1>1, TasksStay DEF Plain
<1>5. ASSUME r0 \notin raced'
      PROVE  live[r0] = "ok" => net[r0] = "present"
  <2>1. ResSound(r0) /\ OpsTyped
    BY <1>3, <1>5 DEF ResPart, BasePart
  <2>2. IdleSound(r0)
    BY <1>3, <1>5, <2>1, ResIdle
  <2> QED  BY <1>1, <2>2 DEF IdleSound
<1>6. \A m \in Mem : Draining(m) => \E p \in ops : p.kind \in {"leave", "sync"} /\ p.todo[1] = m
  BY DEF Draining
<1>7. LeaveStep(ops, r0, cancel, {}, Order[r0], task)
  BY <1>1, <1>2, <1>3, <1>4, <1>5, <1>6 DEF LeaveStep
<1> QED  BY <1>7, LeaveOnKeeps

\* LeaveNext.
LEMMA LeaveNextKeeps ==
  ASSUME BasePart, ResPart, TaskPart, ~Pending, NEW o \in ops, LeaveNext(o)
  PROVE  BasePart' /\ ResPart' /\ TaskPart'
<1>1. OpType(o) /\ replayed /\ Plain /\ o.kind = "leave" /\ raced' = raced
  BY UnderWay, BaseParts DEF LeaveNext
<1>2. PICK r0 \in Res, cancel \in BOOLEAN : r0 = o.r /\ cancel = o.cancel /\ Touched(o) = {r0}
  BY <1>1, TouchedFacts DEF OpType
<1>3. PICK q \in Seq(Owns[r0]) : q = o.todo /\ q # <<>>
  BY <1>1, <1>2 DEF OpType
<1>4. /\ Tail(q) \in Seq(Owns[r0]) /\ Head(q) = q[1] /\ Head(q) \in Owns[r0] /\ ToSet(q) = {Head(q)} \cup ToSet(Tail(q))
  BY <1>3, TailSet
<1>5. PICK T : T = Drained(Head(q), TRUE)
  OBVIOUS
<1>6. LeaveOn(ops \ {o}, r0, cancel, {Head(q)}, Tail(q), T)
  BY <1>2, <1>3, <1>5 DEF LeaveNext
<1>7. Moved(T) /\ \A t \in Tasks : T[t].st = "RUNNING" => T[t].member \notin {Head(q)}
  <2>1. Moved(task) /\ task \in [Tasks -> TaskRec]
    BY <1>1, TasksStay DEF Plain
  <2> QED  BY <1>5, <2>1, CallFacts
<1>8. \A m \in Mem : Draining(m) => m \in {Head(q)} \/ \E p \in ops \ {o} : p.kind \in {"leave", "sync"} /\ p.todo[1] = m
  BY <1>3, <1>4 DEF Draining
<1>9. ASSUME r0 \notin raced'
      PROVE  /\ Here(ops \ {o}, r0) = {} /\ joined[r0] # 0 /\ (live[r0] = "ok" => net[r0] = "present")
             /\ \A m \in Owns[r0] : /\ m \notin ToSet(Tail(q)) => pool[m] = 0
                                    /\ m \in attached => m \in {Head(q)} \cup ToSet(Tail(q))
  <2>1. ResSound(r0) /\ OpsTyped
    BY <1>1, <1>9 DEF ResPart, BasePart
  <2>2. o \in Here(ops, r0)
    BY <1>2 DEF Here
  <2>3. Here(ops, r0) = {o} /\ OpSound(o, r0)
    BY <2>1, <2>2, ResAny
  <2>4. Here(ops \ {o}, r0) = {}
    BY <2>3 DEF Here
  <2>5. /\ joined[r0] # 0
        /\ \A m \in Owns[r0] : /\ m \notin ToSet(Tail(q)) => pool[m] = 0
                               /\ m \in attached => m \in ToSet(q)
    BY <1>1, <1>3, <2>3 DEF OpSound, Holds
  <2>6. live[r0] = "ok" => net[r0] = "present"
    BY <1>1, <2>3, <2>5 DEF OpSound
  <2> QED  BY <1>4, <2>4, <2>5, <2>6
<1>10. raced' \subseteq Res /\ raced \subseteq raced'
  BY <1>1 DEF Plain
<1>11. LeaveStep(ops \ {o}, r0, cancel, {Head(q)}, Tail(q), T)
  BY <1>1, <1>2, <1>4, <1>6, <1>7, <1>8, <1>9, <1>10 DEF LeaveStep
<1> QED  BY <1>11, LeaveOnKeeps

\* LeaveEnds.
LEMMA LeaveEndsKeeps ==
  ASSUME BasePart, ResPart, TaskPart, ~Pending, NEW o \in ops, LeaveEnds(o)
  PROVE  BasePart' /\ ResPart' /\ TaskPart'
<1>1. OpType(o) /\ replayed /\ Plain /\ o.kind = "cancel"
  BY UnderWay, BaseParts DEF LeaveEnds
<1>2. PICK r0 \in Res, S \in SUBSET Tasks : r0 = o.r /\ S = o.tasks /\ Touched(o) = {r0}
  BY <1>1, TouchedFacts DEF OpType
<1>3. PICK F \in SUBSET {t \in S : task[t].st = "RUNNING"} :
        task' = Cancelled(task, S, F) /\ lapsed' = lapsed \cup F \cup (Mine(r0) \ S)
  BY <1>2 DEF LeaveEnds
<1>4. /\ Forget(r0, TRUE) /\ ops' = ops \ {o}
      /\ UNCHANGED <<live, attached, declared, replayed, net, ended, pool, made, session, raced>>
  BY <1>2 DEF LeaveEnds, Replace, plug
<1>5. Moved(task') /\ task' \in [Tasks -> TaskRec] /\ \A t \in S \ F : task'[t].st \in Final
  <2>1. Moved(task) /\ task \in [Tasks -> TaskRec]
    BY <1>1, TasksStay DEF Plain
  <2> QED  BY <1>3, <2>1, CallFacts DEF Moved
<1>6. /\ \A t \in Tasks : Kept(t)
      /\ joined' \in [Res -> 0..Versions] /\ joined'[r0] = 0 /\ \A s \in Res : s # r0 => joined'[s] = joined[s]
      /\ ledger' \in [Tasks -> Entry \cup {None}]
  <2>1. \A t \in Tasks : TRUE /\ t \in Mine(r0) /\ task'[t].st \in {"QUEUED", "RUNNING"} => t \in lapsed'
    BY <1>3, <1>5 DEF Final
  <2> QED  BY <1>1, <1>4, <1>5, <2>1, EntriesDrop
<1>7. BasePart'
  <2>1. lapsed' \subseteq Tasks
    BY <1>1, <1>3 DEF Mine, Plain
  <2>2. Plain'
    BY <1>1, <1>4, <1>5, <1>6, <2>1 DEF Plain
  <2>3. \A s \in Res : joined'[s] # 0 => joined[s] # 0
    BY <1>6
  <2>4. Started'
    BY <1>1, <1>4, <2>3, OwnsFacts DEF BasePart, Started
  <2>5. OpsFine(ops')
    BY <1>4, OpsStep
  <2> QED  BY <2>2, <2>4, <2>5, BaseParts
<1>8. ASSUME NEW r \in Res \ raced'
      PROVE  ResSound(r)'
  <2>1. ResSound(r) /\ OpsTyped /\ OpsTyped'
    BY <1>4, <1>7, <1>8 DEF ResPart, BasePart
  <2>2. CASE r # r0
    <3>1. Same(r) /\ SameNet(r)
      BY <1>2, <1>4, <1>6, <2>2 DEF Same, SameNet, Here
    <3> QED  BY <2>1, <3>1, Untouched
  <2>3. CASE r = r0
    <3>1. o \in Here(ops, r)
      BY <1>2, <2>3 DEF Here
    <3>2. Here(ops, r) = {o} /\ OpSound(o, r)
      BY <2>1, <3>1, ResAny
    <3>3. Here(ops', r) = {} /\ \A m \in Owns[r] : pool[m] = 0 /\ m \notin attached
      BY <1>1, <1>4, <3>2 DEF Here, OpSound, Holds
    <3>4. IdleSound(r)'
      BY <1>4, <1>6, <2>3, <3>3 DEF IdleSound, MembersHere
    <3> QED  BY <2>1, <3>3, <3>4, ResNext
  <2> QED  BY <2>2, <2>3
<1>9. TaskPart'
  <2>1. \A m \in Mem : Draining(m) => Draining(m)'
    BY <1>1, <1>4, DrainKept
  <2>2. \A m \in Mem : RunsAt(m) => RunsAt(m)'
    BY <1>1, <1>4, <2>1 DEF RunsAt
  <2>3. Plain' /\ lapsed \subseteq lapsed' /\ raced \subseteq raced'
    BY <1>3, <1>4, <1>7 DEF BasePart, TypeOK, Plain
  <2> QED  BY <1>1, <1>5, <1>6, <2>2, <2>3, TasksKept
<1> QED  BY <1>7, <1>8, <1>9 DEF ResPart

-----------------------------------------------------------------------------
(* Topology and restart. *)

\* The first route or topology after a start.
ReplayStep ==
  /\ ~replayed /\ replayed' = TRUE /\ Replay
  /\ UNCHANGED <<joined, ledger, live, ended, lapsed>>
  /\ net' \in [Res -> {"present", "suspect", "lost"}]
  /\ OpsFine(ops') /\ \A r \in Res : Here(ops', r) = {}
  /\ raced \subseteq raced' /\ raced' \subseteq Res

\* It declares what the records say, and every member that is on again is in its
\* pool under the declaration it joined with.
LEMMA ReplayKeeps ==
  ASSUME BasePart, ResPart, TaskPart, ReplayStep
  PROVE  BasePart' /\ ResPart' /\ TaskPart'
<1>1. Plain /\ ops = {} /\ attached = {} /\ \A r \in Res : live[r] = "lost"
  BY BaseParts DEF BasePart, Started, ReplayStep
<1>2. /\ ~replayed /\ replayed' = TRUE /\ Replay
      /\ UNCHANGED <<joined, ledger, live, ended, lapsed>>
      /\ net' \in [Res -> {"present", "suspect", "lost"}]
      /\ OpsFine(ops') /\ (\A r \in Res : Here(ops', r) = {})
      /\ raced \subseteq raced' /\ raced' \subseteq Res
  BY DEF ReplayStep
<1>3. PICK on : on = {m \in Mem : /\ joined[ResOf[m]] # 0 /\ m \notin ended
                                  /\ ~Clash(pool, m, joined[ResOf[m]])}
  OBVIOUS
<1>4. \/ PoolsOf(joined) = {} /\ UNCHANGED <<pool, made, session, declared, attached, task>>
      \/ /\ Register(joined) /\ attached' = on /\ task' = Requeued(ended)
         /\ pool' = [m \in Mem |-> IF m \in on THEN Decl(m, joined[ResOf[m]])
                                    ELSE IF m \in ended THEN 0 ELSE pool[m]]
  <2>1. Materialised(joined) = pool
    BY MaterialisedFacts
  <2>2. Replay
    BY <1>2
  <2> QED  BY <1>3, <2>1, <2>2 DEF Replay
<1>5. /\ joined \in [Res -> 0..Versions] /\ pool \in [Mem -> 0..Versions] /\ Versions \in Nat
      /\ \A m \in Mem : ResOf[m] \in Res /\ joined[ResOf[m]] \in 0..Versions /\ pool[m] \in 0..Versions
  BY <1>1, OwnsFacts, FedShape DEF Plain
<1>6. \A m \in Mem : joined[ResOf[m]] # 0 => Decl(m, joined[ResOf[m]]) # 0 /\ Decl(m, joined[ResOf[m]]) \in 0..Versions
  BY <1>5, DeclFacts
<1>7. PoolsOf(joined) = {} => \A r \in Res : joined[r] = 0
  <2> SUFFICES ASSUME NEW r \in Res, joined[r] # 0
               PROVE  PoolsOf(joined) # {}
    OBVIOUS
  <2>1. PICK m \in Owns[r] : TRUE
    <3>1. Order[r] \in Seq(Owns[r]) /\ Order[r] # <<>>
      BY OwnsFacts
    <3> QED  BY <3>1, TailFacts
  <2>2. m \in Mem /\ ResOf[m] = r
    BY OwnsFacts
  <2> QED  BY <1>5, <2>2, RegisterFacts
<1>8. /\ pool' \in [Mem -> 0..Versions] /\ attached' \subseteq Mem
      /\ \A m \in Mem : /\ pool'[m] # 0 => pool[m] # 0 \/ joined[ResOf[m]] # 0
                        /\ m \in attached' => joined[ResOf[m]] # 0 /\ pool'[m] = Decl(m, joined[ResOf[m]])
  <2>1. CASE UNCHANGED <<pool, attached>>
    BY <1>1, <1>5, <2>1
  <2>2. CASE /\ attached' = on
             /\ pool' = [m \in Mem |-> IF m \in on THEN Decl(m, joined[ResOf[m]])
                                        ELSE IF m \in ended THEN 0 ELSE pool[m]]
    BY <1>3, <1>5, <1>6, <2>2
  <2> QED  BY <1>4, <2>1, <2>2
<1>9. BasePart'
  <2>1. /\ session' \in BOOLEAN /\ made' \subseteq Classes /\ declared' \subseteq Classes
        /\ \A m \in Mem : joined[ResOf[m]] # 0 => ClassOf[m] \in made'
        /\ \A r \in Res : joined[r] # 0 => session'
    <3>1. CASE PoolsOf(joined) = {} /\ UNCHANGED <<pool, made, session, declared, attached, task>>
      BY <1>1, <1>5, <1>7, <3>1 DEF Plain
    <3>2. CASE Register(joined)
      BY <1>5, <3>2, RegisterFacts
    <3> QED  BY <1>4, <3>1, <3>2
  <2>2. task' \in [Tasks -> TaskRec]
    <3>1. Moved(task) /\ task \in [Tasks -> TaskRec]
      BY <1>1, TasksStay DEF Plain
    <3>2. Moved(Requeued(ended))
      BY <3>1, CallFacts
    <3> QED  BY <1>4, <3>1, <3>2 DEF Moved
  <2>3. Plain'
    BY <1>1, <1>2, <1>8, <2>1, <2>2 DEF Plain
  <2>4. Started'
    BY <1>2, <2>1 DEF Started
  <2> QED  BY <1>2, <2>3, <2>4, BaseParts
<1>10. ASSUME NEW r \in Res \ raced'
       PROVE  ResSound(r)'
  <2>1. ResSound(r) /\ OpsTyped /\ OpsTyped'
    BY <1>2, <1>9, <1>10 DEF ResPart, BasePart
  <2>2. IdleSound(r)
    <3>1. Here(ops, r) = {}
      BY <1>1 DEF Here
    <3> QED  BY <2>1, <3>1, ResIdle
  <2>3. \A m \in Owns[r] : m \in Mem /\ ResOf[m] = r
    BY OwnsFacts
  <2>4. IdleSound(r)'
    BY <1>1, <1>2, <1>8, <2>2, <2>3 DEF IdleSound, MembersHere, Declared
  <2> QED  BY <1>2, <2>1, <2>4, ResNext
<1>11. TaskPart'
  <2>1. Moved(task') /\ (UNCHANGED pool \/ \A t \in Tasks : task'[t].st = "RUNNING" => task'[t].member \notin ended)
    <3>1. Moved(task) /\ task \in [Tasks -> TaskRec]
      BY <1>1, TasksStay DEF Plain
    <3>2. Moved(Requeued(ended)) /\ \A t \in Tasks : Requeued(ended)[t].st = "RUNNING" => Requeued(ended)[t].member \notin ended
      BY <3>1, CallFacts
    <3> QED  BY <1>4, <3>1, <3>2
  <2>2. \A t \in Tasks : Kept(t)
    BY <1>1, <1>2, EntriesStay
  <2>3. ASSUME NEW t \in Tasks, NEW m \in Mem, task'[t].st = "RUNNING", task'[t].member = m, RunsAt(m)
        PROVE  RunsAt(m)'
    <3>1. ~Draining(m)
      BY <1>1 DEF Draining
    <3>2. CASE ResOf[m] \in raced
      BY <1>2, <3>2 DEF RunsAt
    <3>3. CASE pool[m] # 0 \/ joined[ResOf[m]] # 0
      <4>1. pool'[m] # 0
        <5>1. CASE PoolsOf(joined) = {} /\ UNCHANGED <<pool, made, session, declared, attached, task>>
          BY <1>5, <1>7, <3>3, <5>1
        <5>2. CASE /\ task' = Requeued(ended)
                   /\ pool' = [n \in Mem |-> IF n \in on THEN Decl(n, joined[ResOf[n]])
                                              ELSE IF n \in ended THEN 0 ELSE pool[n]]
          <6>1. m \notin ended
            <7>1. Moved(task) /\ task \in [Tasks -> TaskRec]
              BY <1>1, TasksStay DEF Plain
            <7> QED  BY <2>3, <5>2, <7>1, CallFacts
          <6>2. CASE m \in on
            BY <1>3, <1>6, <5>2, <6>2
          <6>3. CASE m \notin on
            <7>1. pool'[m] = pool[m]
              BY <5>2, <6>1, <6>3
            <7>2. joined[ResOf[m]] # 0 => Clash(pool, m, joined[ResOf[m]])
              BY <1>3, <6>1, <6>3
            <7> QED  BY <3>3, <7>1, <7>2 DEF Clash
          <6> QED  BY <6>2, <6>3
        <5> QED  BY <1>4, <5>1, <5>2
      <4> QED  BY <4>1 DEF RunsAt
    <3> QED  BY <2>3, <3>1, <3>2, <3>3 DEF RunsAt
  <2>4. Plain' /\ lapsed \subseteq lapsed'
    BY <1>2, <1>9 DEF BasePart, TypeOK, Plain
  <2> QED  BY <1>1, <1>2, <2>1, <2>2, <2>3, <2>4, TasksKept
<1> QED  BY <1>9, <1>10, <1>11 DEF ResPart

\* FirstRoute.
LEMMA FirstRouteKeeps ==
  ASSUME BasePart, ResPart, TaskPart, FirstRoute
  PROVE  BasePart' /\ ResPart' /\ TaskPart'
<1>1. /\ ~replayed /\ replayed' = TRUE /\ Replay
      /\ UNCHANGED <<joined, ledger, live, net, ended, lapsed, ops, raced>>
  BY DEF FirstRoute, state
<1>2. Plain /\ OpsFine(ops) /\ ops = {}
  BY <1>1, BaseParts DEF BasePart, Started
<1>3. ReplayStep
  BY <1>1, <1>2 DEF ReplayStep, Plain, Here
<1> QED  BY <1>3, ReplayKeeps

\* Deliver.
LEMMA DeliverKeeps ==
  ASSUME BasePart, ResPart, TaskPart, ~Pending, NEW r0 \in Res, NEW v \in {"present", "suspect", "lost"}, Deliver(r0, v)
  PROVE  BasePart' /\ ResPart' /\ TaskPart'
<1>1. /\ Room /\ net' = [net EXCEPT ![r0] = v] /\ replayed' = TRUE /\ ops' = ops \cup {Heard} /\ Race({r0})
      /\ UNCHANGED <<joined, ledger, live, ended, lapsed>>
      /\ \/ replayed /\ UNCHANGED <<pool, made, session, declared, attached, task>>
         \/ ~replayed /\ Replay
  BY DEF Deliver, state
<1>2. Plain /\ OpType(Heard) /\ Touched(Heard) = {} /\ Heard.kind = "topology"
  BY BaseParts, OpFacts
<1>3. /\ raced \subseteq raced' /\ raced' \subseteq Res
      /\ \A r \in {r0} \ raced' : Here(ops, r) = {}
  BY <1>1, <1>2, RaceFacts
<1>4. OpsFine(ops') /\ \A r \in Res : Here(ops', r) = Here(ops, r)
  <2>1. OpsFine(ops \cup {Heard})
    BY <1>1, <1>2, OpsStep
  <2> QED  BY <1>1, <1>2, <2>1 DEF Here
<1>5. net' \in [Res -> {"present", "suspect", "lost"}] /\ \A r \in Res : r # r0 => net'[r] = net[r]
  BY <1>1, <1>2 DEF Plain
<1>6. CASE ~replayed
  <2>1. ops = {}
    BY <1>6 DEF BasePart, Started
  <2>2. ReplayStep
    BY <1>1, <1>3, <1>4, <1>5, <1>6, <2>1 DEF ReplayStep, Here
  <2> QED  BY <2>2, ReplayKeeps
<1>7. CASE replayed
  <2>1. UNCHANGED <<pool, made, session, declared, attached, task>>
    BY <1>1, <1>7
  <2>2. BasePart'
    <3>1. Plain'
      BY <1>1, <1>2, <1>3, <1>5, <2>1 DEF Plain
    <3>2. Started'
      BY <1>1, <1>7, <2>1 DEF BasePart, Started
    <3> QED  BY <1>4, <3>1, <3>2, BaseParts
  <2>3. Pending'
    BY <1>1, <1>2 DEF Pending
  <2>4. ASSUME NEW r \in Res \ raced'
        PROVE  ResSound(r)'
    <3>1. ResSound(r) /\ OpsTyped /\ OpsTyped'
      BY <1>3, <2>2, <2>4 DEF ResPart, BasePart
    <3>2. net'[r] = net[r] \/ Here(ops, r) = {}
      BY <1>3, <1>5, <2>4
    <3>3. Same(r) /\ SameNet(r)
      BY <1>1, <1>4, <2>1, <2>3, <3>2 DEF Same, SameNet
    <3> QED  BY <3>1, <3>3, Untouched
  <2>5. TaskPart'
    <3>1. \A m \in Mem : Draining(m) => Draining(m)'
      BY <1>1 DEF Draining
    <3>2. Plain' /\ UNCHANGED <<task, ledger, joined, pool, replayed, lapsed>>
      BY <1>1, <1>7, <2>1, <2>2 DEF BasePart, TypeOK, Plain
    <3> QED  BY <1>2, <1>3, <3>1, <3>2, TasksAlone
  <2> QED  BY <2>2, <2>4, <2>5 DEF ResPart
<1> QED  BY <1>1, <1>6, <1>7

\* Where a task runs there is a record, unless the resource has raced.
LEMMA RunsJoined ==
  ASSUME BasePart, ResPart, NEW m \in Mem, RunsAt(m)
  PROVE  joined[ResOf[m]] # 0 \/ ResOf[m] \in raced
<1> SUFFICES ASSUME ResOf[m] \notin raced
             PROVE  joined[ResOf[m]] # 0
  OBVIOUS
<1>1. ResOf[m] \in Res /\ m \in Owns[ResOf[m]]
  BY OwnsFacts
<1>2. ResSound(ResOf[m])
  BY <1>1 DEF ResPart
<1>3. CASE pool[m] # 0
  BY <1>1, <1>2, <1>3 DEF ResSound
<1>4. ASSUME NEW o \in ops, o.kind \in {"leave", "sync"}, o.todo[1] = m
      PROVE  joined[ResOf[m]] # 0
  <2>1. OpType(o)
    BY UnderWay
  <2>2. ResOf[m] \in Touched(o)
    BY <1>4, <2>1, DrainedFacts
  <2>3. Holds(o, ResOf[m])
    BY <1>2, <2>2 DEF ResSound
  <2> QED  BY <1>4, <2>3 DEF Holds
<1> QED  BY <1>3, <1>4 DEF RunsAt, Draining

\* Restart: the member that a suspended operation was taking out is declared
\* again at the start.
LEMMA RestartKeeps ==
  ASSUME BasePart, ResPart, TaskPart, ~Pending, Restart
  PROVE  BasePart' /\ ResPart' /\ TaskPart'
<1>1. /\ replayed /\ live' = [r \in Res |-> "lost"] /\ net' = [r \in Res |-> "lost"]
      /\ attached' = {} /\ declared' = {} /\ replayed' = FALSE /\ session' = FALSE /\ ops' = {}
      /\ UNCHANGED <<joined, ledger, ended, pool, made, task, lapsed, raced>>
  BY DEF Restart, state
<1>2. Plain
  BY BaseParts
<1>3. BasePart'
  <2>1. Plain'
    BY <1>1, <1>2 DEF Plain
  <2>2. Started'
    BY <1>1 DEF BasePart, Started
  <2> QED  BY <1>1, <2>1, <2>2, NoOps, BaseParts
<1>4. ASSUME NEW r \in Res \ raced'
      PROVE  ResSound(r)'
  <2>1. ResSound(r) /\ OpsTyped'
    BY <1>1, <1>3, <1>4 DEF ResPart, BasePart
  <2>2. Here(ops', r) = {}
    BY <1>1 DEF Here
  <2>3. MembersHere(r)
    BY <2>1 DEF ResSound, MembersHere
  <2>4. IdleSound(r)'
    BY <1>1, <2>3 DEF IdleSound, MembersHere
  <2> QED  BY <2>1, <2>2, <2>4, ResNext
<1>5. TaskPart'
  <2>1. Moved(task') /\ \A t \in Tasks : Kept(t)
    <3>1. Moved(task)
      BY <1>2, TasksStay DEF Plain
    <3> QED  BY <1>1, <1>2, <3>1, EntriesStay DEF Moved
  <2>2. ASSUME NEW m \in Mem, RunsAt(m)
        PROVE  RunsAt(m)'
    <3>1. joined[ResOf[m]] # 0 \/ ResOf[m] \in raced
      BY <2>2, RunsJoined
    <3> QED  BY <1>1, <2>2, <3>1 DEF RunsAt
  <2>3. Plain' /\ lapsed \subseteq lapsed' /\ raced \subseteq raced'
    BY <1>1, <1>3 DEF BasePart, TypeOK, Plain
  <2> QED  BY <1>2, <2>1, <2>2, <2>3, TasksKept
<1> QED  BY <1>3, <1>4, <1>5 DEF ResPart

\* A sequence over a set is one over any larger set.
LEMMA SeqSubset ==
  ASSUME NEW S, NEW T, S \subseteq T, NEW q \in Seq(S)
  PROVE  q \in Seq(T)
<1>1. Len(q) \in Nat /\ q \in [1..Len(q) -> S]
  OBVIOUS
<1>2. q \in [1..Len(q) -> T]
  BY <1>1
<1> QED  BY <1>1, <1>2

\* One step of the pass over the resources in res, when it starts or goes on.
\* The pass has the records it found at its start, and what is attached to a
\* resource that it has still to visit is in its pool as declared.
SyncStep(O, ver, res, att, lv, gone) ==
  /\ replayed /\ res \in Seq(Res) /\ ver \in [Res -> 0..Versions] /\ att \subseteq Mem
  /\ lv \in [Res -> {"ok", "suspect", "lost"}]
  /\ SyncOn(O, ver, res, att, lv)
  /\ \E o \in ops : O = ops \ {o}
  /\ raced \subseteq raced' /\ raced' \subseteq Res
  /\ Moved(task') /\ \A t \in Tasks : task'[t].st = "RUNNING" => task'[t].member \notin gone
  /\ \A m \in Mem : Draining(m) => m \in gone \/ \E p \in O : p.kind \in {"leave", "sync"} /\ p.todo[1] = m
  /\ \A r \in ToSet(res) \ raced' :
       /\ Here(O, r) = {} /\ joined[r] # 0 /\ joined[r] = ver[r]
       /\ \A m \in Owns[r] : m \in att => Declared(m, r)

\* What such a step leaves alone at a resource that is not among them.
Elsewhere(O, att, lv, r) ==
  /\ Here(ops', r) = Here(O, r) /\ live'[r] = lv[r]
  /\ \A m \in Owns[r] : pool'[m] = pool[m] /\ (m \in attached' <=> m \in att)

\* It keeps the types and the tasks, and the resources it visits are sound.
LEMMA SyncOnKeeps ==
  ASSUME BasePart, TaskPart, NEW O, NEW ver, NEW res, NEW att, NEW lv, NEW gone,
         SyncStep(O, ver, res, att, lv, gone)
  PROVE  /\ BasePart' /\ TaskPart' /\ joined' = joined /\ net' = net
         /\ \A r \in ToSet(res) \ raced' : ResSound(r)'
         /\ \A r \in Res \ ToSet(res) : Elsewhere(O, att, lv, r)
<1> DEFINE i       == FirstIn(res, Unrest(att))
           pass    == Before(res, i)
           want    == {m \in Mem : (ResOf[m] \in pass /\ Target(ResOf[m]) = "ok") /\ m \notin att}
           reg     == \E m \in want : ClassOf[m] \notin declared
           P       == IF reg THEN Materialised(joined) ELSE pool
           on      == {m \in want : ~Clash(P, m, ver[ResOf[m]])}
           Q       == [m \in Mem |-> IF m \in on THEN Decl(m, ver[ResOf[m]]) ELSE P[m]]
           off     == {m \in Mem : ResOf[m] \in pass /\ Target(ResOf[m]) = "lost"}
           q       == Order[res[i]]
           j       == ToDetach(q, att)
           y       == Syncing(From(res, i), ver, From(q, j))
<1>1. /\ replayed /\ res \in Seq(Res) /\ ver \in [Res -> 0..Versions] /\ att \subseteq Mem
      /\ lv \in [Res -> {"ok", "suspect", "lost"}]
      /\ (\E o \in ops : O = ops \ {o})
      /\ raced \subseteq raced' /\ raced' \subseteq Res
      /\ Moved(task') /\ (\A t \in Tasks : task'[t].st = "RUNNING" => task'[t].member \notin gone)
      /\ \A m \in Mem : Draining(m) => m \in gone \/ \E p \in O : p.kind \in {"leave", "sync"} /\ p.todo[1] = m
  BY DEF SyncStep
<1>2. \A r \in ToSet(res) \ raced' :
        /\ Here(O, r) = {} /\ joined[r] # 0 /\ joined[r] = ver[r]
        /\ \A m \in Owns[r] : m \in att => Declared(m, r)
  BY DEF SyncStep
<1>3. /\ IF reg THEN Register(joined) ELSE UNCHANGED <<session, made, declared>>
      /\ live' = [r \in Res |-> IF r \notin pass THEN lv[r]
                                ELSE IF \E m \in want \ on : ResOf[m] = r THEN "lost"
                                ELSE Target(r)]
      /\ \/ i = 0 /\ pool' = Q /\ attached' = (att \cup on) \ off /\ ops' = O
         \/ /\ i # 0 /\ pool' = [Q EXCEPT ![q[j]] = 0]
            /\ attached' = (att \cup on) \ (off \cup Before(q, j))
            /\ ops' = O \cup {y}
      /\ UNCHANGED <<state, replayed, net, ended, lapsed>>
  <2>1. SyncOn(O, ver, res, att, lv)
    BY DEF SyncStep
  <2> QED  BY <2>1, Zenon DEF SyncOn
<1>4. Plain /\ P = pool
  BY BaseParts, MaterialisedFacts
<1>5. /\ pass \subseteq ToSet(res) /\ ToSet(res) \subseteq Res
      /\ i = 0 => pass = ToSet(res)
      /\ i # 0 => /\ i \in 1..Len(res) /\ res[i] \in Unrest(att) /\ res[i] \in Res /\ res[i] \in ToSet(res)
                  /\ From(res, i) \in Seq(Res) /\ From(res, i) # <<>> /\ From(res, i)[1] = res[i]
                  /\ ToSet(res) = pass \cup ToSet(From(res, i))
  BY <1>1, FirstInFacts, ToSetFacts
<1>6. i # 0 => /\ j # 0 /\ q[j] \in Owns[res[i]] /\ Before(q, j) \subseteq Owns[res[i]]
               /\ From(q, j) \in Seq(Owns[res[i]]) /\ From(q, j) # <<>> /\ From(q, j)[1] = q[j]
               /\ res[i] \in ToSet(From(res, i))
  <2> SUFFICES ASSUME i # 0
               PROVE  /\ j # 0 /\ q[j] \in Owns[res[i]] /\ Before(q, j) \subseteq Owns[res[i]]
                      /\ From(q, j) \in Seq(Owns[res[i]]) /\ From(q, j) # <<>> /\ From(q, j)[1] = q[j]
                      /\ res[i] \in ToSet(From(res, i))
    OBVIOUS
  <2> HIDE DEF i
  <2>1. res[i] \in Res /\ res[i] \in Unrest(att)
    BY <1>5
  <2>2. j # 0
    BY <2>1 DEF Unrest
  <2>3. q \in Seq(Owns[res[i]]) /\ ToSet(q) = Owns[res[i]]
    BY <2>1, OwnsFacts
  <2>4. res[i] \in ToSet(From(res, i))
    BY <1>5, TailSet
  <2> QED  BY <2>2, <2>3, <2>4, FirstInFacts DEF ToDetach
<1> HIDE DEF i, pass, reg, P, off, q, j, y, want, on
<1>7. PICK x : i # 0 => /\ ops' = O \cup {x} /\ OpType(x) /\ Touched(x) = ToSet(From(res, i))
                        /\ x.kind = "sync" /\ x.todo = From(q, j) /\ x.ver = ver
  <2>1. CASE i = 0
    BY <2>1
  <2>2. CASE i # 0
    <3>1. PICK R \in Seq(Res) : R = From(res, i) /\ R # <<>> /\ R[1] = res[i]
      BY <1>5, <2>2
    <3>2. PICK g \in Seq(Owns[R[1]]) : g = From(q, j) /\ g # <<>>
      BY <1>6, <2>2, <3>1
    <3>3. PICK z : z = Syncing(R, ver, g)
      OBVIOUS
    <3>4. z = y
      BY <3>1, <3>2, <3>3 DEF y
    <3>5. OpType(z) /\ Touched(z) = ToSet(R) /\ z.kind = "sync" /\ z.todo = g /\ z.ver = ver
      BY <1>1, <3>1, <3>2, <3>3, SyncingFacts
    <3> QED  BY <1>3, <2>2, <3>1, <3>2, <3>4, <3>5
  <2> QED  BY <2>1, <2>2
<1>8. /\ \A m \in want : m \in Mem /\ ResOf[m] \in pass /\ Target(ResOf[m]) = "ok" /\ m \notin att
      /\ on \subseteq want
      /\ \A m \in off : m \in Mem /\ ResOf[m] \in pass /\ Target(ResOf[m]) = "lost"
      /\ \A m \in Mem : ResOf[m] \in pass /\ Target(ResOf[m]) = "ok" /\ m \notin att => m \in want
  BY DEF want, on, off
<1>9. /\ \A m \in Mem : pool'[m] = IF i # 0 /\ m = q[j] THEN 0
                                   ELSE IF m \in on THEN Decl(m, ver[ResOf[m]]) ELSE pool[m]
      /\ \A m : m \in attached' <=> m \in att \cup on /\ m \notin off /\ (i # 0 => m \notin Before(q, j))
  BY <1>3, <1>4
<1>10. O \subseteq ops' /\ OpsFine(ops') /\ \A r \in Res : (i = 0 \/ r \notin ToSet(From(res, i))) => Here(ops', r) = Here(O, r)
  <2>1. OpsFine(O) /\ (i # 0 => OpsFine(O \cup {x}))
    BY <1>1, <1>7, OpsStep
  <2> QED  BY <1>3, <1>7, <2>1 DEF Here
<1>11. BasePart'
  <2>1. \A m \in Mem : pool'[m] \in 0..Versions
    <3> SUFFICES ASSUME NEW m \in Mem
                 PROVE  pool'[m] \in 0..Versions
      OBVIOUS
    <3>1. pool[m] \in 0..Versions /\ ver[ResOf[m]] \in 0..Versions /\ Versions \in Nat \ {0}
      BY <1>1, <1>4, FedShape, OwnsFacts DEF Plain
    <3>2. Decl(m, ver[ResOf[m]]) \in 0..Versions
      BY <3>1 DEF Decl
    <3> QED  BY <1>9, <3>1, <3>2
  <2>2. pool' \in [Mem -> 0..Versions]
    <3>1. pool' = Q \/ pool' = [Q EXCEPT ![q[j]] = 0]
      BY <1>3
    <3> QED  BY <2>1, <3>1
  <2>3. attached' \subseteq Mem
    BY <1>1, <1>8, <1>9
  <2>4. live' \in [Res -> {"ok", "suspect", "lost"}]
    <3>1. \A r \in Res : lv[r] \in {"ok", "suspect", "lost"} /\ Target(r) \in {"ok", "suspect", "lost"}
      BY <1>1, <1>4, TargetFacts
    <3> QED  BY <1>3, <3>1
  <2>5. /\ session' \in BOOLEAN /\ made' \subseteq Classes /\ declared' \subseteq Classes /\ made \subseteq made'
        /\ session => session'
    <3>1. CASE Register(joined)
      <4>1. joined \in [Res -> 0..Versions]
        BY <1>4 DEF Plain
      <4> QED  BY <3>1, <4>1, RegisterFacts
    <3>2. CASE UNCHANGED <<session, made, declared>>
      BY <1>4, <3>2 DEF Plain
    <3> QED  BY <1>3, <3>1, <3>2
  <2>6. UNCHANGED <<joined, ledger, replayed, net, ended, lapsed>>
    BY <1>3 DEF state
  <2>7. Plain'
    BY <1>1, <1>4, <2>2, <2>3, <2>4, <2>5, <2>6 DEF Plain, Moved
  <2>8. Started'
    BY <1>1, <2>5, <2>6 DEF BasePart, Started
  <2> QED  BY <1>10, <2>7, <2>8, BaseParts
<1>12. UNCHANGED <<joined, ledger, replayed, net, ended, lapsed>>
  BY <1>3 DEF state
<1>13. ASSUME NEW r \in Res \ ToSet(res)
       PROVE  Elsewhere(O, att, lv, r)
  <2>1. r \notin pass /\ (i # 0 => r # res[i] /\ r \notin ToSet(From(res, i)))
    BY <1>5, <1>13
  <2>2. \A m \in Owns[r] : m \in Mem /\ ResOf[m] = r /\ (i # 0 => m \notin Owns[res[i]])
    BY <1>5, <2>1, OwnsFacts
  <2>3. \A m \in Owns[r] : m \notin on /\ m \notin off /\ (i # 0 => m # q[j] /\ m \notin Before(q, j))
    BY <1>6, <1>8, <2>1, <2>2
  <2>4. \A m \in Owns[r] : pool'[m] = pool[m] /\ (m \in attached' <=> m \in att)
    BY <1>9, <2>2, <2>3
  <2>5. live'[r] = lv[r] /\ Here(ops', r) = Here(O, r)
    BY <1>3, <1>10, <2>1
  <2> QED  BY <2>4, <2>5 DEF Elsewhere
<1>14. ASSUME NEW r \in ToSet(res) \ raced'
       PROVE  ResSound(r)'
  <2>1. /\ r \in Res /\ OpsTyped' /\ Here(O, r) = {} /\ joined[r] # 0 /\ joined[r] = ver[r] /\ joined' = joined
        /\ \A m \in Owns[r] : m \in att => Declared(m, r)
    BY <1>2, <1>5, <1>11, <1>12, <1>14 DEF BasePart
  <2>2. \A m \in Owns[r] : m \in Mem /\ ResOf[m] = r
    BY <2>1, OwnsFacts
  <2>3. \A m \in Owns[r] : m \in attached' /\ ~(i # 0 /\ m = q[j]) => pool'[m] = Decl(m, joined[r])
    BY <1>9, <2>1, <2>2 DEF Declared
  <2>4. CASE i # 0 /\ r \in ToSet(From(res, i))
    <3>1. Here(ops', r) = {x}
      BY <1>7, <2>1, <2>4 DEF Here
    <3>2. x.kind = "sync" /\ x.ver = ver /\ x.todo[1] = q[j]
      BY <1>6, <1>7, <2>4
    <3>3. OpSound(x, r)'
      BY <2>1, <2>3, <2>4, <3>2 DEF OpSound, Holds, MembersHere, Declared
    <3> QED  BY <2>1, <3>1, <3>3, ResNext
  <2>5. CASE i = 0 \/ r \notin ToSet(From(res, i))
    <3>1. r \in pass /\ Here(ops', r) = {} /\ (i # 0 => r # res[i])
      BY <1>5, <1>6, <1>10, <1>14, <2>1, <2>5
    <3>2. \A m \in Owns[r] : i # 0 => m # q[j] /\ m \notin Before(q, j)
      <4>1. \A m \in Owns[r] : i # 0 => m \notin Owns[res[i]]
        BY <1>5, <2>1, <2>2, <3>1, OwnsFacts
      <4> QED  BY <1>6, <4>1
    <3>3. live'[r] = "ok" => Target(r) = "ok" /\ \A m \in want : ResOf[m] = r => m \in on
      BY <1>3, <2>1, <3>1
    <3>4. live'[r] = "ok" => net'[r] = "present" /\ Owns[r] \subseteq attached'
      <4> SUFFICES ASSUME live'[r] = "ok"
                   PROVE  net'[r] = "present" /\ Owns[r] \subseteq attached'
        OBVIOUS
      <4>1. Target(r) = "ok" /\ net[r] = "present"
        BY <1>4, <2>1, <3>3, TargetFacts
      <4>2. \A m \in Owns[r] : m \in att \cup on /\ m \notin off
        BY <1>8, <2>2, <3>1, <3>3, <4>1
      <4> QED  BY <1>9, <1>12, <3>2, <4>1, <4>2
    <3>5. IdleSound(r)'
      BY <2>1, <2>3, <3>2, <3>4 DEF IdleSound, MembersHere, Declared
    <3> QED  BY <2>1, <3>1, <3>5, ResNext
  <2> QED  BY <2>4, <2>5
<1>15. TaskPart'
  <2>1. \A t \in Tasks : Kept(t)
    BY <1>4, <1>12, EntriesStay
  <2>2. ASSUME NEW t \in Tasks, NEW m \in Mem, task'[t].st = "RUNNING", task'[t].member = m, RunsAt(m)
        PROVE  RunsAt(m)'
    <3>1. m \notin gone
      BY <1>1, <2>2
    <3>2. Draining(m) => Draining(m)'
      BY <1>1, <1>10, <3>1 DEF Draining
    <3>3. i # 0 /\ m = q[j] => Draining(m)'
      <4> SUFFICES ASSUME i # 0, m = q[j]
                   PROVE  Draining(m)'
        OBVIOUS
      <4>1. x \in ops' /\ x.kind = "sync" /\ x.todo[1] = m
        BY <1>6, <1>7
      <4> QED  BY <4>1 DEF Draining
    <3>4. m \in on /\ ResOf[m] \notin raced' => Decl(m, ver[ResOf[m]]) # 0
      <4> SUFFICES ASSUME m \in on, ResOf[m] \notin raced'
                   PROVE  Decl(m, ver[ResOf[m]]) # 0
        OBVIOUS
      <4>1. ResOf[m] \in ToSet(res) \ raced' /\ ResOf[m] \in Res
        BY <1>5, <1>8, OwnsFacts
      <4>2. ver[ResOf[m]] \in 1..Versions
        <5>1. ver[ResOf[m]] # 0 /\ ver[ResOf[m]] \in 0..Versions
          BY <1>1, <1>2, <4>1
        <5> QED  BY <5>1
      <4> QED  BY <4>2, DeclFacts
    <3> QED  BY <1>1, <1>9, <1>12, <2>2, <3>2, <3>3, <3>4 DEF RunsAt
  <2>3. Plain' /\ lapsed \subseteq lapsed'
    BY <1>11, <1>12 DEF BasePart, TypeOK, Plain
  <2> QED  BY <1>1, <1>4, <2>1, <2>2, <2>3, TasksKept
<1> QED  BY <1>11, <1>12, <1>13, <1>14, <1>15

\* SyncStart: the pass starts with the records there are.
LEMMA SyncStartKeeps ==
  ASSUME BasePart, ResPart, TaskPart, NEW o \in ops, SyncStart(o)
  PROVE  BasePart' /\ ResPart' /\ TaskPart'
<1>1. OpType(o) /\ replayed /\ Plain /\ o.kind = "topology" /\ Touched(o) = {}
  BY UnderWay, BaseParts, TouchedFacts DEF SyncStart
<1>2. PICK res \in SetToSeqs(Records) : SyncOn(ops \ {o}, joined, res, attached, live)
  BY DEF SyncStart
<1>3. task' = task /\ Race(Records) /\ Records \subseteq Res
  BY DEF SyncStart, Records
<1>4. res \in Seq(Res) /\ ToSet(res) = Records
  <2>1. IsFiniteSet(Records)
    BY <1>3, FiniteAssumption, FS_Subset
  <2>2. res \in Seq(Records) /\ ToSet(res) = Records
    BY <1>2, <2>1, SetToSeqsFacts
  <2> QED  BY <1>3, <2>2, SeqSubset
<1>5. raced \subseteq raced' /\ raced' \subseteq Res /\ \A r \in Records \ raced' : Here(ops, r) = {}
  BY <1>1, <1>3, RaceFacts
<1>6. \A r \in Res : Here(ops \ {o}, r) = Here(ops, r)
  BY <1>1 DEF Here
<1>7. Moved(task')
  <2>1. Moved(task)
    BY <1>1, TasksStay DEF Plain
  <2> QED  BY <1>3, <2>1 DEF Moved
<1>8. \A m \in Mem : Draining(m) => \E p \in ops \ {o} : p.kind \in {"leave", "sync"} /\ p.todo[1] = m
  BY <1>1 DEF Draining
<1>9. ASSUME NEW r \in ToSet(res) \ raced'
      PROVE  /\ Here(ops \ {o}, r) = {} /\ joined[r] # 0
             /\ \A m \in Owns[r] : m \in attached => Declared(m, r)
  <2>1. r \in Records /\ r \in Res /\ joined[r] # 0 /\ Here(ops, r) = {}
    BY <1>4, <1>5, <1>9 DEF Records
  <2>2. ResSound(r) /\ OpsTyped
    BY <1>5, <1>9, <2>1 DEF ResPart, BasePart
  <2>3. IdleSound(r)
    BY <2>1, <2>2, ResIdle
  <2> QED  BY <1>6, <2>1, <2>3 DEF IdleSound
<1>10. SyncStep(ops \ {o}, joined, res, attached, live, {})
  BY <1>1, <1>2, <1>4, <1>5, <1>7, <1>8, <1>9 DEF SyncStep, Plain
<1>11. /\ BasePart' /\ TaskPart' /\ joined' = joined /\ net' = net
       /\ \A r \in ToSet(res) \ raced' : ResSound(r)'
       /\ \A r \in Res \ ToSet(res) : Elsewhere(ops \ {o}, attached, live, r)
  BY <1>10, SyncOnKeeps
<1>12. ASSUME NEW r \in Res \ raced'
       PROVE  ResSound(r)'
  <2>1. CASE r \in Records
    BY <1>4, <1>11, <1>12, <2>1
  <2>2. CASE r \notin Records
    <3>1. joined[r] = 0 /\ Elsewhere(ops \ {o}, attached, live, r)
      BY <1>4, <1>11, <2>2 DEF Records
    <3>2. Same(r) /\ SameNet(r)
      BY <1>6, <1>11, <3>1 DEF Elsewhere, Same, SameNet
    <3>3. ResSound(r) /\ OpsTyped /\ OpsTyped'
      BY <1>5, <1>11, <1>12 DEF ResPart, BasePart
    <3> QED  BY <3>2, <3>3, Untouched
  <2> QED  BY <2>1, <2>2
<1> QED  BY <1>11, <1>12 DEF ResPart

\* SyncNext: a member has been taken out, and the pass goes on.
LEMMA SyncNextKeeps ==
  ASSUME BasePart, ResPart, TaskPart, ~Pending, NEW o \in ops, SyncNext(o)
  PROVE  BasePart' /\ ResPart' /\ TaskPart'
<1>1. OpType(o) /\ replayed /\ Plain /\ o.kind = "sync" /\ raced' = raced
  BY UnderWay, BaseParts DEF SyncNext
<1>2. PICK res \in Seq(Res), ver \in [Res -> 0..Versions] :
        res = o.res /\ res # <<>> /\ ver = o.ver /\ Touched(o) = ToSet(res)
  BY <1>1, TouchedFacts DEF OpType
<1>3. PICK r0 \in Res : r0 = res[1]
  BY <1>2, TailSet
<1>4. PICK q \in Seq(Owns[r0]) : q = o.todo /\ q # <<>>
  BY <1>1, <1>2, <1>3 DEF OpType
<1>5. PICK m0 \in Owns[r0], rest \in Seq(Owns[r0]) :
        m0 = Head(q) /\ m0 = q[1] /\ rest = Tail(q) /\ ToSet(q) = {m0} \cup ToSet(rest) /\ ToSet(q) \subseteq Owns[r0]
  <2>1. Tail(q) \in Seq(Owns[r0]) /\ Head(q) = q[1] /\ q[1] \in Owns[r0] /\ ToSet(q) = {q[1]} \cup ToSet(Tail(q))
    BY <1>4, TailSet
  <2>2. ToSet(q) \subseteq Owns[r0]
    BY ToSetFacts
  <2> QED  BY <2>1, <2>2, Zenon
<1>6. PICK tl \in Seq(Res) : tl = Tail(res) /\ r0 = Head(res) /\ ToSet(res) = {r0} \cup ToSet(tl)
  BY <1>2, <1>3, TailSet
<1>7. PICK j : j = ToDetach(rest, attached)
  OBVIOUS
<1>8. /\ task' = Drained(m0, FALSE)
      /\ \/ /\ j # 0
            /\ attached' = attached \ ({m0} \cup Before(rest, j))
            /\ pool' = [pool EXCEPT ![rest[j]] = 0]
            /\ ops' = (ops \ {o}) \cup {Syncing(res, ver, From(rest, j))}
            /\ UNCHANGED <<state, live, declared, replayed, net, ended, made, session, lapsed>>
         \/ SyncOn(ops \ {o}, ver, tl, attached \ ToSet(q), [live EXCEPT ![r0] = "lost"])
  <2>1. SyncNext(o)
    OBVIOUS
  <2> QED  BY <1>2, <1>4, <1>5, <1>6, <1>7, <2>1 DEF SyncNext, Replace
<1>9. Moved(task') /\ \A t \in Tasks : task'[t].st = "RUNNING" => task'[t].member # m0
  <2>1. Moved(task) /\ task \in [Tasks -> TaskRec]
    BY <1>1, TasksStay DEF Plain
  <2>2. Moved(Drained(m0, FALSE)) /\ \A t \in Tasks : Drained(m0, FALSE)[t].st = "RUNNING" => Drained(m0, FALSE)[t].member # m0
    BY <2>1, CallFacts
  <2> QED  BY <1>8, <2>2
<1>10. \A m \in Mem : Draining(m) => m = m0 \/ \E p \in ops \ {o} : p.kind \in {"leave", "sync"} /\ p.todo[1] = m
  BY <1>4, <1>5 DEF Draining
<1>11. ASSUME NEW r \in ToSet(res) \ raced
       PROVE  /\ Here(ops, r) = {o} /\ Here(ops \ {o}, r) = {} /\ joined[r] # 0 /\ joined[r] = ver[r] /\ MembersHere(r)
              /\ \A m \in Owns[r] : m \in attached /\ m # m0 => Declared(m, r)
  <2>1. r \in Res /\ o \in Here(ops, r)
    BY <1>2, <1>11, ToSetFacts DEF Here
  <2>2. ResSound(r) /\ OpsTyped
    BY <1>11, <2>1 DEF ResPart, BasePart
  <2>3. Here(ops, r) = {o} /\ OpSound(o, r)
    BY <2>1, <2>2, ResAny
  <2>4. Here(ops \ {o}, r) = {}
    BY <2>3 DEF Here
  <2>5. joined[r] # 0 /\ joined[r] = ver[r]
    BY <1>1, <1>2, <2>3 DEF OpSound, Holds
  <2>6. MembersHere(r) /\ \A m \in Owns[r] : m \in attached /\ m # m0 => Declared(m, r)
    BY <1>1, <1>4, <1>5, <2>3 DEF OpSound
  <2> QED  BY <2>3, <2>4, <2>5, <2>6
<1>12. raced \subseteq raced' /\ raced' \subseteq Res
  BY <1>1 DEF Plain
<1>13. \A r \in Res \ ToSet(res) : Here(ops \ {o}, r) = Here(ops, r)
  BY <1>2 DEF Here
<1>14. CASE SyncOn(ops \ {o}, ver, tl, attached \ ToSet(q), [live EXCEPT ![r0] = "lost"])
  <2>1. PICK lv : lv = [live EXCEPT ![r0] = "lost"]
    OBVIOUS
  <2>2. lv \in [Res -> {"ok", "suspect", "lost"}] /\ lv[r0] = "lost" /\ \A r \in Res : r # r0 => lv[r] = live[r]
    BY <1>1, <2>1 DEF Plain
  <2>3. PICK att : att = attached \ ToSet(q)
    OBVIOUS
  <2>4. \A r \in ToSet(tl) \ raced' :
          /\ Here(ops \ {o}, r) = {} /\ joined[r] # 0 /\ joined[r] = ver[r]
          /\ \A m \in Owns[r] : m \in att => Declared(m, r)
    BY <1>1, <1>5, <1>6, <1>11, <2>3
  <2>5. att \subseteq Mem
    BY <1>1, <2>3 DEF Plain
  <2>6. SyncOn(ops \ {o}, ver, tl, att, lv)
    BY <1>14, <2>1, <2>3
  <2>7. SyncStep(ops \ {o}, ver, tl, att, lv, {m0})
    BY <1>1, <1>9, <1>10, <1>12, <2>2, <2>4, <2>5, <2>6 DEF SyncStep
  <2>8. /\ BasePart' /\ TaskPart' /\ joined' = joined /\ net' = net
        /\ \A r \in ToSet(tl) \ raced' : ResSound(r)'
        /\ \A r \in Res \ ToSet(tl) : Elsewhere(ops \ {o}, att, lv, r)
    BY <2>7, SyncOnKeeps
  <2>9. ASSUME NEW r \in Res \ raced'
        PROVE  ResSound(r)'
    <3>1. ResSound(r) /\ OpsTyped /\ OpsTyped'
      BY <1>1, <2>8, <2>9 DEF ResPart, BasePart
    <3>2. CASE r \in ToSet(tl)
      BY <2>8, <2>9, <3>2
    <3>3. CASE r \notin ToSet(res)
      <4>1. r # r0 /\ \A m \in Owns[r] : m \notin ToSet(q)
        <5>1. r # r0
          BY <1>6, <3>3
        <5> QED  BY <1>5, <5>1, FedShape
      <4>2. Elsewhere(ops \ {o}, att, lv, r)
        BY <1>6, <2>8, <3>3
      <4>3. Same(r) /\ SameNet(r)
        BY <1>13, <2>2, <2>3, <2>8, <3>3, <4>1, <4>2 DEF Elsewhere, Same, SameNet
      <4> QED  BY <3>1, <4>3, Untouched
    <3>4. CASE r \in ToSet(res) /\ r \notin ToSet(tl)
      <4>1. r = r0 /\ Elsewhere(ops \ {o}, att, lv, r)
        BY <1>6, <2>8, <3>4
      <4>2. Here(ops', r) = {} /\ live'[r] = "lost"
        BY <1>1, <1>11, <2>2, <2>9, <3>4, <4>1 DEF Elsewhere
      <4>3. \A m \in Owns[r] : m \in attached' => m \in attached /\ m # m0
        BY <1>5, <2>3, <4>1 DEF Elsewhere
      <4>4. joined[r] # 0 /\ \A m \in Owns[r] : m \in attached' => Declared(m, r)
        BY <1>1, <1>11, <2>9, <3>4, <4>3
      <4>5. IdleSound(r)'
        BY <2>8, <4>1, <4>2, <4>4 DEF Elsewhere, IdleSound, MembersHere, Declared
      <4> QED  BY <3>1, <4>2, <4>5, ResNext
    <3> QED  BY <3>2, <3>3, <3>4
  <2> QED  BY <2>8, <2>9 DEF ResPart
<1>15. CASE /\ j # 0
            /\ attached' = attached \ ({m0} \cup Before(rest, j))
            /\ pool' = [pool EXCEPT ![rest[j]] = 0]
            /\ ops' = (ops \ {o}) \cup {Syncing(res, ver, From(rest, j))}
            /\ UNCHANGED <<state, live, declared, replayed, net, ended, made, session, lapsed>>
  <2>1. PICK n, B, g : n = rest[j] /\ B = Before(rest, j) /\ g = From(rest, j)
    OBVIOUS
  <2>2. n \in Owns[r0] /\ B \subseteq Owns[r0] /\ g \in Seq(Owns[r0]) /\ g # <<>> /\ g[1] = n /\ n \in Mem
    <3>1. j = FirstIn(rest, {m \in attached : Present(m)})
      BY <1>7 DEF ToDetach
    <3>2. B \subseteq ToSet(rest) /\ n \in Owns[r0] /\ g \in Seq(Owns[r0]) /\ g # <<>> /\ g[1] = n
      BY <1>15, <2>1, <3>1, FirstInFacts
    <3>3. ToSet(rest) \subseteq Owns[r0] /\ Owns[r0] \subseteq Mem
      BY ToSetFacts, OwnsFacts
    <3> QED  BY <3>2, <3>3
  <2>3. PICK x : x = Syncing(res, ver, g)
    OBVIOUS
  <2>4. OpType(x) /\ Touched(x) = ToSet(res) /\ x.kind = "sync" /\ x.todo = g /\ x.ver = ver
    BY <1>2, <1>3, <2>2, <2>3, SyncingFacts
  <2>5. /\ ops' = (ops \ {o}) \cup {x} /\ attached' = attached \ ({m0} \cup B) /\ pool' = [pool EXCEPT ![n] = 0]
        /\ UNCHANGED <<joined, ledger, live, declared, replayed, net, ended, made, session, lapsed>>
    BY <1>15, <2>1, <2>3 DEF state
  <2>6. pool' \in [Mem -> 0..Versions] /\ \A m \in Mem : pool'[m] = IF m = n THEN 0 ELSE pool[m]
    <3>1. pool \in [Mem -> 0..Versions] /\ Versions \in Nat
      BY <1>1, FedShape DEF Plain
    <3> QED  BY <2>2, <2>5, <3>1
  <2>7. BasePart'
    <3>1. OpsFine(ops')
      BY <2>4, <2>5, OpsStep
    <3>2. Plain'
      BY <1>1, <1>9, <2>5, <2>6 DEF Plain, Moved
    <3>3. Started'
      BY <1>1, <2>5 DEF BasePart, Started
    <3> QED  BY <3>1, <3>2, <3>3, BaseParts
  <2>8. ASSUME NEW r \in Res \ raced'
        PROVE  ResSound(r)'
    <3>1. ResSound(r) /\ OpsTyped /\ OpsTyped' /\ r \notin raced
      BY <1>1, <2>7, <2>8 DEF ResPart, BasePart
    <3>2. \A m \in Owns[r] : m \in Mem /\ (r # r0 => m \notin Owns[r0])
      <4>1. \A m \in Owns[r] : m \in Mem /\ ResOf[m] = r
        BY OwnsFacts
      <4>2. \A m \in Mem : m \in Owns[r0] <=> ResOf[m] = r0
        BY OwnsFacts
      <4> QED  BY <4>1, <4>2, Zenon
    <3>3. CASE r \notin ToSet(res)
      <4>1. r # r0
        BY <1>6, <3>3
      <4>2. Here(ops', r) = Here(ops, r)
        BY <1>2, <2>4, <2>5, <3>3 DEF Here
      <4>3. Same(r) /\ SameNet(r)
        BY <2>2, <2>5, <2>6, <3>2, <4>1, <4>2 DEF Same, SameNet
      <4> QED  BY <3>1, <4>3, Untouched
    <3>4. CASE r \in ToSet(res)
      <4>1. /\ Here(ops \ {o}, r) = {} /\ joined[r] # 0 /\ joined[r] = ver[r]
            /\ \A m \in Owns[r] : m \in attached /\ m # m0 => Declared(m, r)
        BY <1>11, <3>1, <3>4
      <4>2. Here(ops', r) = {x}
        BY <2>4, <2>5, <3>4, <4>1 DEF Here
      <4>3. \A m \in Owns[r] : m \in attached' /\ m # n => joined'[r] # 0 /\ pool'[m] = Decl(m, joined'[r])
        BY <2>5, <2>6, <3>2, <4>1 DEF Declared
      <4>4. OpSound(x, r)'
        BY <2>2, <2>4, <2>5, <4>1, <4>3 DEF OpSound, Holds, MembersHere, Declared
      <4> QED  BY <3>1, <4>2, <4>4, ResNext
    <3> QED  BY <3>3, <3>4
  <2>9. TaskPart'
    <3>1. \A t \in Tasks : Kept(t)
      BY <1>1, <2>5, EntriesStay
    <3>2. ASSUME NEW t \in Tasks, NEW m \in Mem, task'[t].st = "RUNNING", task'[t].member = m, RunsAt(m)
          PROVE  RunsAt(m)'
      <4>1. m # m0
        BY <1>9, <3>2
      <4>2. Draining(m) => Draining(m)'
        BY <1>10, <2>5, <4>1 DEF Draining
      <4>3. m = n => Draining(m)'
        BY <2>2, <2>4, <2>5 DEF Draining
      <4> QED  BY <1>1, <2>5, <2>6, <3>2, <4>2, <4>3 DEF RunsAt
    <3>3. Plain' /\ lapsed \subseteq lapsed'
      BY <2>5, <2>7 DEF BasePart, TypeOK, Plain
    <3> QED  BY <1>1, <1>9, <1>12, <3>1, <3>2, <3>3, TasksKept
  <2> QED  BY <2>7, <2>8, <2>9 DEF ResPart
<1> QED  BY <1>8, <1>14, <1>15

-----------------------------------------------------------------------------
(* Tasks. *)

\* A step that is about tasks only.
LEMMA ElsewhereKept ==
  ASSUME BasePart, ResPart, Plain',
         UNCHANGED <<joined, live, attached, declared, replayed, net, pool, made, session, ops, raced>>
  PROVE  /\ BasePart' /\ ResPart' /\ \A m \in Mem : RunsAt(m) => RunsAt(m)'
<1>1. BasePart'
  <2>1. OpsFine(ops')
    BY BaseParts
  <2>2. Started'
    BY DEF BasePart, Started
  <2> QED  BY <2>1, <2>2, BaseParts
<1>2. ASSUME NEW r \in Res \ raced'
      PROVE  ResSound(r)'
  <2>1. ResSound(r) /\ OpsTyped /\ OpsTyped'
    BY <1>1, <1>2 DEF ResPart, BasePart
  <2>2. Same(r) /\ SameNet(r)
    BY DEF Same, SameNet, Pending
  <2> QED  BY <2>1, <2>2, Untouched
<1>3. \A m \in Mem : RunsAt(m) => RunsAt(m)'
  BY DEF RunsAt, Draining
<1> QED  BY <1>1, <1>2, <1>3 DEF ResPart

\* A task that the step is not about.
LEMMA OtherTask ==
  ASSUME Plain, NEW t \in Tasks, TaskAt(t), task'[t] = task[t], ledger'[t] = ledger[t],
         joined' = joined, raced' = raced, t \in lapsed => t \in lapsed',
         \A m \in Mem : RunsAt(m) => RunsAt(m)'
  PROVE  TaskAt(t)'
<1>1. task[t].member \in Mem \cup {None}
  BY DEF Plain, TaskRec
<1>2. task'[t].st = "RUNNING" => task'[t].member # None /\ RunsAt(task[t].member)'
  <2> SUFFICES ASSUME task'[t].st = "RUNNING"
               PROVE  task'[t].member # None /\ RunsAt(task[t].member)'
    OBVIOUS
  <2>1. task[t].member # None /\ RunsAt(task[t].member)
    BY DEF TaskAt
  <2>2. PICK m \in Mem : m = task[t].member /\ m = task'[t].member
    BY <1>1, <2>1
  <2>3. RunsAt(m)'
    BY <2>1, <2>2
  <2> QED  BY <2>1, <2>2, <2>3 DEF RunsAt, Draining
<1> QED  BY <1>2 DEF TaskAt

\* AllocationEnds.
LEMMA AllocationEndsKeeps ==
  ASSUME BasePart, ResPart, TaskPart, NEW m0 \in Mem, AllocationEnds(m0)
  PROVE  BasePart' /\ ResPart' /\ TaskPart'
<1>1. /\ m0 \in Allocated /\ ended' = ended \cup {m0}
      /\ UNCHANGED <<joined, ledger, live, attached, declared, replayed, net, pool, made, session, task, lapsed, ops, raced>>
  BY DEF AllocationEnds, state, disp
<1>2. Plain
  BY BaseParts
<1>3. Plain'
  BY <1>1, <1>2 DEF Plain
<1>4. BasePart' /\ ResPart'
  BY <1>1, <1>3, ElsewhereKept
<1>5. TaskPart'
  <2>1. \A m \in Mem : Draining(m) => Draining(m)'
    BY <1>1 DEF Draining
  <2> QED  BY <1>1, <1>2, <1>3, <2>1, TasksAlone
<1> QED  BY <1>4, <1>5

\* TaskStep: a task is placed on a member that is there.
LEMMA TaskStepKeeps ==
  ASSUME BasePart, ResPart, TaskPart, NEW t0 \in Tasks, TaskStep(t0)
  PROVE  BasePart' /\ ResPart' /\ TaskPart'
<1>1. Plain /\ task \in [Tasks -> TaskRec] /\ TaskAt(t0)
  BY BaseParts, TaskPartAt DEF Plain
<1>2. PICK a \in TaskRec : a = task[t0]
  BY <1>1
<1>3. PICK b : /\ task' = [task EXCEPT ![t0] = b]
               /\ \/ \E m \in Mem : a.st = "QUEUED" /\ pool[m] # 0 /\ b = [a EXCEPT !.st = "RUNNING", !.member = m]
                  \/ a.st = "RUNNING" /\ b = [a EXCEPT !.st = "DONE"]
                  \/ a.st = "RUNNING" /\ b = [a EXCEPT !.st = "QUEUED", !.member = None]
  <2>1. ASSUME NEW m \in Mem, task[t0].st = "QUEUED", Present(m),
               task' = [task EXCEPT ![t0].st = "RUNNING", ![t0].member = m]
        PROVE  \E b : /\ task' = [task EXCEPT ![t0] = b]
                      /\ a.st = "QUEUED" /\ pool[m] # 0 /\ b = [a EXCEPT !.st = "RUNNING", !.member = m]
    <3>1. PICK b : b = [a EXCEPT !.st = "RUNNING", !.member = m]
      OBVIOUS
    <3>2. task' = [task EXCEPT ![t0] = b]
      BY <1>1, <1>2, <2>1, <3>1
    <3> QED  BY <1>2, <2>1, <3>1, <3>2 DEF Present
  <2>2. ASSUME task[t0].st = "RUNNING", task' = [task EXCEPT ![t0].st = "DONE"]
        PROVE  \E b : task' = [task EXCEPT ![t0] = b] /\ a.st = "RUNNING" /\ b = [a EXCEPT !.st = "DONE"]
    <3>1. PICK b : b = [a EXCEPT !.st = "DONE"]
      OBVIOUS
    <3>2. task' = [task EXCEPT ![t0] = b]
      BY <1>1, <1>2, <2>2, <3>1
    <3> QED  BY <1>2, <2>2, <3>1, <3>2
  <2>3. ASSUME task[t0].st = "RUNNING", task' = [task EXCEPT ![t0].st = "QUEUED", ![t0].member = None]
        PROVE  \E b : task' = [task EXCEPT ![t0] = b] /\ a.st = "RUNNING" /\ b = [a EXCEPT !.st = "QUEUED", !.member = None]
    <3>1. PICK b : b = [a EXCEPT !.st = "QUEUED", !.member = None]
      OBVIOUS
    <3>2. task' = [task EXCEPT ![t0] = b]
      BY <1>1, <1>2, <2>3, <3>1
    <3> QED  BY <1>2, <2>3, <3>1, <3>2
  <2>4. \/ \E m \in Mem : /\ task[t0].st = "QUEUED" /\ Present(m)
                          /\ task' = [task EXCEPT ![t0].st = "RUNNING", ![t0].member = m]
        \/ task[t0].st = "RUNNING" /\ task' = [task EXCEPT ![t0].st = "DONE"]
        \/ task[t0].st = "RUNNING" /\ task' = [task EXCEPT ![t0].st = "QUEUED", ![t0].member = None]
    BY Zenon DEF TaskStep
  <2>5. CASE \E m \in Mem : /\ task[t0].st = "QUEUED" /\ Present(m)
                            /\ task' = [task EXCEPT ![t0].st = "RUNNING", ![t0].member = m]
    <3>1. PICK m \in Mem : /\ task[t0].st = "QUEUED" /\ Present(m)
                           /\ task' = [task EXCEPT ![t0].st = "RUNNING", ![t0].member = m]
      BY <2>5
    <3>2. PICK b : /\ task' = [task EXCEPT ![t0] = b]
                   /\ a.st = "QUEUED" /\ pool[m] # 0 /\ b = [a EXCEPT !.st = "RUNNING", !.member = m]
      BY <2>1, <3>1, Zenon
    <3>3. \E n \in Mem : a.st = "QUEUED" /\ pool[n] # 0 /\ b = [a EXCEPT !.st = "RUNNING", !.member = n]
      BY <3>2, Zenon
    <3> QED  BY <3>2, <3>3, Zenon
  <2>6. CASE task[t0].st = "RUNNING" /\ task' = [task EXCEPT ![t0].st = "DONE"]
    BY <2>2, <2>6, Zenon
  <2>7. CASE task[t0].st = "RUNNING" /\ task' = [task EXCEPT ![t0].st = "QUEUED", ![t0].member = None]
    BY <2>3, <2>7, Zenon
  <2> QED  BY <2>4, <2>5, <2>6, <2>7, Zenon
<1>4. UNCHANGED <<joined, ledger, live, attached, declared, replayed, net, ended, pool, made, session, lapsed, ops, raced>>
  BY DEF TaskStep, state, plug
<1>5. /\ b \in TaskRec /\ a.st \in {"QUEUED", "RUNNING"} /\ b.st \in {"QUEUED", "RUNNING", "DONE"}
      /\ b.st = "QUEUED" => b.member = None
      /\ b.st = "RUNNING" => b.member \in Mem /\ pool[b.member] # 0
  BY <1>3 DEF TaskRec, Final
<1>6. task' \in [Tasks -> TaskRec] /\ task'[t0] = b /\ \A t \in Tasks : t # t0 => task'[t] = task[t]
  BY <1>1, <1>3, <1>5
<1>7. Plain'
  BY <1>1, <1>4, <1>6 DEF Plain
<1>8. BasePart' /\ ResPart' /\ \A m \in Mem : RunsAt(m) => RunsAt(m)'
  BY <1>4, <1>7, ElsewhereKept
<1>9. TaskAt(t0)'
  <2>1. b.st = "RUNNING" => b.member # None /\ RunsAt(task[t0].member)'
    <3> SUFFICES ASSUME b.st = "RUNNING"
                 PROVE  b.member # None /\ RunsAt(task[t0].member)'
      OBVIOUS
    <3>1. b.member \in Mem /\ pool'[task'[t0].member] # 0
      BY <1>4, <1>5, <1>6
    <3> QED  BY <3>1, NoneIsNone DEF RunsAt
  <2>2. a.st \notin Final /\ (ledger[t0] # None => ledger[t0].st \notin Final)
    BY <1>1, <1>2, <1>5 DEF TaskAt, Final
  <2> QED  BY <1>1, <1>2, <1>4, <1>5, <1>6, <2>1, <2>2 DEF TaskAt
<1>10. ASSUME NEW t \in Tasks, t # t0
       PROVE  TaskAt(t)'
  <2>1. TaskAt(t)
    BY TaskPartAt
  <2> QED  BY <1>1, <1>4, <1>6, <1>8, <1>10, <2>1, OtherTask
<1> QED  BY <1>8, <1>9, <1>10, TaskPartNext

\* Submit.
LEMMA SubmitKeeps ==
  ASSUME BasePart, ResPart, TaskPart, NEW t0 \in Tasks, Submit(t0)
  PROVE  BasePart' /\ ResPart' /\ TaskPart'
<1>1. Plain /\ task \in [Tasks -> TaskRec] /\ ledger \in [Tasks -> Entry \cup {None}] /\ TaskAt(t0)
  BY BaseParts, TaskPartAt DEF Plain
<1>2. PICK a \in TaskRec : a = task[t0]
  BY <1>1
<1>3. PICK m0, e, c :
        /\ m0 \in Mem /\ c = ClassOf[m0]
        /\ \/ a.st \in {"QUEUED", "RUNNING", "DONE"} /\ task' = task /\ e = [res |-> ResOf[m0], member |-> None, st |-> a.st]
           \/ /\ task' = [task EXCEPT ![t0] = [st |-> "QUEUED", member |-> None, class |-> c]]
              /\ e = [res |-> ResOf[m0], member |-> None, st |-> "QUEUED"]
        /\ ledger' = [ledger EXCEPT ![t0] = e]
  BY <1>2 DEF Submit, Eligible
<1>4. /\ lapsed' = lapsed \ {t0}
      /\ UNCHANGED <<joined, live, attached, declared, replayed, net, ended, pool, made, session, ops, raced>>
  BY DEF Submit, plug
<1>5. e \in Entry /\ e # None /\ e.member = None /\ c \in Classes
  BY <1>2, <1>3, OwnsFacts, NoneIsNone, FedShape DEF Entry, Final
<1>6. PICK b : b = task'[t0]
  OBVIOUS
<1>7. /\ task' \in [Tasks -> TaskRec] /\ ledger' \in [Tasks -> Entry \cup {None}] /\ ledger'[t0] = e
      /\ \A t \in Tasks : t # t0 => task'[t] = task[t] /\ ledger'[t] = ledger[t]
      /\ \/ b = a /\ e.st = a.st /\ a.st \in {"QUEUED", "RUNNING", "DONE"}
         \/ b.st = "QUEUED" /\ b.member = None /\ e.st = "QUEUED"
  <2>1. [st |-> "QUEUED", member |-> None, class |-> c] \in TaskRec
    BY <1>5 DEF TaskRec
  <2> QED  BY <1>1, <1>2, <1>3, <1>5, <1>6, <2>1
<1>8. Plain'
  BY <1>1, <1>4, <1>7 DEF Plain
<1>9. BasePart' /\ ResPart' /\ \A m \in Mem : RunsAt(m) => RunsAt(m)'
  BY <1>4, <1>8, ElsewhereKept
<1>10. TaskAt(t0)'
  <2>1. b.st = "RUNNING" => b.member # None /\ RunsAt(task[t0].member)'
    <3> SUFFICES ASSUME b.st = "RUNNING"
                 PROVE  b.member # None /\ RunsAt(task[t0].member)'
      OBVIOUS
    <3>1. b = a /\ a.member # None /\ RunsAt(task[t0].member)
      BY <1>1, <1>2, <1>7 DEF TaskAt
    <3>2. PICK m \in Mem : m = task[t0].member /\ m = task'[t0].member
      BY <1>2, <1>6, <3>1 DEF TaskRec
    <3>3. RunsAt(m)'
      BY <1>9, <3>1, <3>2
    <3> QED  BY <3>1, <3>2, <3>3 DEF RunsAt, Draining
  <2>2. b.st \in {"NONE", "QUEUED"} => b.member = None
    BY <1>1, <1>2, <1>7 DEF TaskAt
  <2> QED  BY <1>5, <1>6, <1>7, <2>1, <2>2 DEF TaskAt, Final
<1>11. ASSUME NEW t \in Tasks, t # t0
       PROVE  TaskAt(t)'
  <2>1. TaskAt(t)
    BY TaskPartAt
  <2> QED  BY <1>1, <1>4, <1>7, <1>9, <1>11, <2>1, OtherTask
<1> QED  BY <1>9, <1>10, <1>11, TaskPartNext

\* Poll: the entry follows the dispatcher, and a running task is where a record is.
LEMMA PollKeeps ==
  ASSUME BasePart, ResPart, TaskPart, NEW t0 \in Tasks, Poll(t0)
  PROVE  BasePart' /\ ResPart' /\ TaskPart'
<1>1. Plain /\ task \in [Tasks -> TaskRec] /\ ledger \in [Tasks -> Entry \cup {None}] /\ TaskAt(t0)
  BY BaseParts, TaskPartAt DEF Plain
<1>2. PICK d \in TaskRec : d = task[t0]
  BY <1>1
<1>3. PICK e \in Entry : e = ledger[t0] /\ e # None
  BY <1>1 DEF Poll
<1>4. PICK f : /\ ledger' = [ledger EXCEPT ![t0] = f]
               /\ f = [st     |-> d.st,
                       member |-> IF d.member # None \/ d.st \notin Final THEN d.member ELSE e.member,
                       res    |-> IF d.member # None /\ d.member # e.member THEN ResOf[d.member] ELSE e.res]
  BY <1>2, <1>3 DEF Poll
<1>5. UNCHANGED <<joined, live, attached, declared, replayed, net, ended, pool, made, session, task, lapsed, ops, raced>>
  BY DEF Poll, plug, disp
<1>6. /\ d.st # "NONE" /\ (e.member # None => e.res = ResOf[e.member])
      /\ d.st \in {"NONE", "QUEUED"} => d.member = None
      /\ d.st = "RUNNING" => d.member # None /\ RunsAt(d.member)
  BY <1>1, <1>2, <1>3 DEF TaskAt
<1>7. /\ d.st \in {"NONE", "QUEUED", "RUNNING"} \cup Final /\ d.member \in Mem \cup {None}
      /\ e.res \in Res \cup {None} /\ e.member \in Mem \cup {None}
  BY DEF TaskRec, Entry
<1>8. /\ f.st = d.st
      /\ f.member = IF d.member # None \/ d.st \notin Final THEN d.member ELSE e.member
      /\ f.res = IF d.member # None /\ d.member # e.member THEN ResOf[d.member] ELSE e.res
  BY <1>4
<1>9. f \in Entry /\ f # None
  <2>1. f.st \in {"QUEUED", "RUNNING"} \cup Final /\ f.member \in Mem \cup {None}
    BY <1>6, <1>7, <1>8
  <2>2. f.res \in Res \cup {None}
    BY <1>7, <1>8, OwnsFacts
  <2> QED  BY <1>4, <1>8, <2>1, <2>2, NoneIsNone DEF Entry
<1>10. ledger' \in [Tasks -> Entry \cup {None}] /\ ledger'[t0] = f /\ \A t \in Tasks : t # t0 => ledger'[t] = ledger[t]
  BY <1>1, <1>4, <1>9
<1>11. Plain'
  BY <1>1, <1>5, <1>10 DEF Plain
<1>12. BasePart' /\ ResPart' /\ \A m \in Mem : RunsAt(m) => RunsAt(m)'
  BY <1>5, <1>11, ElsewhereKept
<1>13. TaskAt(t0)'
  <2>1. f.member # None => f.res = ResOf[f.member]
    BY <1>6, <1>8
  <2>2. f.st \notin Final /\ f.member # None => joined[ResOf[f.member]] # 0 \/ ResOf[f.member] \in raced
    <3> SUFFICES ASSUME f.st \notin Final, f.member # None
                 PROVE  joined[ResOf[f.member]] # 0 \/ ResOf[f.member] \in raced
      OBVIOUS
    <3>1. f.member = d.member /\ d.st = "RUNNING" /\ d.member \in Mem /\ RunsAt(d.member)
      BY <1>6, <1>7, <1>8
    <3> QED  BY <3>1, RunsJoined
  <2>3. d.st = "RUNNING" => RunsAt(task[t0].member)'
    <3> SUFFICES ASSUME d.st = "RUNNING"
                 PROVE  RunsAt(task[t0].member)'
      OBVIOUS
    <3>1. PICK m \in Mem : m = task[t0].member /\ m = task'[t0].member /\ RunsAt(m)
      BY <1>2, <1>5, <1>6, <1>7
    <3>2. RunsAt(m)'
      BY <1>12, <3>1
    <3> QED  BY <3>1, <3>2 DEF RunsAt, Draining
  <2> QED  BY <1>2, <1>5, <1>6, <1>8, <1>9, <1>10, <2>1, <2>2, <2>3 DEF TaskAt
<1>14. ASSUME NEW t \in Tasks, t # t0
       PROVE  TaskAt(t)'
  <2>1. TaskAt(t)
    BY TaskPartAt
  <2> QED  BY <1>1, <1>5, <1>10, <1>12, <1>14, <2>1, OtherTask
<1> QED  BY <1>12, <1>13, <1>14, TaskPartNext

-----------------------------------------------------------------------------
(* The invariant and what follows from it. *)

\* IndInv, by its parts.
LEMMA InvParts == IndInv <=> BasePart /\ ResPart /\ TaskPart
BY DEF IndInv, BasePart, ResPart, TaskPart

\* It holds at first.
LEMMA InitInv == Init => IndInv
<1> SUFFICES ASSUME Init
             PROVE  BasePart /\ ResPart /\ TaskPart
  BY InvParts
<1>1. /\ joined = [r \in Res |-> 0] /\ ledger = [t \in Tasks |-> None]
      /\ live = [r \in Res |-> "lost"] /\ net = [r \in Res |-> "lost"]
      /\ attached = {} /\ declared = {} /\ replayed = FALSE /\ ended = {}
      /\ pool = [m \in Mem |-> 0] /\ made = {} /\ session = FALSE
      /\ task = [t \in Tasks |-> NoTask]
      /\ lapsed = {} /\ ops = {} /\ raced = {}
  BY DEF Init
<1>2. NoTask \in TaskRec /\ NoTask.st = "NONE" /\ NoTask.member = None
  BY DEF NoTask, TaskRec
<1>3. Versions \in Nat /\ IsFiniteSet({}) /\ Cardinality({}) = 0 /\ Overlap \in Nat
  BY FedShape, FS_EmptySet
<1>4. BasePart
  <2>1. TypeOK
    <3>1. joined \in [Res -> 0..Versions] /\ pool \in [Mem -> 0..Versions]
      BY <1>1, <1>3
    <3>2. live \in [Res -> {"ok", "suspect", "lost"}] /\ net \in [Res -> {"present", "suspect", "lost"}]
      BY <1>1
    <3>3. ledger \in [Tasks -> Entry \cup {None}] /\ task \in [Tasks -> TaskRec]
      BY <1>1, <1>2
    <3>4. /\ attached \subseteq Mem /\ ended \subseteq Allocated /\ lapsed \subseteq Tasks /\ raced \subseteq Res
          /\ declared \subseteq Classes /\ made \subseteq Classes
          /\ replayed \in BOOLEAN /\ session \in BOOLEAN
      BY <1>1
    <3>5. Cardinality(ops) <= Overlap
      BY <1>1, <1>3
    <3> QED  BY <3>1, <3>2, <3>3, <3>4, <3>5 DEF TypeOK
  <2>2. OpsTyped
    BY <1>1, <1>3 DEF OpsTyped
  <2>3. Started
    BY <1>1, OwnsFacts DEF Started
  <2> QED  BY <2>1, <2>2, <2>3 DEF BasePart
<1>5. ASSUME NEW r \in Res
      PROVE  ResSound(r)
  <2>1. OpsTyped /\ Here(ops, r) = {}
    BY <1>1, <1>4 DEF BasePart, Here
  <2>2. \A m \in Owns[r] : m \in Mem
    BY OwnsFacts
  <2>3. IdleSound(r)
    BY <1>1, <2>2 DEF IdleSound, MembersHere
  <2> QED  BY <2>1, <2>3, ResIdle
<1>6. ASSUME NEW t \in Tasks
      PROVE  TaskAt(t)
  BY <1>1, <1>2 DEF TaskAt
<1> QED  BY <1>4, <1>5, <1>6, TaskPartAt DEF ResPart

\* Every step keeps it.
LEMMA NextInv == IndInv /\ [Next]_vars => IndInv'
<1> SUFFICES ASSUME BasePart, ResPart, TaskPart, [Next]_vars
             PROVE  BasePart' /\ ResPart' /\ TaskPart'
  <2>1. IndInv <=> BasePart /\ ResPart /\ TaskPart
    BY InvParts
  <2>2. (IndInv <=> BasePart /\ ResPart /\ TaskPart)'
    BY InvParts, PTL
  <2> QED  BY <2>1, <2>2
<1>1. ASSUME NEW o \in ops, SyncStart(o)
      PROVE  BasePart' /\ ResPart' /\ TaskPart'
  BY <1>1, SyncStartKeeps
<1>2. ASSUME ~Pending, NEW r \in Res, NEW v \in 1..Versions, JoinStart(r, v)
      PROVE  BasePart' /\ ResPart' /\ TaskPart'
  <2>1. BasePart' /\ ResPart'
    BY <1>2, JoinStartKeeps
  <2>2. Plain /\ Plain'
    BY <2>1, BaseParts DEF BasePart, TypeOK, Plain
  <2>3. /\ UNCHANGED <<task, ledger, joined, pool, replayed, lapsed>> /\ ops \subseteq ops' /\ raced \subseteq raced'
    BY <1>2 DEF JoinStart, Race, state, plug, disp
  <2>4. \A m \in Mem : Draining(m) => Draining(m)'
    BY <2>3 DEF Draining
  <2> QED  BY <2>1, <2>2, <2>3, <2>4, TasksAlone
<1>3. ASSUME ~Pending, NEW o \in ops, JoinSized(o)
      PROVE  BasePart' /\ ResPart' /\ TaskPart'
  <2>1. BasePart' /\ ResPart'
    BY <1>3, JoinSizedKeeps
  <2>2. Plain /\ Plain'
    BY <2>1, BaseParts DEF BasePart, TypeOK, Plain
  <2>3. /\ UNCHANGED <<task, ledger, joined, pool, replayed, lapsed, raced>> /\ ops \ {o} \subseteq ops'
        /\ o.kind = "join"
    BY <1>3 DEF JoinSized, Replace, state, plug, disp
  <2>4. \A m \in Mem : Draining(m) => Draining(m)'
    BY <2>3, DrainKept
  <2> QED  BY <2>1, <2>2, <2>3, <2>4, TasksAlone
<1>4. ASSUME ~Pending, NEW o \in ops, Resumed(o)
      PROVE  BasePart' /\ ResPart' /\ TaskPart'
  BY <1>3, <1>4, JoinFinishKeeps, RollbackKeeps, LeaveNextKeeps, LeaveEndsKeeps, SyncNextKeeps DEF Resumed
<1>5. ASSUME ~Pending, Routes
      PROVE  BasePart' /\ ResPart' /\ TaskPart'
  BY <1>2, <1>5, LeaveStartKeeps, FirstRouteKeeps, SubmitKeeps, PollKeeps DEF Routes
<1>6. ASSUME ~Pending, World
      PROVE  BasePart' /\ ResPart' /\ TaskPart'
  BY <1>6, DeliverKeeps, RestartKeeps, AllocationEndsKeeps, TaskStepKeeps DEF World
<1>7. CASE UNCHANGED vars
  <2>1. UNCHANGED <<joined, ledger, live, attached, declared, replayed, net, ended, pool, made, session, task, lapsed, ops, raced>>
    BY <1>7 DEF vars, state, plug, disp
  <2>2. Plain /\ Plain'
    BY <2>1, BaseParts DEF Plain
  <2>3. BasePart' /\ ResPart'
    BY <2>1, <2>2, ElsewhereKept
  <2>4. \A m \in Mem : Draining(m) => Draining(m)'
    BY <2>1 DEF Draining
  <2> QED  BY <2>1, <2>2, <2>3, <2>4, TasksAlone
<1> QED  BY <1>1, <1>4, <1>5, <1>6, <1>7 DEF Next

\* The invariant of the federation: records, pools, attachments and topology
\* agree on every resource on which no two operations have overlapped, and the
\* ledger follows the tasks.
THEOREM Invariance == Spec => []IndInv
BY InitInv, NextInv, PTL DEF Spec

\* From the parts of the invariant: what left is gone, what is `ok' is served.
LEMMA MembersFollow == IndInv => MembersSound
<1> SUFFICES ASSUME BasePart, ResPart, TaskPart
             PROVE  TypeOK /\ LeftIsGoneApart /\ JoinedIsServed /\ OkIsPresent
  BY InvParts DEF MembersSound
<1>1. ASSUME NEW m \in Mem, pool[m] # 0, ResOf[m] \notin raced
      PROVE  joined[ResOf[m]] # 0
  <2>1. ResOf[m] \in Res /\ m \in Owns[ResOf[m]]
    BY OwnsFacts
  <2>2. ResSound(ResOf[m])
    BY <1>1, <2>1 DEF ResPart
  <2> QED  BY <1>1, <2>1, <2>2 DEF ResSound
<1>2. ASSUME NEW r \in Res, joined[r] # 0, live[r] = "ok", r \notin raced \cup Busy
      PROVE  /\ net[r] = "present" \/ Pending
             /\ session /\ \A m \in Owns[r] : m \in attached /\ pool[m] = Decl(m, joined[r])
  <2>1. ResSound(r) /\ OpsTyped
    BY <1>2 DEF ResPart, BasePart
  <2>2. Here(ops, r) = {}
    BY <1>2 DEF Busy, Here
  <2>3. IdleSound(r)
    BY <2>1, <2>2, ResIdle
  <2>4. replayed
    BY <1>2 DEF BasePart, Started
  <2>5. session
    BY <1>2, <2>4 DEF BasePart, Started
  <2> QED  BY <1>2, <2>3, <2>5 DEF IdleSound, Declared
<1>3. LeftIsGoneApart
  BY <1>1 DEF LeftIsGoneApart
<1>4. JoinedIsServed
  <2>1. \A m \in Mem : ResOf[m] \in Res /\ m \in Owns[ResOf[m]]
    BY OwnsFacts
  <2> QED  BY <1>2, <2>1 DEF JoinedIsServed
<1>5. OkIsPresent
  <2> SUFFICES ASSUME Quiet, NEW r \in Res, joined[r] # 0, live[r] = "ok", r \notin raced
               PROVE  net[r] = "present"
    BY DEF OkIsPresent
  <2>1. r \notin Busy /\ ~Pending
    BY DEF Quiet, Busy, Pending
  <2> QED  BY <1>2, <2>1
<1> QED  BY <1>3, <1>4, <1>5 DEF BasePart

\* A resource that left has no member in a pool, a resource the policy may pick
\* is served with the declaration it joined with, and `ok' means present, for
\* any resources, members, classes and interleaving of joins, leaves, topology
\* passes and restarts (_route_join, _route_leave, _sync_attachments,
\* _replay_attachments).
THEOREM MembersAreSound == Spec => []MembersSound
BY Invariance, MembersFollow, PTL

\* A live task is known to the ledger or was let go by a leave, and is never
\* placed on a resource that has left (drop_resource, _cancel_ledger,
\* _route_task).
THEOREM LedgerIsSound == Spec => []LedgerSound
<1>1. IndInv => LedgerSound
  BY DEF IndInv, LedgerSound
<1> QED  BY <1>1, Invariance, PTL

=============================================================================
