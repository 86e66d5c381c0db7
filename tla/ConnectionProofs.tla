-------------------------- MODULE ConnectionProofs --------------------------
(***************************************************************************)
(* Proofs about the connection of an endpoint and the broker: the          *)
(* subscriptions of a runtime and how it connects, the broker it registers *)
(* with, and the calls correlated between two parties; for every set of    *)
(* names, callbacks, sessions and calls and every bound.                   *)
(*                                                                         *)
(* Each part has an inductive invariant of its own: SubInv, RlInv, IndInv  *)
(* of Broker and CallsInv. The first, SubInv, looks ahead through the      *)
(* outbox: On(p, n) says that the broker has p once it has applied the     *)
(* first n frames: wire patterns are counted as often as they are needed,  *)
(* session patterns are only written where the broker routes sessions, and *)
(* no callback falls between two patterns.                                 *)
(***************************************************************************)
EXTENDS Broker, Calls, Subscriptions, RuntimeLife, SeqFacts, FiniteSetTheorems, TLAPS

(***************************************************************************)
(* Subscriptions of a runtime (Subscriptions).                             *)
(***************************************************************************)

\* The callbacks that need pattern p.
Users(p) == {c \in Callbacks : Pattern(c) = p}

\* The outbox has only grown, by frames of this connection that name patterns
\* that were given up or taken on.
Grown(old, new) ==
  /\ out' \in Seq(SubFrame) /\ Len(out) <= Len(out')
  /\ \A i \in 1..Len(out) : out'[i] = out[i]
  /\ \A i \in (Len(out) + 1)..Len(out') :
       /\ out'[i].gen = gen
       /\ \A p \in out'[i].pats : p \in Patterns /\ (old[p] > 0 \/ new[p] > 0)

\* A pattern in use is not withdrawn, one that comes into use is subscribed,
\* and only the last of the new frames withdraws anything.
InOrder(new) ==
  /\ \A i \in (Len(out) + 1)..Len(out'), p \in Patterns : wire'[p] > 0 => ~Has(i, "unsub", p)'
  /\ \A p \in Patterns : wire[p] = 0 /\ new[p] > 0 =>
       \E i \in (Len(out) + 1)..Len(out') : Has(i, "sub", p)'
  /\ \A i \in (Len(out) + 1)..(Len(out') - 1), p \in Patterns : ~Has(i, "unsub", p)'

-----------------------------------------------------------------------------
(* Moving registrations from pattern to pattern. *)

\* Putting a frame, or none, behind the outbox.
LEMMA EmitFacts ==
  ASSUME NEW q \in Seq(SubFrame)
  PROVE  q \o <<>> = q /\ \A f \in SubFrame : q \o <<f>> = Append(q, f)
OBVIOUS

\* _move_wire while disconnected sends nothing; connected, it sends in order.
LEMMA MoveFacts ==
  ASSUME SubTypeOK, gen' = gen,
         NEW old \in [Patterns -> Nat], NEW new \in [Patterns -> Nat], MoveWire(old, new)
  PROVE  /\ Grown(old, new)
         /\ live => InOrder(new)
         /\ wire' = [p \in Patterns |-> wire[p] + new[p] - old[p]]
<1>0. /\ wire \in [Patterns -> Nat] /\ out \in Seq(SubFrame) /\ gen \in 0..MaxConn
      /\ Len(out) \in Nat
  BY DEF SubTypeOK
<1>1. PICK n : n = [p \in Patterns |-> wire[p] + new[p] - old[p]]
  OBVIOUS
<1>2. PICK first \in SUBSET Patterns : first = {p \in Patterns : wire[p] = 0 /\ new[p] > 0}
  OBVIOUS
<1>3. PICK last \in SUBSET Patterns : last = {p \in Patterns : old[p] > 0 /\ n[p] = 0}
  OBVIOUS
<1>4. /\ wire' = n
      /\ out' = IF live THEN out \o Emit("sub", first, FALSE) \o Emit("unsub", last, FALSE)
                ELSE out
  BY <1>1, <1>2, <1>3, Zenon DEF MoveWire
<1>5. wire' = [p \in Patterns |-> wire[p] + new[p] - old[p]]
  BY <1>1, <1>4
<1>6. CASE ~live
  BY <1>0, <1>4, <1>5, <1>6 DEF Grown
<1>7. CASE live
  <2>1. PICK mid : mid = out \o Emit("sub", first, FALSE)
    OBVIOUS
  <2>2. \/ first = {} /\ mid = out
        \/ /\ first # {}
           /\ \E f \in SubFrame : mid = Append(out, f) /\ f.op = "sub" /\ f.pats = first /\ f.gen = gen
    <3>1. CASE first = {}
      <4>1. Emit("sub", first, FALSE) = <<>>
        BY <3>1 DEF Emit
      <4> QED  BY <1>0, <2>1, <3>1, <4>1, EmitFacts
    <3>2. CASE first # {}
      <4>1. PICK f : f = [op |-> "sub", pats |-> first, gen |-> gen, sync |-> FALSE]
        OBVIOUS
      <4>2. f \in SubFrame /\ f.op = "sub" /\ f.pats = first /\ f.gen = gen
        BY <1>0, <4>1 DEF SubFrame
      <4>3. Emit("sub", first, FALSE) = <<f>>
        BY <3>2, <4>1 DEF Emit
      <4>4. mid = Append(out, f)
        BY <1>0, <2>1, <4>2, <4>3, EmitFacts
      <4> QED  BY <3>2, <4>2, <4>4
    <3> QED  BY <3>1, <3>2
  <2>3. mid \in Seq(SubFrame)
    <3>1. CASE first = {}
      BY <1>0, <2>2, <3>1
    <3>2. CASE first # {}
      <4>1. PICK f \in SubFrame : mid = Append(out, f)
        BY <2>2, <3>2
      <4> QED  BY <1>0, <4>1, AppendFacts
    <3> QED  BY <3>1, <3>2
  <2>4. out' = mid \o Emit("unsub", last, FALSE)
    BY <1>4, <1>7, <2>1
  <2>5. \/ last = {} /\ out' = mid
        \/ /\ last # {}
           /\ \E f \in SubFrame : out' = Append(mid, f) /\ f.op = "unsub" /\ f.pats = last /\ f.gen = gen
    <3>1. CASE last = {}
      <4>1. Emit("unsub", last, FALSE) = <<>>
        BY <3>1 DEF Emit
      <4> QED  BY <2>3, <2>4, <3>1, <4>1, EmitFacts
    <3>2. CASE last # {}
      <4>1. PICK f : f = [op |-> "unsub", pats |-> last, gen |-> gen, sync |-> FALSE]
        OBVIOUS
      <4>2. f \in SubFrame /\ f.op = "unsub" /\ f.pats = last /\ f.gen = gen
        BY <1>0, <4>1 DEF SubFrame
      <4>3. Emit("unsub", last, FALSE) = <<f>>
        BY <3>2, <4>1 DEF Emit
      <4>4. out' = Append(mid, f)
        BY <2>3, <2>4, <4>2, <4>3, EmitFacts
      <4> QED  BY <3>2, <4>2, <4>4
    <3> QED  BY <3>1, <3>2
  <2>6. /\ Len(out) <= Len(mid) /\ Len(mid) <= Len(out) + 1 /\ Len(mid) \in Nat
        /\ \A i \in 1..Len(out) : mid[i] = out[i]
        /\ first # {} => Len(mid) = Len(out) + 1
        /\ \A i \in (Len(out) + 1)..Len(mid) :
             mid[i].op = "sub" /\ mid[i].pats = first /\ mid[i].gen = gen
    <3>1. CASE first = {}
      BY <1>0, <2>2, <3>1
    <3>2. CASE first # {}
      <4>1. PICK f \in SubFrame : mid = Append(out, f) /\ f.op = "sub" /\ f.pats = first /\ f.gen = gen
        BY <2>2, <3>2
      <4> QED  BY <1>0, <3>2, <4>1, AppendFacts
    <3> QED  BY <3>1, <3>2
  <2>7. /\ Len(mid) <= Len(out') /\ Len(out') <= Len(mid) + 1 /\ out' \in Seq(SubFrame)
        /\ Len(out') \in Nat
        /\ \A i \in 1..Len(mid) : out'[i] = mid[i]
        /\ \A i \in (Len(mid) + 1)..Len(out') :
             out'[i].op = "unsub" /\ out'[i].pats = last /\ out'[i].gen = gen
    <3>1. CASE last = {}
      BY <2>3, <2>5, <2>6, <3>1
    <3>2. CASE last # {}
      <4>1. PICK f \in SubFrame : out' = Append(mid, f) /\ f.op = "unsub" /\ f.pats = last /\ f.gen = gen
        BY <2>5, <3>2
      <4> QED  BY <2>3, <2>6, <4>1, AppendFacts
    <3> QED  BY <3>1, <3>2
  <2>8. Grown(old, new)
    <3>1. \A i \in 1..Len(out) : out'[i] = out[i]
      BY <1>0, <2>6, <2>7
    <3>2. ASSUME NEW i \in (Len(out) + 1)..Len(out')
          PROVE  /\ out'[i].gen = gen
                 /\ out'[i].pats = first \/ out'[i].pats = last
      <4>1. CASE i <= Len(mid)
        <5>1. i \in 1..Len(mid) /\ i \in (Len(out) + 1)..Len(mid)
          BY <1>0, <2>6, <2>7, <4>1
        <5> QED  BY <2>6, <2>7, <5>1
      <4>2. CASE ~(i <= Len(mid))
        <5>1. i \in (Len(mid) + 1)..Len(out')
          BY <1>0, <2>6, <2>7, <4>2
        <5> QED  BY <2>7, <5>1
      <4> QED  BY <4>1, <4>2
    <3> QED  BY <1>0, <1>2, <1>3, <2>6, <2>7, <3>1, <3>2 DEF Grown
  <2>9. InOrder(new)
    <3>1. ASSUME NEW i \in (Len(out) + 1)..Len(out'), NEW p \in Patterns, wire'[p] > 0
          PROVE  ~Has(i, "unsub", p)'
      <4>1. p \notin last
        BY <1>3, <1>4, <3>1
      <4>2. CASE i <= Len(mid)
        <5>1. i \in 1..Len(mid) /\ i \in (Len(out) + 1)..Len(mid)
          BY <1>0, <2>6, <2>7, <4>2
        <5> QED  BY <2>6, <2>7, <5>1 DEF Has
      <4>3. CASE ~(i <= Len(mid))
        <5>1. i \in (Len(mid) + 1)..Len(out')
          BY <1>0, <2>6, <2>7, <4>3
        <5> QED  BY <2>7, <4>1, <5>1 DEF Has
      <4> QED  BY <4>2, <4>3
    <3>2. ASSUME NEW p \in Patterns, wire[p] = 0, new[p] > 0
          PROVE  \E i \in (Len(out) + 1)..Len(out') : Has(i, "sub", p)'
      <4>1. p \in first
        BY <1>2, <3>2
      <4>2. Len(mid) = Len(out) + 1 /\ Len(out) + 1 \in (Len(out) + 1)..Len(mid)
        BY <1>0, <2>6, <4>1
      <4>3. out'[Len(out) + 1] = mid[Len(out) + 1] /\ Len(out) + 1 \in (Len(out) + 1)..Len(out')
        BY <1>0, <2>6, <2>7, <4>2
      <4>5. PICK i \in Nat : i = Len(out) + 1
        BY <1>0
      <4>6. Has(i, "sub", p)'
        BY <2>6, <4>1, <4>2, <4>3, <4>5 DEF Has
      <4> QED  BY <4>3, <4>5, <4>6
    <3>3. ASSUME NEW i \in (Len(out) + 1)..(Len(out') - 1), NEW p \in Patterns
          PROVE  ~Has(i, "unsub", p)'
      <4>1. i \in 1..Len(mid) /\ i \in (Len(out) + 1)..Len(mid)
        BY <1>0, <2>6, <2>7
      <4> QED  BY <2>6, <2>7, <4>1 DEF Has
    <3> QED  BY <3>1, <3>2, <3>3 DEF InOrder
  <2> QED  BY <1>5, <2>8, <2>9
<1> QED  BY <1>6, <1>7

\* The outbox has only grown.
Longer == /\ out \in Seq(SubFrame) /\ out' \in Seq(SubFrame) /\ Len(out) <= Len(out')
          /\ \A i \in 1..Len(out) : out'[i] = out[i]

\* What the broker has after the first frames, it has after more of them when
\* those withdraw nothing.
LEMMA OnGrows ==
  ASSUME Longer, subs' = subs, NEW p \in Patterns,
         NEW a \in 0..Len(out), NEW n \in a..Len(out'), On(p, a),
         \A k \in (a + 1)..n : ~Has(k, "unsub", p)'
  PROVE  On(p, n)'
<1>0. Len(out) \in Nat /\ Len(out') \in Nat /\ a \in Nat /\ n \in Nat /\ a <= n
  BY DEF Longer
<1>1. \A k \in 1..a, op \in {"sub", "unsub"} : Has(k, op, p)' <=> Has(k, op, p)
  BY <1>0 DEF Longer, Has
<1>2. CASE subs[p] > 0 /\ \A k \in 1..a : ~Has(k, "unsub", p)
  <2>1. ASSUME NEW k \in 1..n  PROVE ~Has(k, "unsub", p)'
    <3>1. CASE k <= a
      BY <1>0, <1>1, <1>2, <3>1
    <3>2. CASE ~(k <= a)
      BY <1>0, <3>2
    <3> QED  BY <3>1, <3>2
  <2> QED  BY <1>2, <2>1 DEF On
<1>3. CASE \E i \in 1..a : Has(i, "sub", p) /\ \A k \in (i + 1)..a : ~Has(k, "unsub", p)
  <2>1. PICK i \in 1..a : Has(i, "sub", p) /\ \A k \in (i + 1)..a : ~Has(k, "unsub", p)
    BY <1>3
  <2>2. Has(i, "sub", p)' /\ i \in 1..n
    BY <1>0, <1>1, <2>1
  <2>3. ASSUME NEW k \in (i + 1)..n  PROVE ~Has(k, "unsub", p)'
    <3>1. CASE k <= a
      BY <1>0, <1>1, <2>1, <3>1
    <3>2. CASE ~(k <= a)
      BY <1>0, <3>2
    <3> QED  BY <3>1, <3>2
  <2> QED  BY <2>2, <2>3 DEF On
<1> QED  BY <1>2, <1>3 DEF On

\* A pattern stays with the broker while _move_wire's frames go out, and what
\* is counted afterwards the broker has at their end.
LEMMA OnMoved ==
  ASSUME SubTypeOK, wire' \in [Patterns -> Nat], subs' = subs,
         NEW old \in [Patterns -> Nat], NEW new \in [Patterns -> Nat],
         Grown(old, new), InOrder(new),
         wire' = [p \in Patterns |-> wire[p] + new[p] - old[p]],
         \A p \in Patterns : wire[p] > 0 => On(p, Len(out)),
         NEW p \in Patterns
  PROVE  /\ \A n \in 0..Len(out) : On(p, n) => On(p, n)'
         /\ wire[p] > 0 => \A n \in Len(out)..(Len(out') - 1) : On(p, n)'
         /\ wire'[p] > 0 => \A n \in {Len(out')} : On(p, n)'
<1>0. /\ Longer /\ Len(out) \in Nat /\ Len(out') \in Nat /\ Len(out) <= Len(out')
      /\ wire[p] \in Nat /\ wire'[p] \in Nat /\ old[p] \in Nat /\ new[p] \in Nat
  <2>1. wire[p] \in Nat /\ out \in Seq(SubFrame)
    BY DEF SubTypeOK
  <2>2. wire'[p] \in Nat
    BY Zenon
  <2>3. Longer
    BY <2>1 DEF Grown, Longer
  <2>4. Len(out) \in Nat /\ Len(out') \in Nat /\ Len(out) <= Len(out')
    BY <2>3 DEF Longer
  <2>5. old[p] \in Nat /\ new[p] \in Nat
    OBVIOUS
  <2> QED  BY <2>1, <2>2, <2>3, <2>4, <2>5
<1>1. ASSUME NEW n \in 0..Len(out), On(p, n)  PROVE On(p, n)'
  <2>1. n \in n..Len(out') /\ \A k \in (n + 1)..n : ~Has(k, "unsub", p)'
    BY <1>0
  <2> QED  BY <1>0, <1>1, <2>1, OnGrows
<1>2. \A i \in (Len(out) + 1)..(Len(out') - 1) : ~Has(i, "unsub", p)'
  BY Zenon DEF InOrder
<1>3. wire'[p] > 0 => \A i \in (Len(out) + 1)..Len(out') : ~Has(i, "unsub", p)'
  BY Zenon DEF InOrder
<1>4. ASSUME wire[p] > 0, NEW n \in Len(out)..(Len(out') - 1)  PROVE On(p, n)'
  <2>1. PICK a \in 0..Len(out) : a = Len(out)
    BY <1>0
  <2>2. On(p, a)
    BY <1>4, <2>1
  <2>3. ASSUME NEW k \in (a + 1)..n  PROVE ~Has(k, "unsub", p)'
    <3>1. k \in (Len(out) + 1)..(Len(out') - 1)
      BY <1>0, <2>1
    <3> QED  BY <1>2, <3>1
  <2>4. n \in a..Len(out')
    BY <1>0, <2>1
  <2> QED  BY <1>0, <2>2, <2>3, <2>4, OnGrows
<1>5. ASSUME wire'[p] > 0, NEW n \in {Len(out')}  PROVE On(p, n)'
  <2>1. CASE wire[p] > 0
    <3>1. PICK a \in 0..Len(out) : a = Len(out)
      BY <1>0
    <3>2. On(p, a)
      BY <2>1, <3>1
    <3>3. ASSUME NEW k \in (a + 1)..n  PROVE ~Has(k, "unsub", p)'
      <4>1. k \in (Len(out) + 1)..Len(out')
        BY <1>0, <3>1
      <4> QED  BY <1>3, <1>5, <4>1
    <3>4. n \in a..Len(out')
      BY <1>0, <3>1
    <3> QED  BY <1>0, <3>2, <3>3, <3>4, OnGrows
  <2>2. CASE wire[p] = 0
    <3>1. new[p] > 0
      BY <1>0, <1>5, <2>2
    <3>2. PICK i \in (Len(out) + 1)..Len(out') : Has(i, "sub", p)'
      BY <2>2, <3>1 DEF InOrder
    <3>3. i \in 1..n /\ \A k \in (i + 1)..n : k \in (Len(out) + 1)..Len(out')
      BY <1>0
    <3>4. \A k \in (i + 1)..n : ~Has(k, "unsub", p)'
      BY <1>3, <1>5, <3>3
    <3> QED  BY <3>2, <3>3, <3>4 DEF On
  <2> QED  BY <1>0, <2>1, <2>2
<1> QED  BY <1>1, <1>4, <1>5

\* A callback's pattern is one of its scopes and is counted.
Counted == \A c \in Callbacks :
             Pattern(c) \in Patterns /\ Pattern(c) \in Scopes(c) /\ wire[Pattern(c)] > 0

\* A callback that needs a pattern is counted in it.
LEMMA UsersCounted == SubTypeOK /\ CountsAgree => Counted
<1> SUFFICES ASSUME SubTypeOK, CountsAgree, NEW c \in Callbacks
             PROVE  Pattern(c) \in Patterns /\ Pattern(c) \in Scopes(c) /\ wire[Pattern(c)] > 0
  BY DEF Counted
<1>1. reg[c] \in Sids \cup {NoSid} /\ c \in Cbs
  BY DEF SubTypeOK, Callbacks
<1>2. PICK p : p = Pattern(c)
  OBVIOUS
<1>3. p \in Patterns /\ p \in Scopes(c)
  BY <1>1, <1>2 DEF Pattern, WireKey, Patterns, Keys, Scopes
<1>4. IsFiniteSet(Users(p)) /\ Cardinality(Users(p)) \in Nat
  <2>1. Users(p) \in SUBSET Cbs
    BY DEF Users, Callbacks
  <2> QED  BY <2>1, SubBounds, FS_Subset, FS_CardinalityType
<1>5. Cardinality(Users(p)) # 0
  <2>1. c \in Users(p)
    BY <1>2 DEF Users
  <2> QED  BY <1>4, <2>1, FS_EmptySet
<1>6. wire[p] = Held(p) + Cardinality(Users(p))
  BY <1>3 DEF CountsAgree, Users
<1>7. Held(p) \in Nat
  BY <1>3 DEF Held, SubTypeOK, Patterns
<1> QED  BY <1>2, <1>3, <1>4, <1>5, <1>6, <1>7

\* Every step that moves registrations keeps the broker up to date, when it
\* notes the new end of the outbox for the callbacks whose scope it changes.
LEMMA MoveUpToDate ==
  ASSUME SubInv, SubTypeOK', CountsAgree', subs' = subs, live' = live, conn' = conn,
         NEW old \in [Patterns -> Nat], NEW new \in [Patterns -> Nat],
         Grown(old, new), live => InOrder(new),
         wire' = [p \in Patterns |-> wire[p] + new[p] - old[p]],
         \A c \in Callbacks' : \/ ahead'[c] = Len(out')
                               \/ c \in Callbacks /\ reg'[c] = reg[c] /\ ahead'[c] = ahead[c]
  PROVE  UpToDate'
<1> SUFFICES ASSUME conn = "up"
             PROVE  /\ live'
                    /\ \A p \in Patterns : wire'[p] > 0 => On(p, Len(out))'
                    /\ \A c \in Callbacks' : \A n \in ahead'[c]..Len(out') :
                         \E p \in Scopes(c)' : On(p, n)'
  BY DEF UpToDate
<1>0. /\ live /\ live'
      /\ \A p \in Patterns : wire[p] > 0 => On(p, Len(out))
      /\ \A c \in Callbacks : \A n \in ahead[c]..Len(out) : \E p \in Scopes(c) : On(p, n)
  BY DEF SubInv, UpToDate
<1>1. /\ SubTypeOK /\ CountsAgree /\ wire' \in [Patterns -> Nat]
      /\ Len(out) \in Nat /\ Len(out') \in Nat /\ Len(out) <= Len(out')
      /\ ahead \in [Cbs -> Nat] /\ ahead' \in [Cbs -> Nat]
  BY DEF SubInv, SubTypeOK, Grown
<1>2. \A p \in Patterns :
         /\ \A n \in 0..Len(out) : On(p, n) => On(p, n)'
         /\ wire[p] > 0 => \A n \in Len(out)..(Len(out') - 1) : On(p, n)'
         /\ wire'[p] > 0 => \A n \in {Len(out')} : On(p, n)'
  <2>1. InOrder(new)
    BY <1>0
  <2> QED  BY <1>0, <1>1, <2>1, OnMoved
<1>3. \A p \in Patterns : wire'[p] > 0 => On(p, Len(out))'
  <2>1. PICK m : m = Len(out')
    OBVIOUS
  <2>2. \A p \in Patterns : wire'[p] > 0 => On(p, m)'
    BY <1>2, <2>1
  <2> QED  BY <2>1, <2>2 DEF On
<1>4. \A c \in Callbacks' : Pattern(c)' \in Patterns /\ Pattern(c)' \in Scopes(c)' /\ wire'[Pattern(c)'] > 0
  <2>1. (SubTypeOK /\ CountsAgree => Counted)'
    BY UsersCounted, PTL
  <2>2. Counted'
    BY <2>1
  <2> QED  BY <2>2 DEF Counted
<1>5. ASSUME NEW c \in Callbacks', NEW n \in ahead'[c]..Len(out')
      PROVE  \E p \in Scopes(c)' : On(p, n)'
  <2>0. c \in Cbs /\ n \in Nat /\ ahead'[c] \in Nat
    BY <1>1 DEF Callbacks
  <2>1. CASE n = Len(out')
    BY <1>2, <1>4, <2>1
  <2>2. CASE n # Len(out')
    <3>1. c \in Callbacks /\ reg'[c] = reg[c] /\ ahead'[c] = ahead[c]
      BY <1>1, <2>0, <2>2
    <3>2. Scopes(c)' = Scopes(c)
      BY <3>1 DEF Scopes
    <3>3. CASE n <= Len(out)
      <4>1. PICK p \in Scopes(c) : On(p, n)
        BY <1>0, <1>1, <2>0, <3>1, <3>3
      <4>2. p \in Patterns
        <5>1. reg[c] \in Sids \cup {NoSid}
          BY <1>1, <3>1 DEF SubTypeOK, Callbacks
        <5> QED  BY <2>0, <5>1 DEF Scopes, Patterns, Keys
      <4> QED  BY <1>1, <1>2, <2>0, <3>2, <3>3, <4>1, <4>2
    <3>4. CASE ~(n <= Len(out))
      <4>1. n \in Len(out)..(Len(out') - 1)
        BY <1>1, <2>0, <2>2, <3>4
      <4>2. Pattern(c) \in Patterns /\ Pattern(c) \in Scopes(c) /\ wire[Pattern(c)] > 0
        BY <1>1, <3>1, UsersCounted DEF Counted
      <4> QED  BY <1>2, <3>2, <4>1, <4>2
    <3> QED  BY <3>3, <3>4
  <2> QED  BY <2>1, <2>2
<1> QED  BY <1>0, <1>3, <1>5

-----------------------------------------------------------------------------
(* Counting. *)

\* A step that moves registrations from the patterns of old to those of new,
\* and that changes the scope of the callbacks in C and of no others.
MoveStep(old, new, C) ==
  /\ MoveWire(old, new) /\ Scoped(C)
  /\ gen' = gen /\ live' = live /\ conn' = conn /\ caps' = caps /\ subs' = subs
  /\ reg' \in [Cbs -> Sids \cup {NoSid, "off"}] /\ hold' \in [Keys -> 0..MaxHold]
  /\ routes' \in BOOLEAN /\ inq' \in Seq(0..MaxConn)
  /\ CountsAgree' /\ RoutesKnown'
  /\ \A p \in Patterns : old[p] > 0 \/ new[p] > 0 => p[2] = NoSid \/ caps[gen]
  /\ \A c \in Callbacks' : c \notin C => c \in Callbacks /\ reg'[c] = reg[c]

\* The callbacks of a pattern can be counted, before a step and after it.
LEMMA UsersFinite ==
  \A p : /\ IsFiniteSet(Users(p)) /\ Cardinality(Users(p)) \in Nat
         /\ IsFiniteSet(Users(p)') /\ Cardinality(Users(p)') \in Nat
<1> SUFFICES ASSUME NEW p
             PROVE  /\ IsFiniteSet(Users(p)) /\ Cardinality(Users(p)) \in Nat
                    /\ IsFiniteSet(Users(p)') /\ Cardinality(Users(p)') \in Nat
  OBVIOUS
<1>1. PICK U, V : U = Users(p) /\ V = Users(p)'
  OBVIOUS
<1>2. U \in SUBSET Cbs /\ V \in SUBSET Cbs
  BY <1>1 DEF Users, Callbacks
<1>3. IsFiniteSet(U) /\ IsFiniteSet(V)
  BY <1>2, SubBounds, FS_Subset
<1> QED  BY <1>1, <1>3, FS_CardinalityType

\* Two sets that differ in one element at most.
LEMMA SwapOne ==
  ASSUME NEW U, NEW V, NEW c, IsFiniteSet(U), IsFiniteSet(V), U \ {c} = V \ {c}
  PROVE  Cardinality(V) = (Cardinality(U) + (IF c \in V THEN 1 ELSE 0)) - (IF c \in U THEN 1 ELSE 0)
<1>1. Cardinality(U) \in Nat /\ Cardinality(V) \in Nat
  BY FS_CardinalityType
<1>2. Cardinality(U \ {c}) = IF c \in U THEN Cardinality(U) - 1 ELSE Cardinality(U)
  BY FS_RemoveElement
<1>3. Cardinality(V \ {c}) = IF c \in V THEN Cardinality(V) - 1 ELSE Cardinality(V)
  BY FS_RemoveElement
<1> QED  BY <1>1, <1>2, <1>3

\* Callback c is the only one whose pattern the step changes.
OneMoved(c, old, new) ==
  \A p \in Patterns : /\ Users(p) \ {c} = Users(p)' \ {c}
                      /\ old[p] = (IF c \in Users(p) THEN 1 ELSE 0)
                      /\ new[p] = (IF c \in Users(p)' THEN 1 ELSE 0)

\* The counts agree after one callback has come, gone or changed its scope.
LEMMA OneMoves ==
  ASSUME SubTypeOK, CountsAgree, hold' = hold, NEW c,
         NEW old \in [Patterns -> Nat], NEW new \in [Patterns -> Nat],
         wire' = [p \in Patterns |-> wire[p] + new[p] - old[p]],
         OneMoved(c, old, new)
  PROVE  CountsAgree'
<1> SUFFICES ASSUME NEW p \in Patterns
             PROVE  wire'[p] = Held(p)' + Cardinality(Users(p)')
  BY DEF CountsAgree, Users
<1>1. PICK U, V : U = Users(p) /\ V = Users(p)'
  OBVIOUS
<1>2. IsFiniteSet(U) /\ IsFiniteSet(V) /\ Cardinality(U) \in Nat /\ Cardinality(V) \in Nat
  BY <1>1, UsersFinite
<1>3. U \ {c} = V \ {c}
  BY <1>1 DEF OneMoved
<1>4. Cardinality(V) = (Cardinality(U) + (IF c \in V THEN 1 ELSE 0)) - (IF c \in U THEN 1 ELSE 0)
  BY <1>2, <1>3, SwapOne
<1>5. wire[p] = Held(p) + Cardinality(U) /\ wire[p] \in Nat
  BY <1>1 DEF CountsAgree, Users, SubTypeOK
<1>6. Held(p) \in Nat /\ Held(p)' = Held(p)
  BY DEF Held, SubTypeOK, Patterns
<1>7. /\ old[p] = (IF c \in U THEN 1 ELSE 0) /\ new[p] = (IF c \in V THEN 1 ELSE 0)
      /\ wire'[p] = wire[p] + new[p] - old[p]
  BY <1>1 DEF OneMoved
<1>8. wire'[p] = Held(p) + Cardinality(V)
  BY <1>2, <1>4, <1>5, <1>6, <1>7
<1> QED  BY <1>1, <1>6, <1>8

\* Every step that moves registrations keeps the invariant.
LEMMA MoveKeeps ==
  ASSUME SubInv, NEW old \in [Patterns -> Nat], NEW new \in [Patterns -> Nat],
         NEW C, MoveStep(old, new, C)
  PROVE  SubInv'
<1>0. /\ SubTypeOK /\ CountsAgree /\ OnlyWhereRouted /\ RoutesKnown /\ CountsAgree' /\ RoutesKnown'
      /\ gen' = gen /\ live' = live /\ conn' = conn /\ caps' = caps /\ subs' = subs
      /\ MoveWire(old, new)
  BY DEF SubInv, MoveStep
<1>1. /\ Grown(old, new)
      /\ live => InOrder(new)
      /\ wire' = [p \in Patterns |-> wire[p] + new[p] - old[p]]
  BY <1>0, MoveFacts
<1>2. wire' \in [Patterns -> Nat]
  <2>1. \A p \in Patterns : wire'[p] \in Nat
    <3> SUFFICES ASSUME NEW p \in Patterns  PROVE wire'[p] \in Nat
      OBVIOUS
    <3>1. wire'[p] = Held(p)' + Cardinality(Users(p)')
      BY <1>0 DEF CountsAgree, Users
    <3>2. Held(p)' \in Nat
      BY DEF Held, MoveStep, Patterns
    <3>3. Cardinality(Users(p)') \in Nat
      BY UsersFinite
    <3> QED  BY <3>1, <3>2, <3>3
  <2>2. PICK w : w = [p \in Patterns |-> wire[p] + new[p] - old[p]]
    OBVIOUS
  <2>3. wire' = w /\ \A p \in Patterns : w[p] \in Nat
    BY <1>1, <2>1, <2>2
  <2> QED  BY <2>2, <2>3
<1>3. /\ ahead' \in [Cbs -> Nat]
      /\ \A c \in Callbacks' : \/ ahead'[c] = Len(out')
                               \/ c \in Callbacks /\ reg'[c] = reg[c] /\ ahead'[c] = ahead[c]
  <2>1. Len(out') \in Nat /\ ahead \in [Cbs -> Nat]
    BY <1>0, <1>1 DEF Grown, SubTypeOK
  <2>2. ahead' = [c \in Cbs |-> IF c \in C THEN Len(out') ELSE ahead[c]]
    BY DEF MoveStep, Scoped
  <2>3. ahead' \in [Cbs -> Nat]
    BY <2>1, <2>2
  <2>4. Callbacks' \subseteq Cbs
    BY DEF Callbacks
  <2>5. \A c \in Callbacks' : c \notin C => c \in Callbacks /\ reg'[c] = reg[c]
    BY DEF MoveStep
  <2> QED  BY <2>2, <2>3, <2>4, <2>5
<1>4. SubTypeOK'
  <2>1. out' \in Seq(SubFrame)
    BY <1>1 DEF Grown
  <2>2. /\ reg' \in [Cbs -> Sids \cup {NoSid, "off"}] /\ hold' \in [Keys -> 0..MaxHold]
        /\ routes' \in BOOLEAN /\ inq' \in Seq(0..MaxConn)
    BY DEF MoveStep
  <2>3. subs' \in [Patterns -> Nat] /\ live' \in BOOLEAN /\ conn' \in {"up", "lost", "down"}
    BY <1>0, Zenon DEF SubTypeOK
  <2>4. gen' \in 0..MaxConn /\ caps' \in [0..MaxConn -> BOOLEAN]
    BY <1>0, Zenon DEF SubTypeOK
  <2> QED  BY <1>2, <1>3, <2>1, <2>2, <2>3, <2>4, Zenon DEF SubTypeOK
<1>5. OnlyWhereRouted'
  <2> SUFFICES ASSUME NEW i \in DOMAIN out', \E p \in out'[i].pats : p[2] # NoSid
               PROVE  caps'[out'[i].gen]
    BY DEF OnlyWhereRouted
  <2>1. /\ out \in Seq(SubFrame) /\ out' \in Seq(SubFrame) /\ Len(out) \in Nat /\ Len(out') \in Nat
        /\ DOMAIN out = 1..Len(out) /\ i \in 1..Len(out')
    BY <1>0, <1>1 DEF Grown, SubTypeOK
  <2>2. CASE i <= Len(out)
    <3>1. i \in DOMAIN out /\ out'[i] = out[i]
      BY <1>1, <2>1, <2>2 DEF Grown
    <3> QED  BY <1>0, <3>1 DEF OnlyWhereRouted
  <2>3. CASE ~(i <= Len(out))
    <3>1. i \in (Len(out) + 1)..Len(out')
      BY <2>1, <2>3
    <3>2. /\ out'[i].gen = gen
          /\ \A p \in out'[i].pats : p \in Patterns /\ (old[p] > 0 \/ new[p] > 0)
      BY <1>1, <3>1 DEF Grown
    <3>3. caps[gen]
      BY <3>2 DEF MoveStep
    <3> QED  BY <1>0, <3>2, <3>3
  <2> QED  BY <2>2, <2>3
<1>6. UpToDate'
  BY <1>0, <1>1, <1>3, <1>4, MoveUpToDate
<1> QED  BY <1>0, <1>4, <1>5, <1>6 DEF SubInv

-----------------------------------------------------------------------------
(* The operations on the registry. *)

\* Where a callback's pattern lies: a session pattern only on a routed connection.
LEMMA WireKeyFacts ==
  ASSUME NEW k \in Keys, NEW s \in Sids \cup {NoSid}, NEW r \in BOOLEAN
  PROVE  /\ WireKey(k, s, r) \in Patterns
         /\ WireKey(k, s, r)[2] # NoSid => r
BY DEF WireKey, Patterns

\* Counts of nothing and of one pattern.
LEMMA OneFacts ==
  /\ None0 \in [Patterns -> Nat] /\ \A p \in Patterns : None0[p] = 0
  /\ \A q \in Patterns : /\ One(q) \in [Patterns -> Nat]
                         /\ \A p \in Patterns : One(q)[p] = IF p = q THEN 1 ELSE 0
BY DEF None0, One

\* _move_wire sets the counts.
LEMMA MoveCounts ==
  ASSUME NEW old, NEW new, MoveWire(old, new)
  PROVE  wire' = [p \in Patterns |-> wire[p] + new[p] - old[p]]
BY DEF MoveWire

\* register_callback keeps the invariant.
LEMMA RegisterKeeps ==
  ASSUME SubInv, NEW c \in Cbs, NEW s \in Sids \cup {NoSid}, RegisterCallback(c, s)
  PROVE  SubInv'
<1>0. /\ SubTypeOK /\ CountsAgree /\ RoutesKnown
      /\ reg \in [Cbs -> Sids \cup {NoSid, "off"}] /\ routes \in BOOLEAN
      /\ reg[c] = "off" /\ reg' = [reg EXCEPT ![c] = s] /\ hold' = hold
      /\ gen' = gen /\ routes' = routes /\ caps' = caps /\ live' = live /\ conn' = conn
      /\ inq' = inq /\ subs' = subs /\ Scoped({c})
  BY DEF SubInv, SubTypeOK, RegisterCallback, Quiet
<1>1. PICK w \in Patterns : w = WireKey(KeyOf[c], s, routes) /\ (w[2] # NoSid => routes)
  BY <1>0, WireKeyFacts DEF Keys
<1>2. PICK old \in [Patterns -> Nat] : old = None0 /\ \A p \in Patterns : old[p] = 0
  BY OneFacts
<1>3. PICK new \in [Patterns -> Nat] :
         new = One(w) /\ \A p \in Patterns : new[p] = IF p = w THEN 1 ELSE 0
  BY OneFacts
<1>4. MoveWire(old, new)
  BY <1>1, <1>2, <1>3, Zenon DEF RegisterCallback
<1>5. /\ s # "off" /\ Callbacks' = Callbacks \cup {c} /\ c \notin Callbacks
      /\ \A d \in Cbs : d # c => reg'[d] = reg[d]
      /\ reg'[c] = s
  BY <1>0, SubNames DEF Callbacks
<1>6. CountsAgree'
  <2>1. ASSUME NEW p \in Patterns
        PROVE  /\ Users(p) \ {c} = Users(p)' \ {c}
               /\ old[p] = (IF c \in Users(p) THEN 1 ELSE 0)
               /\ new[p] = (IF c \in Users(p)' THEN 1 ELSE 0)
    <3>1. c \notin Users(p) /\ old[p] = 0
      BY <1>2, <1>5 DEF Users
    <3>2. Pattern(c)' = w
      BY <1>0, <1>1, <1>5 DEF Pattern
    <3>3. c \in Users(p)' <=> p = w
      BY <1>5, <3>2 DEF Users
    <3>4. \A d \in Callbacks : d # c => (Pattern(d)' = Pattern(d))
      BY <1>0, <1>5 DEF Pattern, Callbacks
    <3>5. Users(p) \ {c} = Users(p)' \ {c}
      BY <1>5, <3>4 DEF Users
    <3> QED  BY <1>3, <3>1, <3>3, <3>5
  <2>2. wire' = [p \in Patterns |-> wire[p] + new[p] - old[p]]
    BY <1>4, MoveCounts
  <2>3. OneMoved(c, old, new)
    BY <2>1 DEF OneMoved
  <2> QED  BY <1>0, <2>2, <2>3, OneMoves
<1>7. MoveStep(old, new, {c})
  <2>1. /\ reg' \in [Cbs -> Sids \cup {NoSid, "off"}] /\ hold' \in [Keys -> 0..MaxHold]
        /\ routes' \in BOOLEAN /\ inq' \in Seq(0..MaxConn)
    BY <1>0 DEF SubTypeOK
  <2>2. RoutesKnown'
    BY <1>0 DEF RoutesKnown
  <2>3. \A p \in Patterns : old[p] > 0 \/ new[p] > 0 => p[2] = NoSid \/ caps[gen]
    BY <1>0, <1>1, <1>2, <1>3 DEF RoutesKnown
  <2>4. \A d \in Callbacks' : d \notin {c} => d \in Callbacks /\ reg'[d] = reg[d]
    BY <1>5 DEF Callbacks
  <2> QED  BY <1>0, <1>4, <1>6, <2>1, <2>2, <2>3, <2>4 DEF MoveStep
<1> QED  BY <1>7, MoveKeeps

\* unregister_callback keeps the invariant.
LEMMA UnregisterKeeps ==
  ASSUME SubInv, NEW c \in Cbs, UnregisterCallback(c)
  PROVE  SubInv'
<1>0. /\ SubTypeOK /\ CountsAgree /\ RoutesKnown
      /\ reg \in [Cbs -> Sids \cup {NoSid, "off"}] /\ routes \in BOOLEAN /\ ahead \in [Cbs -> Nat]
      /\ reg[c] # "off" /\ reg' = [reg EXCEPT ![c] = "off"] /\ hold' = hold /\ ahead' = ahead
      /\ gen' = gen /\ routes' = routes /\ caps' = caps /\ live' = live /\ conn' = conn
      /\ inq' = inq /\ subs' = subs
  BY DEF SubInv, SubTypeOK, UnregisterCallback, Quiet
<1>1. PICK w \in Patterns : w = Pattern(c) /\ (w[2] # NoSid => routes)
  BY <1>0, WireKeyFacts DEF Keys, Pattern
<1>2. PICK old \in [Patterns -> Nat] :
         old = One(w) /\ \A p \in Patterns : old[p] = IF p = w THEN 1 ELSE 0
  BY OneFacts
<1>3. PICK new \in [Patterns -> Nat] : new = None0 /\ \A p \in Patterns : new[p] = 0
  BY OneFacts
<1>4. MoveWire(old, new)
  BY <1>1, <1>2, <1>3, Zenon DEF UnregisterCallback
<1>5. /\ Callbacks' = Callbacks \ {c} /\ c \in Callbacks
      /\ \A d \in Cbs : d # c => reg'[d] = reg[d]
  BY <1>0 DEF Callbacks
<1>6. CountsAgree'
  <2>1. ASSUME NEW p \in Patterns
        PROVE  /\ Users(p) \ {c} = Users(p)' \ {c}
               /\ old[p] = (IF c \in Users(p) THEN 1 ELSE 0)
               /\ new[p] = (IF c \in Users(p)' THEN 1 ELSE 0)
    <3>1. c \notin Users(p)' /\ new[p] = 0
      BY <1>3, <1>5 DEF Users
    <3>2. c \in Users(p) <=> p = w
      BY <1>1, <1>5 DEF Users
    <3>3. \A d \in Callbacks : d # c => (Pattern(d)' = Pattern(d))
      BY <1>0, <1>5 DEF Pattern, Callbacks
    <3>4. Users(p) \ {c} = Users(p)' \ {c}
      BY <1>5, <3>3 DEF Users
    <3> QED  BY <1>2, <3>1, <3>2, <3>4
  <2>2. wire' = [p \in Patterns |-> wire[p] + new[p] - old[p]]
    BY <1>4, MoveCounts
  <2>3. OneMoved(c, old, new)
    BY <2>1 DEF OneMoved
  <2> QED  BY <1>0, <2>2, <2>3, OneMoves
<1>7. MoveStep(old, new, {})
  <2>1. /\ reg' \in [Cbs -> Sids \cup {NoSid, "off"}] /\ hold' \in [Keys -> 0..MaxHold]
        /\ routes' \in BOOLEAN /\ inq' \in Seq(0..MaxConn)
    BY <1>0 DEF SubTypeOK
  <2>2. RoutesKnown'
    BY <1>0 DEF RoutesKnown
  <2>3. \A p \in Patterns : old[p] > 0 \/ new[p] > 0 => p[2] = NoSid \/ caps[gen]
    BY <1>0, <1>1, <1>2, <1>3 DEF RoutesKnown
  <2>4. \A d \in Callbacks' : d \notin {} => d \in Callbacks /\ reg'[d] = reg[d]
    BY <1>5 DEF Callbacks
  <2>5. Scoped({})
    BY <1>0 DEF Scoped
  <2> QED  BY <1>0, <1>4, <1>6, <2>1, <2>2, <2>3, <2>4, <2>5, Zenon DEF MoveStep
<1> QED  BY <1>7, MoveKeeps

\* rescope_callback keeps the invariant.
LEMMA RescopeKeeps ==
  ASSUME SubInv, NEW c \in Cbs, NEW s \in Sids \cup {NoSid}, RescopeCallback(c, s)
  PROVE  SubInv'
<1>0. /\ SubTypeOK /\ CountsAgree /\ RoutesKnown
      /\ reg \in [Cbs -> Sids \cup {NoSid, "off"}] /\ routes \in BOOLEAN
      /\ c \in Callbacks /\ hold' = hold
      /\ reg' = [d \in Cbs |-> IF d \in {c} THEN s ELSE reg[d]]
      /\ gen' = gen /\ routes' = routes /\ caps' = caps /\ live' = live /\ conn' = conn
      /\ inq' = inq /\ subs' = subs /\ Scoped({c})
  BY DEF SubInv, SubTypeOK, RescopeCallback, Rescope, Quiet
<1>1. PICK v \in Patterns : v = Pattern(c) /\ (v[2] # NoSid => routes)
  BY <1>0, WireKeyFacts DEF Keys, Pattern, Callbacks
<1>2. PICK w \in Patterns : w = WireKey(KeyOf[c], s, routes) /\ (w[2] # NoSid => routes)
  BY <1>0, WireKeyFacts DEF Keys
<1>3. PICK old : old = [p \in Patterns |-> Cardinality({d \in {c} : Pattern(d) = p})]
  OBVIOUS
<1>4. PICK new : new = [p \in Patterns |-> Cardinality({d \in {c} : WireKey(KeyOf[d], s, routes) = p})]
  OBVIOUS
<1>5. MoveWire(old, new)
  BY <1>3, <1>4, Zenon DEF RescopeCallback, Rescope
<1>6. /\ old \in [Patterns -> Nat] /\ \A p \in Patterns : old[p] = IF p = v THEN 1 ELSE 0
      /\ new \in [Patterns -> Nat] /\ \A p \in Patterns : new[p] = IF p = w THEN 1 ELSE 0
  <2>1. Cardinality({}) = 0 /\ Cardinality({c}) = 1
    BY FS_EmptySet, FS_Singleton
  <2>2. \A p \in Patterns : {d \in {c} : Pattern(d) = p} = IF p = v THEN {c} ELSE {}
    BY <1>1
  <2>3. \A p \in Patterns : {d \in {c} : WireKey(KeyOf[d], s, routes) = p} = IF p = w THEN {c} ELSE {}
    BY <1>2
  <2> QED  BY <1>3, <1>4, <2>1, <2>2, <2>3
<1>7. /\ s # "off" /\ Callbacks' = Callbacks
      /\ \A d \in Cbs : d # c => reg'[d] = reg[d]
      /\ reg'[c] = s
  BY <1>0, SubNames DEF Callbacks
<1>8. CountsAgree'
  <2>1. ASSUME NEW p \in Patterns
        PROVE  /\ Users(p) \ {c} = Users(p)' \ {c}
               /\ old[p] = (IF c \in Users(p) THEN 1 ELSE 0)
               /\ new[p] = (IF c \in Users(p)' THEN 1 ELSE 0)
    <3>1. Pattern(c)' = w
      BY <1>0, <1>2, <1>7 DEF Pattern
    <3>2. c \in Users(p) <=> p = v
      BY <1>0, <1>1 DEF Users
    <3>3. c \in Users(p)' <=> p = w
      BY <1>0, <1>7, <3>1 DEF Users
    <3>4. \A d \in Callbacks : d # c => (Pattern(d)' = Pattern(d))
      BY <1>0, <1>7 DEF Pattern, Callbacks
    <3>5. Users(p) \ {c} = Users(p)' \ {c}
      BY <1>7, <3>4 DEF Users
    <3> QED  BY <1>6, <3>2, <3>3, <3>5
  <2>2. wire' = [p \in Patterns |-> wire[p] + new[p] - old[p]]
    BY <1>5, MoveCounts
  <2>3. OneMoved(c, old, new)
    BY <2>1 DEF OneMoved
  <2> QED  BY <1>0, <1>6, <2>2, <2>3, OneMoves
<1>9. MoveStep(old, new, {c})
  <2>1. /\ reg' \in [Cbs -> Sids \cup {NoSid, "off"}] /\ hold' \in [Keys -> 0..MaxHold]
        /\ routes' \in BOOLEAN /\ inq' \in Seq(0..MaxConn)
    BY <1>0 DEF SubTypeOK
  <2>2. RoutesKnown'
    BY <1>0 DEF RoutesKnown
  <2>3. \A p \in Patterns : old[p] > 0 \/ new[p] > 0 => p[2] = NoSid \/ caps[gen]
    BY <1>0, <1>1, <1>2, <1>6 DEF RoutesKnown
  <2>4. \A d \in Callbacks' : d \notin {c} => d \in Callbacks /\ reg'[d] = reg[d]
    BY <1>7 DEF Callbacks
  <2> QED  BY <1>0, <1>5, <1>8, <2>1, <2>2, <2>3, <2>4 DEF MoveStep
<1> QED  BY <1>6, <1>9, MoveKeeps

\* Holding or releasing a key moves the count of its plain pattern.
LEMMA HoldMoves ==
  ASSUME SubInv, NEW old \in [Patterns -> Nat], NEW new \in [Patterns -> Nat],
         MoveWire(old, new), Quiet, UNCHANGED <<reg, ahead>>, hold' \in [Keys -> 0..MaxHold],
         \A p \in Patterns : /\ Held(p)' = (Held(p) + new[p]) - old[p]
                             /\ old[p] > 0 \/ new[p] > 0 => p[2] = NoSid
  PROVE  SubInv'
<1>0. /\ SubTypeOK /\ CountsAgree /\ RoutesKnown /\ ahead \in [Cbs -> Nat]
      /\ reg' = reg /\ ahead' = ahead
      /\ gen' = gen /\ routes' = routes /\ caps' = caps /\ live' = live /\ conn' = conn
      /\ inq' = inq /\ subs' = subs
  BY DEF SubInv, SubTypeOK, Quiet
<1>1. CountsAgree'
  <2> SUFFICES ASSUME NEW p \in Patterns
               PROVE  wire'[p] = Held(p)' + Cardinality(Users(p)')
    BY DEF CountsAgree, Users
  <2>1. Users(p)' = Users(p)
    BY <1>0 DEF Users, Callbacks, Pattern
  <2>2. wire[p] = Held(p) + Cardinality(Users(p)) /\ wire[p] \in Nat
    BY <1>0 DEF CountsAgree, Users, SubTypeOK
  <2>3. Cardinality(Users(p)) \in Nat
    BY UsersFinite
  <2>4. Held(p) \in Nat
    BY <1>0 DEF Held, SubTypeOK, Patterns
  <2>5. wire'[p] = wire[p] + new[p] - old[p]
    BY MoveCounts
  <2>6. Held(p)' = (Held(p) + new[p]) - old[p] /\ old[p] \in Nat /\ new[p] \in Nat
    OBVIOUS
  <2> QED  BY <2>1, <2>2, <2>3, <2>4, <2>5, <2>6
<1>2. MoveStep(old, new, {})
  <2>1. /\ reg' \in [Cbs -> Sids \cup {NoSid, "off"}]
        /\ routes' \in BOOLEAN /\ inq' \in Seq(0..MaxConn)
    BY <1>0 DEF SubTypeOK
  <2>2. RoutesKnown'
    BY <1>0 DEF RoutesKnown
  <2>3. \A d \in Callbacks' : d \notin {} => d \in Callbacks /\ reg'[d] = reg[d]
    BY <1>0 DEF Callbacks
  <2>4. Scoped({})
    BY <1>0 DEF Scoped
  <2>5. \A p \in Patterns : old[p] > 0 \/ new[p] > 0 => p[2] = NoSid \/ caps[gen]
    OBVIOUS
  <2> QED  BY <1>0, <1>1, <2>1, <2>2, <2>3, <2>4, <2>5, Zenon DEF MoveStep
<1> QED  BY <1>2, MoveKeeps

\* hold keeps the invariant.
LEMMA HoldKeeps ==
  ASSUME SubInv, NEW k \in Keys, Hold({k})
  PROVE  SubInv'
<1>1. PICK old \in [Patterns -> Nat] : old = None0 /\ \A p \in Patterns : old[p] = 0
  BY OneFacts
<1>2. PICK new \in [Patterns -> Nat] :
         new = [p \in Patterns |-> IF p[2] = NoSid /\ p[1] \in {k} THEN 1 ELSE 0]
  OBVIOUS
<1>3. MoveWire(old, new) /\ Quiet /\ UNCHANGED <<reg, ahead>>
  BY <1>1, <1>2, Zenon DEF Hold
<1>4. /\ hold \in [Keys -> 0..MaxHold] /\ hold[k] < MaxHold
      /\ hold' = [j \in Keys |-> IF j \in {k} THEN hold[j] + 1 ELSE hold[j]]
  BY DEF SubInv, SubTypeOK, Hold
<1>5. hold' \in [Keys -> 0..MaxHold]
  BY <1>4, SubBounds
<1>6. ASSUME NEW p \in Patterns
      PROVE  /\ Held(p)' = (Held(p) + new[p]) - old[p]
             /\ old[p] > 0 \/ new[p] > 0 => p[2] = NoSid
  <2>1. p[1] \in Keys /\ hold[p[1]] \in Nat
    BY <1>4 DEF Patterns
  <2> QED  BY <1>1, <1>2, <1>4, <2>1 DEF Held
<1> QED  BY <1>3, <1>5, <1>6, HoldMoves

\* release keeps the invariant.
LEMMA ReleaseKeeps ==
  ASSUME SubInv, NEW k \in Keys, Release({k})
  PROVE  SubInv'
<1>1. PICK old \in [Patterns -> Nat] :
         old = [p \in Patterns |-> IF p[2] = NoSid /\ p[1] \in {k} THEN 1 ELSE 0]
  OBVIOUS
<1>2. PICK new \in [Patterns -> Nat] : new = None0 /\ \A p \in Patterns : new[p] = 0
  BY OneFacts
<1>3. MoveWire(old, new) /\ Quiet /\ UNCHANGED <<reg, ahead>>
  BY <1>1, <1>2, Zenon DEF Release
<1>4. /\ hold \in [Keys -> 0..MaxHold] /\ hold[k] > 0
      /\ hold' = [j \in Keys |-> IF j \in {k} THEN hold[j] - 1 ELSE hold[j]]
  BY DEF SubInv, SubTypeOK, Release
<1>5. hold' \in [Keys -> 0..MaxHold]
  BY <1>4, SubBounds
<1>6. ASSUME NEW p \in Patterns
      PROVE  /\ Held(p)' = (Held(p) + new[p]) - old[p]
             /\ old[p] > 0 \/ new[p] > 0 => p[2] = NoSid
  <2>1. p[1] \in Keys /\ hold[p[1]] \in Nat
    BY <1>4 DEF Patterns
  <2> QED  BY <1>1, <1>2, <1>4, <2>1 DEF Held
<1> QED  BY <1>3, <1>5, <1>6, HoldMoves

-----------------------------------------------------------------------------
(* The connection. *)

\* A topology frame keeps the invariant: the session callbacks change their
\* patterns, the others do not.
LEMMA TopologyKeeps == SubInv /\ Topology => SubInv'
<1> SUFFICES ASSUME SubInv, Topology  PROVE SubInv'
  OBVIOUS
<1>0. /\ SubTypeOK /\ CountsAgree /\ RoutesKnown /\ OnlyWhereRouted /\ UpToDate
      /\ reg \in [Cbs -> Sids \cup {NoSid, "off"}] /\ routes \in BOOLEAN
      /\ ahead \in [Cbs -> Nat] /\ inq \in Seq(0..MaxConn) /\ inq # <<>>
      /\ gen \in 0..MaxConn /\ caps \in [0..MaxConn -> BOOLEAN]
      /\ reg' = reg /\ ahead' = ahead /\ hold' = hold /\ inq' = Tail(inq)
      /\ gen' = gen /\ caps' = caps /\ live' = live /\ conn' = conn /\ subs' = subs
  BY DEF SubInv, SubTypeOK, Topology
<1>1. inq' \in Seq(0..MaxConn)
  BY <1>0, TailFacts
<1>2. CASE ~(ThisGen(Head(inq)) /\ caps[Head(inq)] # routes)
  <2>1. routes' = routes /\ wire' = wire /\ out' = out
    BY <1>2 DEF Topology
  <2>2. SubTypeOK'
    BY <1>0, <1>1, <2>1 DEF SubTypeOK
  <2>3. CountsAgree' /\ RoutesKnown' /\ OnlyWhereRouted' /\ UpToDate'
    <3>1. CountsAgree'
      BY <1>0, <2>1 DEF CountsAgree, Held, Callbacks, Pattern
    <3>2. RoutesKnown' /\ OnlyWhereRouted'
      BY <1>0, <2>1 DEF RoutesKnown, OnlyWhereRouted
    <3>3. UpToDate'
      <4>1. \A p, n : On(p, n)' <=> On(p, n)
        BY <1>0, <2>1 DEF On, Has
      <4>2. Callbacks' = Callbacks /\ \A c : Scopes(c)' = Scopes(c)
        BY <1>0 DEF Scopes, Callbacks
      <4>3. PICK m : m = Len(out)
        OBVIOUS
      <4>4. \A p : On(p, Len(out))' <=> On(p, m)'
        BY <1>0, <2>1, <4>3 DEF On, Has
      <4> QED  BY <1>0, <2>1, <4>1, <4>2, <4>3, <4>4 DEF UpToDate
    <3> QED  BY <3>1, <3>2, <3>3
  <2> QED  BY <2>2, <2>3 DEF SubInv
<1>3. CASE ThisGen(Head(inq)) /\ caps[Head(inq)] # routes
  <2>1. PICK C : C = {c \in Callbacks : reg[c] # NoSid}
    OBVIOUS
  <2>2. PICK old : old = [p \in Patterns |->
                            Cardinality({c \in C : WireKey(KeyOf[c], reg[c], routes) = p})]
    OBVIOUS
  <2>3. PICK new : new = [p \in Patterns |->
                            Cardinality({c \in C : WireKey(KeyOf[c], reg[c], caps[gen]) = p})]
    OBVIOUS
  <2>4. Head(inq) = gen
    BY <1>3 DEF ThisGen
  <2>5. routes' = caps[gen] /\ MoveWire(old, new)
    BY <1>3, <2>1, <2>2, <2>3, <2>4, Zenon DEF Topology
  <2>6. ASSUME NEW p \in Patterns
        PROVE  /\ old[p] \in Nat /\ new[p] \in Nat
               /\ Cardinality(Users(p)') = (Cardinality(Users(p)) + new[p]) - old[p]
               /\ old[p] > 0 \/ new[p] > 0 => p[2] = NoSid \/ caps[gen]
    <3>1. PICK A : A = {c \in C : WireKey(KeyOf[c], reg[c], routes) = p}
      OBVIOUS
    <3>2. PICK B : B = {c \in C : WireKey(KeyOf[c], reg[c], caps[gen]) = p}
      OBVIOUS
    <3>3. PICK R : R = {c \in Callbacks : reg[c] = NoSid /\ <<KeyOf[c], NoSid>> = p}
      OBVIOUS
    <3>4. A \in SUBSET Cbs /\ B \in SUBSET Cbs /\ R \in SUBSET Cbs
      BY <2>1, <3>1, <3>2, <3>3 DEF Callbacks
    <3>5. IsFiniteSet(A) /\ IsFiniteSet(B) /\ IsFiniteSet(R)
      BY <3>4, SubBounds, FS_Subset
    <3>6. Cardinality(A) \in Nat /\ Cardinality(B) \in Nat /\ Cardinality(R) \in Nat
      BY <3>5, FS_CardinalityType
    <3>7. A \cap R = {} /\ B \cap R = {}
      BY <2>1, <3>1, <3>2, <3>3
    <3>8. Users(p) = A \cup R
      BY <2>1, <3>1, <3>3 DEF Users, Pattern, WireKey
    <3>9. Users(p)' = B \cup R
      <4>1. Callbacks' = Callbacks
        BY <1>0 DEF Callbacks
      <4>2. \A c \in Callbacks : Pattern(c)' = WireKey(KeyOf[c], reg[c], caps[gen])
        BY <1>0, <2>5 DEF Pattern
      <4>3. Users(p)' = {c \in Callbacks : WireKey(KeyOf[c], reg[c], caps[gen]) = p}
        BY <4>1, <4>2 DEF Users
      <4> QED  BY <2>1, <3>2, <3>3, <4>3 DEF WireKey
    <3>10. /\ Cardinality(A \cup R) = Cardinality(A) + Cardinality(R)
           /\ Cardinality(B \cup R) = Cardinality(B) + Cardinality(R)
      <4>1. Cardinality({}) = 0
        BY FS_EmptySet
      <4>2. Cardinality(A \cup R) = Cardinality(A) + Cardinality(R) - Cardinality(A \cap R)
        BY <3>5, FS_Union
      <4>3. Cardinality(B \cup R) = Cardinality(B) + Cardinality(R) - Cardinality(B \cap R)
        BY <3>5, FS_Union
      <4> QED  BY <3>6, <3>7, <4>1, <4>2, <4>3
    <3>11. old[p] = Cardinality(A) /\ new[p] = Cardinality(B)
      BY <2>2, <2>3, <3>1, <3>2
    <3>12. old[p] > 0 => p[2] = NoSid \/ caps[gen]
      <4> SUFFICES ASSUME old[p] > 0, p[2] # NoSid  PROVE caps[gen]
        OBVIOUS
      <4>1. A # {}
        BY <3>6, <3>11, FS_EmptySet
      <4>2. routes
        BY <3>1, <4>1 DEF WireKey
      <4> QED  BY <1>0, <4>2 DEF RoutesKnown
    <3>13. new[p] > 0 => p[2] = NoSid \/ caps[gen]
      <4> SUFFICES ASSUME new[p] > 0, p[2] # NoSid  PROVE caps[gen]
        OBVIOUS
      <4>1. B # {}
        BY <3>6, <3>11, FS_EmptySet
      <4> QED  BY <3>2, <4>1 DEF WireKey
    <3> QED  BY <3>6, <3>8, <3>9, <3>10, <3>11, <3>12, <3>13
  <2>7. old \in [Patterns -> Nat] /\ new \in [Patterns -> Nat]
    BY <2>2, <2>3, <2>6
  <2>8. CountsAgree'
    <3> SUFFICES ASSUME NEW p \in Patterns
                 PROVE  wire'[p] = Held(p)' + Cardinality(Users(p)')
      BY DEF CountsAgree, Users
    <3>1. wire[p] = Held(p) + Cardinality(Users(p)) /\ wire[p] \in Nat
      BY <1>0 DEF CountsAgree, Users, SubTypeOK
    <3>2. Cardinality(Users(p)) \in Nat
      BY UsersFinite
    <3>3. Held(p) \in Nat /\ Held(p)' = Held(p)
      BY <1>0 DEF Held, SubTypeOK, Patterns
    <3>4. wire'[p] = wire[p] + new[p] - old[p]
      BY <2>5, MoveCounts
    <3> QED  BY <2>6, <3>1, <3>2, <3>3, <3>4
  <2>9. MoveStep(old, new, {})
    <3>1. /\ reg' \in [Cbs -> Sids \cup {NoSid, "off"}] /\ hold' \in [Keys -> 0..MaxHold]
      BY <1>0 DEF SubTypeOK
    <3>2. routes' \in BOOLEAN
      BY <1>0, <2>5
    <3>3. RoutesKnown'
      BY <1>0, <2>5 DEF RoutesKnown
    <3>4. \A d \in Callbacks' : d \notin {} => d \in Callbacks /\ reg'[d] = reg[d]
      BY <1>0 DEF Callbacks
    <3>5. Scoped({})
      BY <1>0 DEF Scoped
    <3>6. \A p \in Patterns : old[p] > 0 \/ new[p] > 0 => p[2] = NoSid \/ caps[gen]
      BY <2>6
    <3> QED  BY <1>0, <1>1, <2>5, <2>8, <3>1, <3>2, <3>3, <3>4, <3>5, <3>6, Zenon DEF MoveStep
  <2> QED  BY <2>7, <2>9, MoveKeeps
<1> QED  BY <1>2, <1>3

\* What the broker will have after n + 1 frames, it has after n once it has
\* applied the first.
LEMMA OnShifts ==
  ASSUME SubTypeOK, out # <<>>, out' = Tail(out), subs' = Update(Head(out)),
         NEW p \in Patterns, NEW n \in 0..(Len(out) - 1), On(p, n + 1)
  PROVE  On(p, n)'
<1>0. /\ out \in Seq(SubFrame) /\ Len(out) \in Nat /\ Len(out) >= 1 /\ n \in Nat
      /\ Head(out) = out[1] /\ out[1] \in SubFrame /\ subs \in [Patterns -> Nat] /\ subs[p] \in Nat
      /\ \A i \in 1..(Len(out) - 1) : out'[i] = out[i + 1]
  BY TailFacts DEF SubTypeOK
<1>1. \A i \in 1..n, op \in {"sub", "unsub"} : Has(i, op, p)' <=> Has(i + 1, op, p)
  BY <1>0 DEF Has
<1>2. subs'[p] = IF p \notin out[1].pats THEN subs[p]
                 ELSE IF out[1].op = "sub" THEN subs[p] + 1
                 ELSE IF subs[p] > 0 THEN subs[p] - 1 ELSE 0
  BY <1>0 DEF Update
<1>3. out[1].op \in {"sub", "unsub"}
  BY <1>0 DEF SubFrame
<1>4. CASE subs[p] > 0 /\ \A k \in 1..(n + 1) : ~Has(k, "unsub", p)
  <2>1. ~Has(1, "unsub", p)
    BY <1>0, <1>4
  <2>2. subs'[p] > 0
    BY <1>0, <1>2, <1>3, <1>4, <2>1 DEF Has
  <2>3. \A k \in 1..n : ~Has(k, "unsub", p)'
    BY <1>0, <1>1, <1>4
  <2> QED  BY <2>2, <2>3 DEF On
<1>5. CASE \E i \in 1..(n + 1) : Has(i, "sub", p) /\ \A k \in (i + 1)..(n + 1) : ~Has(k, "unsub", p)
  <2>1. PICK i \in 1..(n + 1) : Has(i, "sub", p) /\ \A k \in (i + 1)..(n + 1) : ~Has(k, "unsub", p)
    BY <1>5
  <2>2. CASE i = 1
    <3>1. subs'[p] > 0
      BY <1>0, <1>2, <2>1, <2>2 DEF Has
    <3>2. \A k \in 1..n : ~Has(k, "unsub", p)'
      BY <1>0, <1>1, <2>1, <2>2
    <3> QED  BY <3>1, <3>2 DEF On
  <2>3. CASE i # 1
    <3>1. PICK j \in 1..n : i = j + 1
      BY <1>0, <2>3
    <3>2. Has(j, "sub", p)'
      BY <1>0, <1>1, <2>1, <3>1
    <3>3. \A k \in (j + 1)..n : ~Has(k, "unsub", p)'
      BY <1>0, <1>1, <2>1, <3>1
    <3> QED  BY <3>2, <3>3 DEF On
  <2> QED  BY <2>2, <2>3
<1> QED  BY <1>4, <1>5 DEF On

\* Counts, routing and what the registry needs do not see the connection.
LEMMA CountsKept ==
  ASSUME CountsAgree, RoutesKnown, UNCHANGED <<reg, wire, hold, routes, gen, caps>>
  PROVE  CountsAgree' /\ RoutesKnown'
<1>1. CountsAgree'
  BY DEF CountsAgree, Held, Callbacks, Pattern
<1>2. RoutesKnown'
  BY DEF RoutesKnown
<1> QED  BY <1>1, <1>2

\* A frame leaves the outbox.
LEMMA SendKeeps == SubInv /\ SendsFrame => SubInv'
<1> SUFFICES ASSUME SubInv, SendsFrame  PROVE SubInv'
  OBVIOUS
<1>0. /\ SubTypeOK /\ CountsAgree /\ RoutesKnown /\ OnlyWhereRouted /\ UpToDate
      /\ out \in Seq(SubFrame) /\ out # <<>> /\ out' = Tail(out) /\ conn = "up"
      /\ ahead \in [Cbs -> Nat] /\ subs \in [Patterns -> Nat]
      /\ ahead' = [c \in Cbs |-> IF ahead[c] > 0 THEN ahead[c] - 1 ELSE 0]
      /\ UNCHANGED <<reg, wire, hold, routes, gen, caps>> /\ live' = live /\ inq' = inq
  BY DEF SubInv, SubTypeOK, SendsFrame
<1>1. /\ out' \in Seq(SubFrame) /\ Len(out') = Len(out) - 1 /\ Len(out) \in Nat /\ Len(out) >= 1
      /\ Head(out) = out[1] /\ \A i \in 1..(Len(out) - 1) : out'[i] = out[i + 1]
  BY <1>0, TailFacts
<1>2. /\ conn' \in {"up", "lost"} /\ subs' \in [Patterns -> Nat]
      /\ conn' = "up" => subs' = Update(Head(out))
  <2>1. Update(Head(out)) \in [Patterns -> Nat]
    BY <1>0 DEF Update
  <2>2. CASE Upset(Head(out))
    BY <1>0, <2>2 DEF SendsFrame
  <2>3. CASE ~Upset(Head(out))
    <3>1. subs' = Update(Head(out)) /\ conn' = conn
      BY <2>3 DEF SendsFrame
    <3> QED  BY <1>0, <2>1, <3>1
  <2> QED  BY <2>2, <2>3
<1>3. SubTypeOK'
  <2>1. ahead' \in [Cbs -> Nat]
    BY <1>0
  <2>2. /\ reg' \in [Cbs -> Sids \cup {NoSid, "off"}] /\ wire' \in [Patterns -> Nat]
        /\ hold' \in [Keys -> 0..MaxHold] /\ routes' \in BOOLEAN /\ live' \in BOOLEAN
        /\ gen' \in 0..MaxConn /\ caps' \in [0..MaxConn -> BOOLEAN] /\ inq' \in Seq(0..MaxConn)
    BY <1>0 DEF SubTypeOK
  <2>3. conn' \in {"up", "lost", "down"}
    BY <1>2
  <2> QED  BY <1>1, <1>2, <2>1, <2>2, <2>3, Zenon DEF SubTypeOK
<1>4. OnlyWhereRouted'
  <2> SUFFICES ASSUME NEW i \in DOMAIN out', \E p \in out'[i].pats : p[2] # NoSid
               PROVE  caps'[out'[i].gen]
    BY DEF OnlyWhereRouted
  <2>1. i \in 1..(Len(out) - 1) /\ out'[i] = out[i + 1] /\ i + 1 \in DOMAIN out
    BY <1>0, <1>1
  <2> QED  BY <1>0, <2>1 DEF OnlyWhereRouted
<1>5. UpToDate'
  <2> SUFFICES ASSUME conn' = "up"
               PROVE  /\ live'
                      /\ \A p \in Patterns : wire'[p] > 0 => On(p, Len(out))'
                      /\ \A c \in Callbacks' : \A n \in ahead'[c]..Len(out') :
                           \E p \in Scopes(c)' : On(p, n)'
    BY DEF UpToDate
  <2>1. /\ live
        /\ \A p \in Patterns : wire[p] > 0 => On(p, Len(out))
        /\ \A c \in Callbacks : \A n \in ahead[c]..Len(out) : \E p \in Scopes(c) : On(p, n)
    BY <1>0 DEF UpToDate
  <2>2. \A p \in Patterns, n \in 0..(Len(out) - 1) : On(p, n + 1) => On(p, n)'
    BY <1>0, <1>2, OnShifts
  <2>3. ASSUME NEW p \in Patterns, wire'[p] > 0  PROVE On(p, Len(out))'
    <3>1. PICK m \in 0..(Len(out) - 1) : m = Len(out') /\ m + 1 = Len(out)
      BY <1>1
    <3>2. On(p, m + 1)
      BY <1>0, <2>1, <2>3, <3>1
    <3>3. On(p, m)'
      BY <2>2, <3>2
    <3> QED  BY <3>1, <3>3 DEF On
  <2>4. ASSUME NEW c \in Callbacks', NEW n \in ahead'[c]..Len(out')
        PROVE  \E p \in Scopes(c)' : On(p, n)'
    <3>1. c \in Callbacks /\ c \in Cbs /\ Scopes(c)' = Scopes(c) /\ reg[c] \in Sids \cup {NoSid}
      BY <1>0 DEF Callbacks, Scopes, SubTypeOK
    <3>2. n \in 0..(Len(out) - 1) /\ n + 1 \in ahead[c]..Len(out)
      BY <1>0, <1>1, <3>1
    <3>3. PICK p \in Scopes(c) : On(p, n + 1)
      BY <2>1, <3>1, <3>2
    <3>4. p \in Patterns
      BY <3>1 DEF Scopes, Patterns, Keys
    <3> QED  BY <2>2, <3>1, <3>2, <3>3, <3>4
  <2> QED  BY <1>0, <2>1, <2>3, <2>4
<1>6. CountsAgree' /\ RoutesKnown'
  BY <1>0, CountsKept
<1> QED  BY <1>3, <1>4, <1>5, <1>6 DEF SubInv

\* The connection is lost.
LEMMA LoseKeeps == SubInv /\ Lose => SubInv'
<1> SUFFICES ASSUME SubInv, Lose  PROVE SubInv'
  OBVIOUS
<1>0. /\ SubTypeOK /\ CountsAgree /\ RoutesKnown /\ OnlyWhereRouted
      /\ out \in Seq(SubFrame) /\ conn' = "lost"
      /\ UNCHANGED <<reg, wire, hold, routes, gen, caps>> /\ live' = live /\ inq' = inq
      /\ subs' = subs /\ ahead' = ahead
      /\ out' = out \/ (out # <<>> /\ out' = Tail(out))
  BY DEF SubInv, SubTypeOK, Lose
<1>1. out' \in Seq(SubFrame) /\ OnlyWhereRouted'
  <2>1. CASE out' = out
    BY <1>0, <2>1 DEF OnlyWhereRouted
  <2>2. CASE out # <<>> /\ out' = Tail(out)
    <3>1. /\ out' \in Seq(SubFrame) /\ Len(out') = Len(out) - 1 /\ Len(out) \in Nat /\ Len(out) >= 1
          /\ \A i \in 1..(Len(out) - 1) : out'[i] = out[i + 1]
      BY <1>0, <2>2, TailFacts
    <3>2. ASSUME NEW i \in DOMAIN out', \E p \in out'[i].pats : p[2] # NoSid
          PROVE  caps'[out'[i].gen]
      <4>1. i \in 1..(Len(out) - 1) /\ out'[i] = out[i + 1] /\ i + 1 \in DOMAIN out
        BY <1>0, <3>1
      <4> QED  BY <1>0, <3>2, <4>1 DEF OnlyWhereRouted
    <3> QED  BY <3>1, <3>2 DEF OnlyWhereRouted
  <2> QED  BY <1>0, <2>1, <2>2
<1>2. SubTypeOK'
  BY <1>0, <1>1 DEF SubTypeOK
<1>3. UpToDate'
  BY <1>0 DEF UpToDate
<1>4. CountsAgree' /\ RoutesKnown'
  BY <1>0, CountsKept
<1> QED  BY <1>1, <1>2, <1>3, <1>4 DEF SubInv

\* The runtime notices: _subs_down.
LEMMA SubsDownKeeps == SubInv /\ SubsDown => SubInv'
<1> SUFFICES ASSUME SubInv, SubsDown  PROVE SubInv'
  OBVIOUS
<1>0. /\ SubTypeOK /\ CountsAgree /\ RoutesKnown /\ OnlyWhereRouted
      /\ conn' = "down" /\ live' = FALSE
      /\ UNCHANGED <<reg, wire, hold, routes, gen, caps>> /\ out' = out /\ inq' = inq
      /\ subs' = subs /\ ahead' = ahead
  BY DEF SubInv, SubTypeOK, SubsDown
<1>1. SubTypeOK'
  BY <1>0 DEF SubTypeOK
<1>2. UpToDate'
  BY <1>0 DEF UpToDate
<1>3. OnlyWhereRouted'
  BY <1>0 DEF OnlyWhereRouted
<1>4. CountsAgree' /\ RoutesKnown'
  BY <1>0, CountsKept
<1> QED  BY <1>1, <1>2, <1>3, <1>4 DEF SubInv

\* A new connection: _resync_subscriptions writes everything again, as plain
\* patterns, in the last frame of the outbox.
LEMMA ReconnectKeeps ==
  ASSUME SubInv, NEW kept \in BOOLEAN, Reconnect(kept)
  PROVE  SubInv'
<1>0. /\ SubTypeOK /\ CountsAgree /\ OnlyWhereRouted
      /\ out \in Seq(SubFrame) /\ Len(out) \in Nat /\ gen \in 0..MaxConn /\ gen < MaxConn
      /\ hold \in [Keys -> 0..MaxHold] /\ subs \in [Patterns -> Nat] /\ inq \in Seq(0..MaxConn)
      /\ reg \in [Cbs -> Sids \cup {NoSid, "off"}]
  BY DEF SubInv, SubTypeOK, Reconnect
<1>1. /\ conn' = "up" /\ gen' = gen + 1 /\ routes' = FALSE /\ live' = TRUE
      /\ wire' = Resynced /\ inq' = Append(inq, gen + 1)
      /\ ahead' = [c \in Cbs |-> IF c \in Cbs THEN Len(out') ELSE ahead[c]]
      /\ reg' = reg /\ hold' = hold /\ caps' = caps
  BY DEF Reconnect, Scoped
<1>2. gen' \in 0..MaxConn /\ inq' \in Seq(0..MaxConn)
  <2>1. gen + 1 \in 0..MaxConn
    BY <1>0, SubBounds
  <2> QED  BY <1>0, <1>1, <2>1, AppendFacts
<1>3. subs' \in [Patterns -> Nat]
  BY <1>0, OneFacts DEF Reconnect
<1>4. ASSUME NEW p \in Patterns
      PROVE  /\ wire'[p] = Held(p)' + Cardinality(Users(p)') /\ wire'[p] \in Nat
             /\ wire'[p] > 0 => p[2] = NoSid
  <2>1. wire'[p] = Held(p) + (IF p[2] = NoSid
                              THEN Cardinality({c \in Callbacks : KeyOf[c] = p[1]}) ELSE 0)
    BY <1>1 DEF Resynced
  <2>2. Held(p)' = Held(p) /\ Held(p) \in Nat /\ (p[2] # NoSid => Held(p) = 0)
    BY <1>0, <1>1 DEF Held, Patterns
  <2>3. Callbacks' = Callbacks
    BY <1>1 DEF Callbacks
  <2>4. \A c \in Callbacks : Pattern(c)' = <<KeyOf[c], NoSid>>
    BY <1>1 DEF Pattern, WireKey
  <2>5. Users(p)' = {c \in Callbacks : <<KeyOf[c], NoSid>> = p}
    BY <2>3, <2>4 DEF Users
  <2>6. CASE p[2] = NoSid
    <3>1. \A c \in Callbacks : <<KeyOf[c], NoSid>> = p <=> KeyOf[c] = p[1]
      BY <2>6 DEF Patterns
    <3>2. Users(p)' = {c \in Callbacks : KeyOf[c] = p[1]}
      BY <2>5, <3>1
    <3>3. Cardinality(Users(p)') \in Nat
      BY UsersFinite
    <3> QED  BY <2>1, <2>2, <2>6, <3>2, <3>3
  <2>7. CASE p[2] # NoSid
    <3>1. Users(p)' = {}
      BY <2>5, <2>7
    <3>2. Cardinality(Users(p)') = 0
      BY <3>1, FS_EmptySet
    <3> QED  BY <2>1, <2>2, <2>7, <3>2
  <2> QED  BY <2>6, <2>7
<1>5. CountsAgree'
  BY <1>4 DEF CountsAgree, Users
<1>6. wire' \in [Patterns -> Nat]
  <2>1. PICK w : w = wire'
    OBVIOUS
  <2>2. w = [p \in Patterns |-> w[p]]
    BY <1>1, <2>1 DEF Resynced
  <2> QED  BY <1>4, <2>1, <2>2
<1>7. PICK P \in SUBSET Patterns : P = {p \in Patterns : Resynced[p] > 0}
  OBVIOUS
<1>8. out' = out \o Emit("sub", P, TRUE)
  BY <1>7, Zenon DEF Reconnect
<1>9. /\ out' \in Seq(SubFrame) /\ Len(out') \in Nat /\ Len(out) <= Len(out') /\ Len(out') <= Len(out) + 1
      /\ \A i \in 1..Len(out) : out'[i] = out[i]
      /\ P # {} => Len(out') = Len(out) + 1
      /\ \A i \in (Len(out) + 1)..Len(out') : out'[i].op = "sub" /\ out'[i].pats = P
  <2>1. CASE P = {}
    <3>1. Emit("sub", P, TRUE) = <<>>
      BY <2>1 DEF Emit
    <3>2. out' = out
      BY <1>0, <1>8, <3>1, EmitFacts
    <3> QED  BY <1>0, <2>1, <3>2
  <2>2. CASE P # {}
    <3>1. PICK f : f = [op |-> "sub", pats |-> P, gen |-> gen', sync |-> TRUE]
      OBVIOUS
    <3>2. f \in SubFrame /\ f.op = "sub" /\ f.pats = P
      BY <1>2, <3>1 DEF SubFrame
    <3>3. Emit("sub", P, TRUE) = <<f>>
      BY <2>2, <3>1 DEF Emit
    <3>4. out' = Append(out, f)
      BY <1>0, <1>8, <3>2, <3>3, EmitFacts
    <3> QED  BY <1>0, <2>2, <3>2, <3>4, AppendFacts
  <2> QED  BY <2>1, <2>2
<1>10. SubTypeOK'
  <2>1. ahead' \in [Cbs -> Nat]
    BY <1>1, <1>9
  <2>2. reg' \in [Cbs -> Sids \cup {NoSid, "off"}] /\ hold' \in [Keys -> 0..MaxHold]
    BY <1>0, <1>1
  <2>3. routes' \in BOOLEAN /\ live' \in BOOLEAN /\ conn' \in {"up", "lost", "down"}
    BY <1>1
  <2>4. caps' \in [0..MaxConn -> BOOLEAN]
    BY <1>0, <1>1 DEF SubTypeOK
  <2> QED  BY <1>2, <1>3, <1>6, <1>9, <2>1, <2>2, <2>3, <2>4, Zenon DEF SubTypeOK
<1>11. RoutesKnown'
  BY <1>1 DEF RoutesKnown
<1>12. OnlyWhereRouted'
  <2> SUFFICES ASSUME NEW i \in DOMAIN out', \E p \in out'[i].pats : p[2] # NoSid
               PROVE  caps'[out'[i].gen]
    BY DEF OnlyWhereRouted
  <2>1. i \in 1..Len(out') /\ DOMAIN out = 1..Len(out)
    BY <1>0, <1>9
  <2>2. CASE i <= Len(out)
    <3>1. i \in DOMAIN out /\ out'[i] = out[i]
      BY <1>0, <1>9, <2>1, <2>2
    <3> QED  BY <1>0, <1>1, <3>1 DEF OnlyWhereRouted
  <2>3. CASE ~(i <= Len(out))
    <3>1. out'[i].pats = P
      BY <1>0, <1>9, <2>1, <2>3
    <3>2. \A p \in P : p[2] = NoSid
      BY <1>1, <1>4, <1>7
    <3> QED  BY <3>1, <3>2
  <2> QED  BY <2>2, <2>3
<1>13. UpToDate'
  <2>1. PICK m \in Nat : m = Len(out')
    BY <1>9
  <2>2. ASSUME NEW p \in Patterns, wire'[p] > 0  PROVE On(p, m)'
    <3>1. p \in P
      BY <1>1, <1>7, <2>2
    <3>2. m = Len(out) + 1 /\ m \in 1..m
      BY <1>0, <1>9, <2>1, <3>1
    <3>3. Has(m, "sub", p)'
      BY <1>0, <1>9, <2>1, <3>1, <3>2 DEF Has
    <3>4. \A k \in (m + 1)..m : ~Has(k, "unsub", p)'
      OBVIOUS
    <3> QED  BY <3>2, <3>3, <3>4 DEF On
  <2>3. \A p \in Patterns : wire'[p] > 0 => On(p, Len(out))'
    BY <2>1, <2>2 DEF On
  <2>4. Counted'
    <3>1. (SubTypeOK /\ CountsAgree => Counted)'
      BY UsersCounted, PTL
    <3> QED  BY <1>5, <1>10, <3>1
  <2>5. ASSUME NEW c \in Callbacks', NEW n \in ahead'[c]..Len(out')
        PROVE  \E p \in Scopes(c)' : On(p, n)'
    <3>1. Pattern(c)' \in Patterns /\ Pattern(c)' \in Scopes(c)' /\ wire'[Pattern(c)'] > 0
      BY <2>4 DEF Counted
    <3>2. ahead'[c] = Len(out')
      BY <1>1 DEF Callbacks
    <3>3. n = m
      BY <2>1, <3>2
    <3> QED  BY <2>2, <3>1, <3>3
  <2> QED  BY <1>1, <2>3, <2>5 DEF UpToDate
<1> QED  BY <1>5, <1>10, <1>11, <1>12, <1>13 DEF SubInv

-----------------------------------------------------------------------------
(* The theorem. *)

\* Nothing is registered at first.
LEMMA InitInv == SubInit => SubInv
<1> SUFFICES ASSUME SubInit  PROVE SubInv
  OBVIOUS
<1>1. Callbacks = {}
  BY DEF SubInit, Callbacks
<1>2. SubTypeOK
  <2>1. /\ reg \in [Cbs -> Sids \cup {NoSid, "off"}] /\ wire \in [Patterns -> Nat]
        /\ subs \in [Patterns -> Nat] /\ hold \in [Keys -> 0..MaxHold] /\ ahead \in [Cbs -> Nat]
    BY SubBounds DEF SubInit
  <2>2. routes \in BOOLEAN /\ live \in BOOLEAN /\ conn \in {"up", "lost", "down"}
    BY DEF SubInit
  <2>3. caps \in [0..MaxConn -> BOOLEAN]
    BY DEF SubInit
  <2>4. gen \in 0..MaxConn /\ out \in Seq(SubFrame) /\ inq \in Seq(0..MaxConn)
    BY SubBounds DEF SubInit
  <2> QED  BY <2>1, <2>2, <2>3, <2>4, Zenon DEF SubTypeOK
<1>3. CountsAgree
  <2>1. \A p \in Patterns : {c \in Callbacks : Pattern(c) = p} = {}
    BY <1>1
  <2>2. \A p \in Patterns : Held(p) = 0 /\ wire[p] = 0
    BY DEF SubInit, Held, Patterns
  <2>3. Cardinality({}) = 0
    BY FS_EmptySet
  <2> QED  BY <2>1, <2>2, <2>3 DEF CountsAgree
<1>4. OnlyWhereRouted
  BY DEF SubInit, OnlyWhereRouted
<1>5. RoutesKnown
  BY DEF SubInit, RoutesKnown
<1>6. UpToDate
  <2>1. \A p \in Patterns : wire[p] = 0
    BY DEF SubInit
  <2>2. live
    BY DEF SubInit
  <2> QED  BY <1>1, <2>1, <2>2 DEF UpToDate
<1> QED  BY <1>2, <1>3, <1>4, <1>5, <1>6 DEF SubInv

\* Every step keeps the invariant.
LEMMA NextInv == SubInv /\ [SubNext]_subVars => SubInv'
<1> SUFFICES ASSUME SubInv, [SubNext]_subVars  PROVE SubInv'
  OBVIOUS
<1>1. ASSUME NEW c \in Cbs, UnregisterCallback(c)  PROVE SubInv'
  BY <1>1, UnregisterKeeps
<1>2. ASSUME NEW c \in Cbs, NEW s \in Sids \cup {NoSid}, RegisterCallback(c, s)  PROVE SubInv'
  BY <1>2, RegisterKeeps
<1>3. ASSUME NEW c \in Cbs, NEW s \in Sids \cup {NoSid}, RescopeCallback(c, s)  PROVE SubInv'
  BY <1>3, RescopeKeeps
<1>4. ASSUME NEW k \in Keys, Hold({k})  PROVE SubInv'
  BY <1>4, HoldKeeps
<1>5. ASSUME NEW k \in Keys, Release({k})  PROVE SubInv'
  BY <1>5, ReleaseKeeps
<1>6. CASE Topology \/ SendsFrame \/ Lose \/ SubsDown
  BY <1>6, TopologyKeeps, SendKeeps, LoseKeeps, SubsDownKeeps
<1>7. ASSUME NEW kept \in BOOLEAN, Reconnect(kept)  PROVE SubInv'
  BY <1>7, ReconnectKeeps
<1>8. CASE UNCHANGED subVars
  <2>1. SubTypeOK' /\ CountsAgree' /\ RoutesKnown' /\ OnlyWhereRouted'
    <3>1. SubTypeOK'
      BY <1>8, Zenon DEF SubInv, subVars, SubTypeOK
    <3>2. OnlyWhereRouted'
      BY <1>8 DEF SubInv, subVars, OnlyWhereRouted
    <3>3. CountsAgree' /\ RoutesKnown'
      BY <1>8, CountsKept DEF SubInv, subVars
    <3> QED  BY <3>1, <3>2, <3>3
  <2>2. UpToDate'
    <3>0. /\ UpToDate /\ reg' = reg /\ wire' = wire /\ live' = live /\ conn' = conn
          /\ out' = out /\ subs' = subs /\ ahead' = ahead
      BY <1>8 DEF SubInv, subVars
    <3>1. \A p, n : On(p, n)' <=> On(p, n)
      BY <3>0 DEF On, Has
    <3>2. Callbacks' = Callbacks /\ \A c : Scopes(c)' = Scopes(c)
      BY <3>0 DEF Scopes, Callbacks
    <3>3. PICK m : m = Len(out)
      OBVIOUS
    <3>4. \A p : On(p, Len(out))' <=> On(p, m)'
      BY <3>0, <3>3 DEF On, Has
    <3> QED  BY <3>0, <3>1, <3>2, <3>3, <3>4 DEF UpToDate
  <2> QED  BY <2>1, <2>2 DEF SubInv
<1> QED  BY <1>1, <1>2, <1>3, <1>4, <1>5, <1>6, <1>7, <1>8, Zenon DEF SubNext

\* The invariant holds of every reachable state.
THEOREM Invariance == SubSpec => []SubInv
<1>1. SubInit => SubInv
  BY InitInv
<1>2. SubInv /\ [SubNext]_subVars => SubInv'
  BY NextInv
<1> QED  BY <1>1, <1>2, PTL DEF SubSpec

\* No registered callback falls between two wire patterns, whatever other
\* callbacks, holds, capability changes and reconnects do meanwhile; patterns
\* are counted as often as they are needed; and session patterns are written
\* only for brokers that route sessions (_move_wire, _resync_subscriptions).
THEOREM SubscriptionsAreSound == SubSpec => []SubscriptionsSound
<1>1. SubInv => SubscriptionsSound
  <2> SUFFICES ASSUME SubInv  PROVE SubscriptionsSound
    OBVIOUS
  <2>0. SubTypeOK /\ CountsAgree /\ OnlyWhereRouted /\ UpToDate
    BY DEF SubInv
  <2>1. ASSUME conn = "up", NEW c \in Callbacks, ahead[c] = 0  PROVE Covered(c)
    <3>1. Len(out) \in Nat
      BY <2>0 DEF SubTypeOK
    <3>2. 0 \in ahead[c]..Len(out)
      BY <2>1, <3>1
    <3>3. PICK p \in Scopes(c) : On(p, 0)
      BY <2>0, <2>1, <3>2 DEF UpToDate
    <3>4. subs[p] > 0
      BY <3>3 DEF On
    <3> QED  BY <3>3, <3>4 DEF Scopes, Covered
  <2> QED  BY <2>0, <2>1 DEF SubscriptionsSound, NoGap
<1>2. SubSpec => []SubInv
  BY Invariance
<1> QED  BY <1>1, <1>2, PTL

-----------------------------------------------------------------------------
(***************************************************************************)
(* The connection of a runtime (RuntimeLife).                              *)
(***************************************************************************)

\* The newest of the frames in q is the topology of the broker.
EndsCurrent(q) == q # <<>> => q[Len(q)] = TopologyFrame(standing)

\* What consumers were told agrees with the topology the runtime has.
HeardAgrees ==
  \A p \in Peers : IF topo[p] = "none" THEN heard[p] \in {"none", "lost"}
                   ELSE heard[p] = topo[p]

\* The broker takes the endpoint for present only over its open socket, and
\* between connections there is no socket.
PresentIsOpen ==
  /\ mine = "present" => sock = "open"
  /\ caller = "new" => transport = "off"
  /\ transport \in {"off", "tunnel", "connect", "sleep"} => sock = "none"
  /\ sock = "open" /\ transport = "serve" => mine = "present"
  /\ transport = "register" /\ sock = "open" =>
       (mine = "present" <=> net # <<>> /\ Head(net).kind = "ack")

\* The answer to a registration that was taken, and the frames that follow it.
AnswerFirst ==
  (transport = "register" /\ sock = "open" /\ mine = "present") =>
    /\ Len(net) >= 2
    /\ EndsCurrent(net)

\* While it is served, the newest frame under way is the broker's topology, and
\* without a frame under way the runtime has it.
NewestIsCurrent ==
  (transport = "serve" /\ sock = "open") =>
    /\ EndsCurrent(net)
    /\ net = <<>> => EndsCurrent(workq)
    /\ net = <<>> /\ workq = <<>> => topo = Shown(standing)

RlInv == RlTypeOK /\ HeardAgrees /\ PresentIsOpen /\ AnswerFirst /\ NewestIsCurrent /\ StoppedIsOff

\* A topology frame is a frame.
LEMMA TopologyIsFrame ==
  ASSUME NEW v \in [Peers -> Standing]
  PROVE  TopologyFrame(v) \in ViewFrames /\ TopologyFrame(v).kind = "topology"
BY DEF TopologyFrame, ViewFrames

\* A registration is answered by one frame, or by two that end with the topology.
LEMMA AnswerFacts ==
  ASSUME RlTypeOK, NEW a \in Answers
  PROVE  /\ a \in Seq(ViewFrames) /\ Len(a) >= 1
         /\ a[1].kind = "ack" => Len(a) = 2 /\ EndsCurrent(a)
<1>1. TopologyFrame(standing) \in ViewFrames
  BY TopologyIsFrame DEF RlTypeOK
<1>2. \A k \in {"ack", "inuse", "refused"} : [kind |-> k] \in ViewFrames
  BY DEF ViewFrames
<1>3. CASE a = <<[kind |-> "ack"], TopologyFrame(standing)>>
  BY <1>1, <1>2, <1>3 DEF EndsCurrent
<1>4. CASE a = <<[kind |-> "inuse"]>>
  BY <1>2, <1>4
<1>5. CASE a = <<[kind |-> "refused"]>>
  BY <1>2, <1>5
<1> QED  BY <1>3, <1>4, <1>5 DEF Answers

\* PeerMoves keeps the invariant.
LEMMA PeerMovesKeeps ==
  ASSUME RlInv, NEW p \in Peers, NEW to \in Standing, PeerMoves(p, to)
  PROVE  RlInv'
<1>1. RlTypeOK'
  BY DEF RlInv, RlTypeOK, ViewFrames, Known, Standing, Answers, TopologyFrame, Shown,
       SynthesizeLost, PeerMoves, TopologyFrame, flags, learned
<1>2. HeardAgrees'
  BY DEF RlInv, RlTypeOK, HeardAgrees, Known, Shown, SynthesizeLost, PeerMoves, TopologyFrame,
       flags, learned
<1>3. PresentIsOpen'
  <2>1. CASE sock = "open" /\ mine = "present"
    <3>1. net \in Seq(ViewFrames) /\ net' = Append(net, TopologyFrame(standing'))
      BY <2>1 DEF RlInv, RlTypeOK, PeerMoves
    <3>2. transport = "register" => net # <<>> /\ Head(net).kind = "ack"
      BY <2>1 DEF RlInv, PresentIsOpen
    <3>3. transport = "register" => net' # <<>> /\ Head(net') = Head(net)
      BY <3>1, <3>2
    <3> QED  BY <2>1, <3>2, <3>3 DEF RlInv, PresentIsOpen, PeerMoves
  <2>2. CASE ~(sock = "open" /\ mine = "present")
    BY <2>2 DEF RlInv, PresentIsOpen, PeerMoves
  <2> QED  BY <2>1, <2>2
<1>4. AnswerFirst'
  BY DEF RlInv, RlTypeOK, PresentIsOpen, AnswerFirst, EndsCurrent, TopologyFrame, Answers, Shown,
       PeerMoves, TopologyFrame, flags, learned
<1>5. NewestIsCurrent'
  <2>1. CASE sock = "open" /\ transport = "serve"
    <3>1. net \in Seq(ViewFrames) /\ net' = Append(net, TopologyFrame(standing'))
      BY <2>1 DEF RlInv, RlTypeOK, PeerMoves, PresentIsOpen
    <3>2. net' # <<>> /\ net'[Len(net')] = TopologyFrame(standing')
      BY <3>1
    <3> QED  BY <3>2 DEF NewestIsCurrent, EndsCurrent, TopologyFrame
  <2>2. CASE ~(sock = "open" /\ transport = "serve")
    BY <2>2 DEF NewestIsCurrent, PeerMoves
  <2> QED  BY <2>1, <2>2
<1>6. StoppedIsOff'
  BY DEF RlInv, PresentIsOpen, StoppedIsOff, PeerMoves, TopologyFrame, flags, learned
<1> QED  BY <1>1, <1>2, <1>3, <1>4, <1>5, <1>6 DEF RlInv

\* Breaks keeps the invariant.
LEMMA BreaksKeeps ==
  ASSUME RlInv, Breaks
  PROVE  RlInv'
<1>1. RlTypeOK'
  BY DEF RlInv, RlTypeOK, ViewFrames, Known, Standing, Answers, TopologyFrame, Shown,
       SynthesizeLost, Breaks, flags, learned
<1>2. HeardAgrees'
  BY DEF RlInv, RlTypeOK, HeardAgrees, Known, Shown, SynthesizeLost, Breaks, flags, learned
<1>3. PresentIsOpen'
  BY DEF RlInv, RlTypeOK, PresentIsOpen, AnswerFirst, Known, Answers, TopologyFrame, Breaks, flags,
       learned
<1>4. AnswerFirst'
  BY DEF RlInv, RlTypeOK, PresentIsOpen, AnswerFirst, EndsCurrent, TopologyFrame, Answers, Shown,
       Breaks, flags, learned
<1>5. NewestIsCurrent'
  BY DEF RlInv, RlTypeOK, PresentIsOpen, AnswerFirst, NewestIsCurrent, EndsCurrent, TopologyFrame,
       Answers, Shown, Breaks, flags, learned
<1>6. StoppedIsOff'
  BY DEF RlInv, PresentIsOpen, StoppedIsOff, Breaks, flags, learned
<1> QED  BY <1>1, <1>2, <1>3, <1>4, <1>5, <1>6 DEF RlInv

\* OwnGraceOver keeps the invariant.
LEMMA OwnGraceOverKeeps ==
  ASSUME RlInv, OwnGraceOver
  PROVE  RlInv'
<1>1. RlTypeOK'
  BY DEF RlInv, RlTypeOK, ViewFrames, Known, Standing, Answers, TopologyFrame, Shown,
       SynthesizeLost, OwnGraceOver, flags, learned
<1>2. HeardAgrees'
  BY DEF RlInv, RlTypeOK, HeardAgrees, Known, Shown, SynthesizeLost, OwnGraceOver, flags, learned
<1>3. PresentIsOpen'
  BY DEF RlInv, RlTypeOK, PresentIsOpen, AnswerFirst, Known, Answers, TopologyFrame, OwnGraceOver,
       flags, learned
<1>4. AnswerFirst'
  BY DEF RlInv, RlTypeOK, PresentIsOpen, AnswerFirst, EndsCurrent, TopologyFrame, Answers, Shown,
       OwnGraceOver, flags, learned
<1>5. NewestIsCurrent'
  BY DEF RlInv, RlTypeOK, PresentIsOpen, AnswerFirst, NewestIsCurrent, EndsCurrent, TopologyFrame,
       Answers, Shown, OwnGraceOver, flags, learned
<1>6. StoppedIsOff'
  BY DEF RlInv, PresentIsOpen, StoppedIsOff, OwnGraceOver, flags, learned
<1> QED  BY <1>1, <1>2, <1>3, <1>4, <1>5, <1>6 DEF RlInv

\* Terminates keeps the invariant.
LEMMA TerminatesKeeps ==
  ASSUME RlInv, Terminates
  PROVE  RlInv'
<1>1. RlTypeOK'
  BY DEF RlInv, RlTypeOK, ViewFrames, Known, Standing, Answers, TopologyFrame, Shown,
       SynthesizeLost, Terminates, flags, learned
<1>2. HeardAgrees'
  BY DEF RlInv, RlTypeOK, HeardAgrees, Known, Shown, SynthesizeLost, Terminates, flags, learned
<1>3. PresentIsOpen'
  BY DEF RlInv, RlTypeOK, PresentIsOpen, AnswerFirst, Known, Answers, TopologyFrame, Terminates,
       flags, learned
<1>4. AnswerFirst'
  BY DEF RlInv, RlTypeOK, PresentIsOpen, AnswerFirst, EndsCurrent, TopologyFrame, Answers, Shown,
       Terminates, flags, learned
<1>5. NewestIsCurrent'
  BY DEF RlInv, RlTypeOK, PresentIsOpen, AnswerFirst, NewestIsCurrent, EndsCurrent, TopologyFrame,
       Answers, Shown, Terminates, flags, learned
<1>6. StoppedIsOff'
  BY DEF RlInv, PresentIsOpen, StoppedIsOff, Terminates, flags, learned
<1> QED  BY <1>1, <1>2, <1>3, <1>4, <1>5, <1>6 DEF RlInv

\* BrokerRestarts keeps the invariant.
LEMMA BrokerRestartsKeeps ==
  ASSUME RlInv, BrokerRestarts
  PROVE  RlInv'
<1>1. RlTypeOK'
  BY DEF RlInv, RlTypeOK, ViewFrames, Known, Standing, Answers, TopologyFrame, Shown,
       SynthesizeLost, BrokerRestarts, flags, learned
<1>2. HeardAgrees'
  BY DEF RlInv, RlTypeOK, HeardAgrees, Known, Shown, SynthesizeLost, BrokerRestarts, flags, learned
<1>3. PresentIsOpen'
  BY DEF RlInv, RlTypeOK, PresentIsOpen, AnswerFirst, Known, Answers, TopologyFrame,
       BrokerRestarts, flags, learned
<1>4. AnswerFirst'
  BY DEF RlInv, RlTypeOK, PresentIsOpen, AnswerFirst, EndsCurrent, TopologyFrame, Answers, Shown,
       BrokerRestarts, flags, learned
<1>5. NewestIsCurrent'
  BY DEF RlInv, RlTypeOK, PresentIsOpen, AnswerFirst, NewestIsCurrent, EndsCurrent, TopologyFrame,
       Answers, Shown, BrokerRestarts, flags, learned
<1>6. StoppedIsOff'
  BY DEF RlInv, PresentIsOpen, StoppedIsOff, BrokerRestarts, flags, learned
<1> QED  BY <1>1, <1>2, <1>3, <1>4, <1>5, <1>6 DEF RlInv

\* Start keeps the invariant.
LEMMA StartKeeps ==
  ASSUME RlInv, NEW tunnel \in BOOLEAN, Start(tunnel)
  PROVE  RlInv'
<1>1. RlTypeOK'
  BY DEF RlInv, RlTypeOK, ViewFrames, Known, Standing, Answers, TopologyFrame, Shown,
       SynthesizeLost, Start, flags, learned
<1>2. HeardAgrees'
  BY DEF RlInv, RlTypeOK, HeardAgrees, Known, Shown, SynthesizeLost, Start, flags, learned
<1>3. PresentIsOpen'
  BY DEF RlInv, RlTypeOK, PresentIsOpen, AnswerFirst, Known, Answers, TopologyFrame, Start, flags,
       learned
<1>4. AnswerFirst'
  BY DEF RlInv, RlTypeOK, PresentIsOpen, AnswerFirst, EndsCurrent, TopologyFrame, Answers, Shown,
       Start, flags, learned
<1>5. NewestIsCurrent'
  BY DEF RlInv, RlTypeOK, PresentIsOpen, AnswerFirst, NewestIsCurrent, EndsCurrent, TopologyFrame,
       Answers, Shown, Start, flags, learned
<1>6. StoppedIsOff'
  BY DEF RlInv, PresentIsOpen, StoppedIsOff, Start, flags, learned
<1> QED  BY <1>1, <1>2, <1>3, <1>4, <1>5, <1>6 DEF RlInv

\* StartWaited keeps the invariant.
LEMMA StartWaitedKeeps ==
  ASSUME RlInv, StartWaited
  PROVE  RlInv'
<1>1. RlTypeOK'
  BY DEF RlInv, RlTypeOK, ViewFrames, Known, Standing, Answers, TopologyFrame, Shown,
       SynthesizeLost, StartWaited, flags, learned
<1>2. HeardAgrees'
  BY DEF RlInv, RlTypeOK, HeardAgrees, Known, Shown, SynthesizeLost, StartWaited, flags, learned
<1>3. PresentIsOpen'
  BY DEF RlInv, RlTypeOK, PresentIsOpen, AnswerFirst, Known, Answers, TopologyFrame, StartWaited,
       flags, learned
<1>4. AnswerFirst'
  BY DEF RlInv, RlTypeOK, PresentIsOpen, AnswerFirst, EndsCurrent, TopologyFrame, Answers, Shown,
       StartWaited, flags, learned
<1>5. NewestIsCurrent'
  BY DEF RlInv, RlTypeOK, PresentIsOpen, AnswerFirst, NewestIsCurrent, EndsCurrent, TopologyFrame,
       Answers, Shown, StartWaited, flags, learned
<1>6. StoppedIsOff'
  BY DEF RlInv, PresentIsOpen, StoppedIsOff, StartWaited, flags, learned
<1> QED  BY <1>1, <1>2, <1>3, <1>4, <1>5, <1>6 DEF RlInv

\* TunnelOpens keeps the invariant.
LEMMA TunnelOpensKeeps ==
  ASSUME RlInv, NEW ok \in BOOLEAN, TunnelOpens(ok)
  PROVE  RlInv'
<1>1. RlTypeOK'
  <2>1. {stopping, terminated, fatal, closeReq, registered, ready, released}' \subseteq BOOLEAN
    BY DEF RlInv, RlTypeOK, TunnelOpens, learned
  <2>2. /\ transport' \in {transport, "connect", "end"}
        /\ tun' \in {"up", "none", "left"}
        /\ UNCHANGED <<caller, sock, net, workq, topo, heard, mine, standing>>
    BY DEF TunnelOpens, learned
  <2> QED  BY <2>1, <2>2 DEF RlInv, RlTypeOK
<1>2. HeardAgrees'
  BY DEF RlInv, RlTypeOK, HeardAgrees, Known, Shown, SynthesizeLost, TunnelOpens, flags, learned
<1>3. PresentIsOpen'
  BY DEF RlInv, RlTypeOK, PresentIsOpen, AnswerFirst, Known, Answers, TopologyFrame, TunnelOpens,
       flags, learned
<1>4. AnswerFirst'
  BY DEF RlInv, RlTypeOK, PresentIsOpen, AnswerFirst, EndsCurrent, TopologyFrame, Answers, Shown,
       TunnelOpens, flags, learned
<1>5. NewestIsCurrent'
  BY DEF RlInv, RlTypeOK, PresentIsOpen, AnswerFirst, NewestIsCurrent, EndsCurrent, TopologyFrame,
       Answers, Shown, TunnelOpens, flags, learned
<1>6. StoppedIsOff'
  BY DEF RlInv, PresentIsOpen, StoppedIsOff, TunnelOpens, flags, learned
<1> QED  BY <1>1, <1>2, <1>3, <1>4, <1>5, <1>6 DEF RlInv

\* Connect keeps the invariant.
LEMMA ConnectKeeps ==
  ASSUME RlInv, NEW answer, ReachesBroker(answer)
  PROVE  RlInv'
<1>1. RlTypeOK'
  <2>1. net' \in Seq(ViewFrames)
    BY AnswerFacts DEF RlInv, RlTypeOK, ReachesBroker
  <2> QED  BY <2>1 DEF RlInv, RlTypeOK, Standing, Known, ReachesBroker, Onward, flags, learned
<1>2. HeardAgrees'
  BY DEF RlInv, RlTypeOK, HeardAgrees, Known, Shown, SynthesizeLost, ReachesBroker, Onward, flags,
       learned
<1>3. PresentIsOpen'
  BY DEF RlInv, RlTypeOK, PresentIsOpen, AnswerFirst, Known, Answers, TopologyFrame, ReachesBroker,
       Onward, flags, learned
<1>4. AnswerFirst'
  <2>1. CASE Onward = "end"
    BY <2>1 DEF AnswerFirst, ReachesBroker
  <2>2. CASE Onward # "end"
    <3>1. answer \in Answers /\ net' = answer /\ UNCHANGED standing
      BY <2>2 DEF ReachesBroker
    <3>2. mine' = "present" => answer[1].kind = "ack"
      BY <2>2 DEF RlInv, PresentIsOpen, ReachesBroker
    <3>3. answer[1].kind = "ack" => Len(answer) = 2 /\ EndsCurrent(answer)
      BY <3>1, AnswerFacts DEF RlInv
    <3> QED  BY <3>1, <3>2, <3>3 DEF AnswerFirst, EndsCurrent, TopologyFrame
  <2> QED  BY <2>1, <2>2
<1>5. NewestIsCurrent'
  BY DEF RlInv, RlTypeOK, PresentIsOpen, AnswerFirst, NewestIsCurrent, EndsCurrent, TopologyFrame,
       Answers, Shown, ReachesBroker, Onward, flags, learned
<1>6. StoppedIsOff'
  BY DEF RlInv, PresentIsOpen, StoppedIsOff, ReachesBroker, Onward, flags, learned
<1> QED  BY <1>1, <1>2, <1>3, <1>4, <1>5, <1>6 DEF RlInv

\* ConnectFails keeps the invariant.
LEMMA ConnectFailsKeeps ==
  ASSUME RlInv, NEW tls \in BOOLEAN, ConnectFails(tls)
  PROVE  RlInv'
<1>1. RlTypeOK'
  BY DEF RlInv, RlTypeOK, ViewFrames, Known, Standing, Answers, TopologyFrame, Shown,
       SynthesizeLost, ConnectFails, Onward, flags, learned
<1>2. HeardAgrees'
  BY DEF RlInv, RlTypeOK, HeardAgrees, Known, Shown, SynthesizeLost, ConnectFails, Onward, flags,
       learned
<1>3. PresentIsOpen'
  BY DEF RlInv, RlTypeOK, PresentIsOpen, AnswerFirst, Known, Answers, TopologyFrame, ConnectFails,
       Onward, flags, learned
<1>4. AnswerFirst'
  BY DEF RlInv, RlTypeOK, PresentIsOpen, AnswerFirst, EndsCurrent, TopologyFrame, Answers, Shown,
       ConnectFails, Onward, flags, learned
<1>5. NewestIsCurrent'
  BY DEF RlInv, RlTypeOK, PresentIsOpen, AnswerFirst, NewestIsCurrent, EndsCurrent, TopologyFrame,
       Answers, Shown, ConnectFails, Onward, flags, learned
<1>6. StoppedIsOff'
  BY DEF RlInv, PresentIsOpen, StoppedIsOff, ConnectFails, Onward, flags, learned
<1> QED  BY <1>1, <1>2, <1>3, <1>4, <1>5, <1>6 DEF RlInv

\* DoRegister keeps the invariant.
LEMMA DoRegisterKeeps ==
  ASSUME RlInv, DoRegister
  PROVE  RlInv'
<1>1. RlTypeOK'
  BY DEF RlInv, RlTypeOK, ViewFrames, Known, Standing, Answers, TopologyFrame, Shown,
       SynthesizeLost, DoRegister, flags, learned
<1>2. HeardAgrees'
  BY DEF RlInv, RlTypeOK, HeardAgrees, Known, Shown, SynthesizeLost, DoRegister, flags, learned
<1>3. PresentIsOpen'
  BY DEF RlInv, RlTypeOK, PresentIsOpen, AnswerFirst, Known, Answers, TopologyFrame, DoRegister,
       flags, learned
<1>4. AnswerFirst'
  BY DEF RlInv, RlTypeOK, PresentIsOpen, AnswerFirst, EndsCurrent, TopologyFrame, Answers, Shown,
       DoRegister, flags, learned
<1>5. NewestIsCurrent'
  <2>1. CASE sock' = "open" /\ transport' = "serve"
    <3>1. /\ Head(net).kind = "ack" /\ net' = Tail(net) /\ sock = "open"
          /\ transport = "register" /\ net # <<>> /\ UNCHANGED standing
      BY <2>1 DEF DoRegister
    <3>2. net \in Seq(ViewFrames) /\ Len(net) >= 2 /\ net[Len(net)] = TopologyFrame(standing)
      BY <3>1 DEF RlInv, RlTypeOK, PresentIsOpen, AnswerFirst, EndsCurrent
    <3>3. Len(net') = Len(net) - 1 /\ \A i \in 1..(Len(net) - 1) : net'[i] = net[i + 1]
      BY <3>1, <3>2, TailFacts
    <3>4. Len(net') # 0 /\ net'[Len(net')] = net[Len(net)]
      BY <3>2, <3>3
    <3>5. net' # <<>> /\ net'[Len(net')] = TopologyFrame(standing)
      BY <3>2, <3>4
    <3> QED  BY <3>1, <3>5 DEF NewestIsCurrent, EndsCurrent, TopologyFrame
  <2>2. CASE ~(sock' = "open" /\ transport' = "serve")
    BY <2>2 DEF NewestIsCurrent
  <2> QED  BY <2>1, <2>2
<1>6. StoppedIsOff'
  BY DEF RlInv, PresentIsOpen, StoppedIsOff, DoRegister, flags, learned
<1> QED  BY <1>1, <1>2, <1>3, <1>4, <1>5, <1>6 DEF RlInv

\* Recv keeps the invariant.
LEMMA RecvKeeps ==
  ASSUME RlInv, Recv
  PROVE  RlInv'
<1>1. RlTypeOK'
  BY DEF RlInv, RlTypeOK, ViewFrames, Known, Standing, Answers, TopologyFrame, Shown,
       SynthesizeLost, Recv, flags, learned
<1>2. HeardAgrees'
  BY DEF RlInv, RlTypeOK, HeardAgrees, Known, Shown, SynthesizeLost, Recv, flags, learned
<1>3. PresentIsOpen'
  BY DEF RlInv, RlTypeOK, PresentIsOpen, AnswerFirst, Known, Answers, TopologyFrame, Recv, flags,
       learned
<1>4. AnswerFirst'
  BY DEF RlInv, RlTypeOK, PresentIsOpen, AnswerFirst, EndsCurrent, TopologyFrame, Answers, Shown,
       Recv, flags, learned
<1>5. NewestIsCurrent'
  <2> SUFFICES ASSUME sock = "open"
               PROVE  NewestIsCurrent'
    BY DEF NewestIsCurrent, Recv
  <2>1. /\ net \in Seq(ViewFrames) /\ workq \in Seq(ViewFrames) /\ net # <<>>
        /\ net' = Tail(net) /\ workq' = Append(workq, Head(net)) /\ UNCHANGED standing
    BY DEF RlInv, RlTypeOK, Recv
  <2>2. net[Len(net)] = TopologyFrame(standing)
    BY <2>1 DEF RlInv, NewestIsCurrent, EndsCurrent, Recv
  <2>3. /\ Len(net') = Len(net) - 1 /\ Len(net) \in Nat /\ Head(net) = net[1] /\ net[1] \in ViewFrames
        /\ \A i \in 1..(Len(net) - 1) : net'[i] = net[i + 1]
    BY <2>1, TailFacts
  <2>4. workq'[Len(workq')] = net[1] /\ workq' # <<>>
    BY <2>1, <2>3, AppendFacts
  <2>5. net' = <<>> => Len(net) = 1
    <3> SUFFICES ASSUME net' = <<>>
                 PROVE  Len(net) = 1
      OBVIOUS
    <3>1. Len(net') = 0
      OBVIOUS
    <3> QED  BY <2>3, <3>1
  <2>6. net' # <<>> => net'[Len(net')] = net[Len(net)]
    <3> SUFFICES ASSUME net' # <<>>
                 PROVE  net'[Len(net')] = net[Len(net)]
      OBVIOUS
    <3>1. net' \in Seq(ViewFrames) /\ Len(net') >= 1
      BY <2>1
    <3> QED  BY <2>3, <3>1
  <2>7. EndsCurrent(net)'
    BY <2>1, <2>2, <2>6 DEF EndsCurrent, TopologyFrame
  <2>8. net' = <<>> => EndsCurrent(workq)'
    BY <2>1, <2>2, <2>4, <2>5 DEF EndsCurrent, TopologyFrame
  <2> QED  BY <2>4, <2>7, <2>8 DEF NewestIsCurrent
<1>6. StoppedIsOff'
  BY DEF RlInv, PresentIsOpen, StoppedIsOff, Recv, flags, learned
<1> QED  BY <1>1, <1>2, <1>3, <1>4, <1>5, <1>6 DEF RlInv

\* LostSight keeps the invariant.
LEMMA LostSightKeeps ==
  ASSUME RlInv, LostSight
  PROVE  RlInv'
<1>1. RlTypeOK'
  BY DEF RlInv, RlTypeOK, ViewFrames, Known, Standing, Answers, TopologyFrame, Shown,
       SynthesizeLost, LostSight, AfterLoss, flags, learned
<1>2. HeardAgrees'
  BY DEF RlInv, RlTypeOK, HeardAgrees, Known, Shown, SynthesizeLost, LostSight, AfterLoss, flags,
       learned
<1>3. PresentIsOpen'
  BY DEF RlInv, RlTypeOK, PresentIsOpen, AnswerFirst, Known, Answers, TopologyFrame, LostSight,
       AfterLoss, flags, learned
<1>4. AnswerFirst'
  BY DEF RlInv, RlTypeOK, PresentIsOpen, AnswerFirst, EndsCurrent, TopologyFrame, Answers, Shown,
       LostSight, AfterLoss, flags, learned
<1>5. NewestIsCurrent'
  BY DEF RlInv, RlTypeOK, PresentIsOpen, AnswerFirst, NewestIsCurrent, EndsCurrent, TopologyFrame,
       Answers, Shown, LostSight, AfterLoss, flags, learned
<1>6. StoppedIsOff'
  BY DEF RlInv, PresentIsOpen, StoppedIsOff, LostSight, AfterLoss, flags, learned
<1> QED  BY <1>1, <1>2, <1>3, <1>4, <1>5, <1>6 DEF RlInv

\* Wakes keeps the invariant.
LEMMA WakesKeeps ==
  ASSUME RlInv, Wakes
  PROVE  RlInv'
<1>1. RlTypeOK'
  BY DEF RlInv, RlTypeOK, ViewFrames, Known, Standing, Answers, TopologyFrame, Shown,
       SynthesizeLost, Wakes, flags, learned
<1>2. HeardAgrees'
  BY DEF RlInv, RlTypeOK, HeardAgrees, Known, Shown, SynthesizeLost, Wakes, flags, learned
<1>3. PresentIsOpen'
  BY DEF RlInv, RlTypeOK, PresentIsOpen, AnswerFirst, Known, Answers, TopologyFrame, Wakes, flags,
       learned
<1>4. AnswerFirst'
  BY DEF RlInv, RlTypeOK, PresentIsOpen, AnswerFirst, EndsCurrent, TopologyFrame, Answers, Shown,
       Wakes, flags, learned
<1>5. NewestIsCurrent'
  BY DEF RlInv, RlTypeOK, PresentIsOpen, AnswerFirst, NewestIsCurrent, EndsCurrent, TopologyFrame,
       Answers, Shown, Wakes, flags, learned
<1>6. StoppedIsOff'
  BY DEF RlInv, PresentIsOpen, StoppedIsOff, Wakes, flags, learned
<1> QED  BY <1>1, <1>2, <1>3, <1>4, <1>5, <1>6 DEF RlInv

\* LeaveSocket keeps the invariant.
LEMMA LeaveSocketKeeps ==
  ASSUME RlInv, LeaveSocket
  PROVE  RlInv'
<1>1. RlTypeOK'
  BY DEF RlInv, RlTypeOK, ViewFrames, Known, Standing, Answers, TopologyFrame, Shown,
       SynthesizeLost, LeaveSocket, HasClosed, flags, learned
<1>2. HeardAgrees'
  BY DEF RlInv, RlTypeOK, HeardAgrees, Known, Shown, SynthesizeLost, LeaveSocket, HasClosed, flags,
       learned
<1>3. PresentIsOpen'
  BY DEF RlInv, RlTypeOK, PresentIsOpen, AnswerFirst, Known, Answers, TopologyFrame, LeaveSocket,
       HasClosed, flags, learned
<1>4. AnswerFirst'
  BY DEF RlInv, RlTypeOK, PresentIsOpen, AnswerFirst, EndsCurrent, TopologyFrame, Answers, Shown,
       LeaveSocket, HasClosed, flags, learned
<1>5. NewestIsCurrent'
  BY DEF RlInv, RlTypeOK, PresentIsOpen, AnswerFirst, NewestIsCurrent, EndsCurrent, TopologyFrame,
       Answers, Shown, LeaveSocket, HasClosed, flags, learned
<1>6. StoppedIsOff'
  BY DEF RlInv, PresentIsOpen, StoppedIsOff, LeaveSocket, HasClosed, flags, learned
<1> QED  BY <1>1, <1>2, <1>3, <1>4, <1>5, <1>6 DEF RlInv

\* GracefulClose keeps the invariant.
LEMMA GracefulCloseKeeps ==
  ASSUME RlInv, GracefulClose
  PROVE  RlInv'
<1>1. RlTypeOK'
  <2>1. CASE transport = "serve"
    <3>1. /\ transport' = "end" /\ sock' = "none" /\ net' = <<>> /\ mine' \in {mine, "gone"}
          /\ closeReq' = FALSE
      BY <2>1 DEF GracefulClose, Graceful, HasClosed
    <3>2. mine' \in Standing
      BY <3>1 DEF RlInv, RlTypeOK, Standing
    <3>3. {stopping, terminated, fatal, closeReq, registered, ready, released}' \subseteq BOOLEAN
      BY <3>1 DEF RlInv, RlTypeOK, GracefulClose, learned
    <3>4. UNCHANGED <<caller, tun, workq, topo, heard, standing>>
      BY DEF GracefulClose, learned
    <3>5. net' \in Seq(ViewFrames)
      BY <3>1
    <3> QED  BY <3>1, <3>2, <3>3, <3>4, <3>5 DEF RlInv, RlTypeOK
  <2>2. CASE transport # "serve"
    <3>1. {stopping, terminated, fatal, closeReq, registered, ready, released}' \subseteq BOOLEAN
      BY <2>2 DEF RlInv, RlTypeOK, GracefulClose, Graceful, learned
    <3>2. UNCHANGED <<caller, transport, sock, net, mine, tun, workq, topo, heard, standing>>
      BY <2>2 DEF GracefulClose, Graceful, learned
    <3> QED  BY <3>1, <3>2 DEF RlInv, RlTypeOK
  <2> QED  BY <2>1, <2>2
<1>2. HeardAgrees'
  BY DEF RlInv, RlTypeOK, HeardAgrees, Known, Shown, SynthesizeLost, GracefulClose, Graceful,
       HasClosed, flags, learned
<1>3. PresentIsOpen'
  BY DEF RlInv, RlTypeOK, PresentIsOpen, AnswerFirst, Known, Answers, TopologyFrame, GracefulClose,
       Graceful, HasClosed, flags, learned
<1>4. AnswerFirst'
  BY DEF RlInv, RlTypeOK, PresentIsOpen, AnswerFirst, EndsCurrent, TopologyFrame, Answers, Shown,
       GracefulClose, Graceful, HasClosed, flags, learned
<1>5. NewestIsCurrent'
  BY DEF RlInv, RlTypeOK, PresentIsOpen, AnswerFirst, NewestIsCurrent, EndsCurrent, TopologyFrame,
       Answers, Shown, GracefulClose, Graceful, HasClosed, flags, learned
<1>6. StoppedIsOff'
  BY DEF RlInv, PresentIsOpen, StoppedIsOff, GracefulClose, Graceful, HasClosed, flags, learned
<1> QED  BY <1>1, <1>2, <1>3, <1>4, <1>5, <1>6 DEF RlInv

\* OnFrame keeps the invariant.
LEMMA OnFrameKeeps ==
  ASSUME RlInv, OnFrame
  PROVE  RlInv'
<1>1. RlTypeOK'
  <2>1. workq' \in Seq(ViewFrames) /\ Head(workq) \in ViewFrames
    BY DEF RlInv, RlTypeOK, OnFrame
  <2>2. CASE Head(workq).kind = "topology"
    <3>1. OnTopology(Head(workq).view) /\ Head(workq).view \in [Peers -> Standing]
      BY <2>1, <2>2 DEF OnFrame, ViewFrames
    <3>2. topo' \in [Peers -> Known \cup {"none"}]
      BY <3>1 DEF OnTopology, Shown
    <3>3. heard' \in [Peers -> Known \cup {"none", "lost"}]
      BY <3>1, <3>2 DEF OnTopology, RlInv, RlTypeOK
    <3> QED  BY <2>1, <3>1, <3>2, <3>3 DEF RlInv, RlTypeOK, OnFrame, OnTopology
  <2>3. CASE Head(workq).kind # "topology"
    <3>1. OnControl
      BY <2>3 DEF OnFrame
    <3> QED  BY <2>1, <3>1 DEF RlInv, RlTypeOK, OnFrame, OnControl
  <2> QED  BY <2>2, <2>3
<1>2. HeardAgrees'
  BY DEF RlInv, RlTypeOK, HeardAgrees, Known, Shown, SynthesizeLost, OnFrame, OnTopology,
       OnControl, flags, learned
<1>3. PresentIsOpen'
  BY DEF RlInv, RlTypeOK, PresentIsOpen, AnswerFirst, Known, Answers, TopologyFrame, OnFrame,
       OnTopology, OnControl, flags, learned
<1>4. AnswerFirst'
  BY DEF RlInv, RlTypeOK, PresentIsOpen, AnswerFirst, EndsCurrent, TopologyFrame, Answers, Shown,
       OnFrame, OnTopology, OnControl, flags, learned
<1>5. NewestIsCurrent'
  <2>1. CASE sock = "open" /\ transport = "serve"
    <3>1. /\ workq \in Seq(ViewFrames) /\ workq # <<>> /\ workq' = Tail(workq)
          /\ UNCHANGED <<net, standing, sock, transport>>
      BY DEF RlInv, RlTypeOK, OnFrame
    <3>2. EndsCurrent(net) /\ (net = <<>> => workq[Len(workq)] = TopologyFrame(standing))
      BY <2>1, <3>1 DEF RlInv, NewestIsCurrent, EndsCurrent
    <3>3. net = <<>> => EndsCurrent(workq)'
      BY <3>1, <3>2 DEF EndsCurrent, TopologyFrame
    <3>4. ASSUME net = <<>>, workq' = <<>>
          PROVE  topo' = Shown(standing)
      <4>1. Len(workq) = 1
        <5>1. Len(workq') = Len(workq) - 1 /\ Len(workq) \in Nat
          BY <3>1, TailFacts
        <5>2. Len(workq') = 0
          BY <3>4
        <5> QED  BY <5>1, <5>2
      <4>2. Head(workq) = TopologyFrame(standing)
        BY <3>1, <3>2, <3>4, <4>1
      <4> QED  BY <4>2 DEF TopologyFrame, OnFrame, OnTopology
    <3>5. Shown(standing)' = Shown(standing) /\ EndsCurrent(net)'
      BY <3>1, <3>2 DEF Shown, EndsCurrent, TopologyFrame
    <3> QED  BY <3>1, <3>3, <3>4, <3>5 DEF NewestIsCurrent
  <2>2. CASE ~(sock = "open" /\ transport = "serve")
    BY <2>2 DEF NewestIsCurrent, OnFrame
  <2> QED  BY <2>1, <2>2
<1>6. StoppedIsOff'
  BY DEF RlInv, PresentIsOpen, StoppedIsOff, OnFrame, OnTopology, OnControl, flags, learned
<1> QED  BY <1>1, <1>2, <1>3, <1>4, <1>5, <1>6 DEF RlInv

\* StopCalled keeps the invariant.
LEMMA StopCalledKeeps ==
  ASSUME RlInv, StopCalled
  PROVE  RlInv'
<1>1. RlTypeOK'
  BY DEF RlInv, RlTypeOK, ViewFrames, Known, Standing, Answers, TopologyFrame, Shown,
       SynthesizeLost, StopCalled, flags, learned
<1>2. HeardAgrees'
  BY DEF RlInv, RlTypeOK, HeardAgrees, Known, Shown, SynthesizeLost, StopCalled, flags, learned
<1>3. PresentIsOpen'
  BY DEF RlInv, RlTypeOK, PresentIsOpen, AnswerFirst, Known, Answers, TopologyFrame, StopCalled,
       flags, learned
<1>4. AnswerFirst'
  BY DEF RlInv, RlTypeOK, PresentIsOpen, AnswerFirst, EndsCurrent, TopologyFrame, Answers, Shown,
       StopCalled, flags, learned
<1>5. NewestIsCurrent'
  BY DEF RlInv, RlTypeOK, PresentIsOpen, AnswerFirst, NewestIsCurrent, EndsCurrent, TopologyFrame,
       Answers, Shown, StopCalled, flags, learned
<1>6. StoppedIsOff'
  BY DEF RlInv, PresentIsOpen, StoppedIsOff, StopCalled, flags, learned
<1> QED  BY <1>1, <1>2, <1>3, <1>4, <1>5, <1>6 DEF RlInv

\* StopCancels keeps the invariant.
LEMMA StopCancelsKeeps ==
  ASSUME RlInv, StopCancels
  PROVE  RlInv'
<1>1. RlTypeOK'
  BY DEF RlInv, RlTypeOK, ViewFrames, Known, Standing, Answers, TopologyFrame, Shown,
       SynthesizeLost, StopCancels, flags, learned
<1>2. HeardAgrees'
  BY DEF RlInv, RlTypeOK, HeardAgrees, Known, Shown, SynthesizeLost, StopCancels, flags, learned
<1>3. PresentIsOpen'
  BY DEF RlInv, RlTypeOK, PresentIsOpen, AnswerFirst, Known, Answers, TopologyFrame, StopCancels,
       flags, learned
<1>4. AnswerFirst'
  BY DEF RlInv, RlTypeOK, PresentIsOpen, AnswerFirst, EndsCurrent, TopologyFrame, Answers, Shown,
       StopCancels, flags, learned
<1>5. NewestIsCurrent'
  BY DEF RlInv, RlTypeOK, PresentIsOpen, AnswerFirst, NewestIsCurrent, EndsCurrent, TopologyFrame,
       Answers, Shown, StopCancels, flags, learned
<1>6. StoppedIsOff'
  BY DEF RlInv, PresentIsOpen, StoppedIsOff, StopCancels, flags, learned
<1> QED  BY <1>1, <1>2, <1>3, <1>4, <1>5, <1>6 DEF RlInv

\* Teardown keeps the invariant.
LEMMA TeardownKeeps ==
  ASSUME RlInv, NEW intime \in BOOLEAN, Teardown(intime)
  PROVE  RlInv'
<1>1. RlTypeOK'
  BY DEF RlInv, RlTypeOK, ViewFrames, Known, Standing, Answers, TopologyFrame, Shown,
       SynthesizeLost, Teardown, flags, learned
<1>2. HeardAgrees'
  BY DEF RlInv, RlTypeOK, HeardAgrees, Known, Shown, SynthesizeLost, Teardown, flags, learned
<1>3. PresentIsOpen'
  BY DEF RlInv, RlTypeOK, PresentIsOpen, AnswerFirst, Known, Answers, TopologyFrame, Teardown,
       flags, learned
<1>4. AnswerFirst'
  BY DEF RlInv, RlTypeOK, PresentIsOpen, AnswerFirst, EndsCurrent, TopologyFrame, Answers, Shown,
       Teardown, flags, learned
<1>5. NewestIsCurrent'
  BY DEF RlInv, RlTypeOK, PresentIsOpen, AnswerFirst, NewestIsCurrent, EndsCurrent, TopologyFrame,
       Answers, Shown, Teardown, flags, learned
<1>6. StoppedIsOff'
  BY DEF RlInv, PresentIsOpen, StoppedIsOff, Teardown, flags, learned
<1> QED  BY <1>1, <1>2, <1>3, <1>4, <1>5, <1>6 DEF RlInv

\* StopJoins keeps the invariant.
LEMMA StopJoinsKeeps ==
  ASSUME RlInv, StopJoins
  PROVE  RlInv'
<1>1. RlTypeOK'
  BY DEF RlInv, RlTypeOK, ViewFrames, Known, Standing, Answers, TopologyFrame, Shown,
       SynthesizeLost, StopJoins, JoinTunnel, flags, learned
<1>2. HeardAgrees'
  BY DEF RlInv, RlTypeOK, HeardAgrees, Known, Shown, SynthesizeLost, StopJoins, JoinTunnel, flags,
       learned
<1>3. PresentIsOpen'
  BY DEF RlInv, RlTypeOK, PresentIsOpen, AnswerFirst, Known, Answers, TopologyFrame, StopJoins,
       JoinTunnel, flags, learned
<1>4. AnswerFirst'
  BY DEF RlInv, RlTypeOK, PresentIsOpen, AnswerFirst, EndsCurrent, TopologyFrame, Answers, Shown,
       StopJoins, JoinTunnel, flags, learned
<1>5. NewestIsCurrent'
  BY DEF RlInv, RlTypeOK, PresentIsOpen, AnswerFirst, NewestIsCurrent, EndsCurrent, TopologyFrame,
       Answers, Shown, StopJoins, JoinTunnel, flags, learned
<1>6. StoppedIsOff'
  BY DEF RlInv, PresentIsOpen, StoppedIsOff, StopJoins, JoinTunnel, flags, learned
<1> QED  BY <1>1, <1>2, <1>3, <1>4, <1>5, <1>6 DEF RlInv

\* A step that changes nothing keeps the invariant.
LEMMA RlStutterKeeps ==
  ASSUME RlInv, UNCHANGED rlVars
  PROVE  RlInv'
<1>1. /\ RlTypeOK' = RlTypeOK /\ HeardAgrees' = HeardAgrees
      /\ PresentIsOpen' = PresentIsOpen /\ StoppedIsOff' = StoppedIsOff
  BY Zenon DEF rlVars, flags, learned, RlTypeOK, HeardAgrees, PresentIsOpen, StoppedIsOff
<1>2. AnswerFirst'
  BY DEF rlVars, flags, learned, RlInv, AnswerFirst, EndsCurrent, TopologyFrame
<1>3. NewestIsCurrent'
  BY DEF rlVars, flags, learned, RlInv, NewestIsCurrent, EndsCurrent, TopologyFrame, Shown
<1> QED  BY <1>1, <1>2, <1>3 DEF RlInv

\* Every step of the runtime and of the broker keeps the invariant.
LEMMA RlNextKeeps == RlInv /\ [RlNext]_rlVars => RlInv'
<1> SUFFICES ASSUME RlInv, [RlNext]_rlVars
             PROVE  RlInv'
  OBVIOUS
<1>1. CASE \E tunnel \in BOOLEAN : Start(tunnel)
  BY <1>1, StartKeeps
<1>2. CASE StopCalled \/ UserStep
  <2>1. CASE StopCalled \/ ServeLoop
    BY <2>1, StopCalledKeeps DEF ServeLoop
  <2>2. CASE StartWaited
    BY <2>2, StartWaitedKeeps
  <2>3. CASE StopCancels
    BY <2>3, StopCancelsKeeps
  <2>4. CASE StopJoins
    BY <2>4, StopJoinsKeeps
  <2>5. CASE \E intime \in BOOLEAN : Teardown(intime)
    BY <2>5, TeardownKeeps
  <2> QED  BY <1>2, <2>1, <2>2, <2>3, <2>4, <2>5 DEF UserStep
<1>3. CASE TransportMoves
  <2>1. CASE DoRegister
    BY <2>1, DoRegisterKeeps
  <2>2. CASE Recv
    BY <2>2, RecvKeeps
  <2>3. CASE LostSight
    BY <2>3, LostSightKeeps
  <2>4. CASE Wakes
    BY <2>4, WakesKeeps
  <2>5. CASE LeaveSocket
    BY <2>5, LeaveSocketKeeps
  <2>6. CASE GracefulClose
    BY <2>6, GracefulCloseKeeps
  <2>7. CASE ReachesBroker(<<>>)
    BY <2>7, ConnectKeeps
  <2>8. CASE \E ok \in BOOLEAN : TunnelOpens(ok)
    BY <2>8, TunnelOpensKeeps
  <2> QED  BY <1>3, <2>1, <2>2, <2>3, <2>4, <2>5, <2>6, <2>7, <2>8 DEF TransportMoves
<1>4. CASE OnFrame
  BY <1>4, OnFrameKeeps
<1>5. CASE \E a \in Answers : ReachesBroker(a)
  BY <1>5, ConnectKeeps
<1>6. CASE \E tls \in BOOLEAN : ConnectFails(tls)
  BY <1>6, ConnectFailsKeeps
<1>7. CASE Breaks
  BY <1>7, BreaksKeeps
<1>8. CASE OwnGraceOver
  BY <1>8, OwnGraceOverKeeps
<1>9. CASE Terminates
  BY <1>9, TerminatesKeeps
<1>10. CASE BrokerRestarts
  BY <1>10, BrokerRestartsKeeps
<1>11. CASE \E p \in Peers, to \in Standing : PeerMoves(p, to)
  BY <1>11, PeerMovesKeeps
<1>12. CASE UNCHANGED rlVars
  BY <1>12, RlStutterKeeps
<1> QED  BY <1>1, <1>2, <1>3, <1>4, <1>5, <1>6, <1>7, <1>8, <1>9, <1>10, <1>11, <1>12
         DEF RlNext

\* What a connected runtime tells of its peers is what the broker knows, and
\* nothing of the runtime is left after stop(): for every set of peers
\* (_on_topology, _synthesize_lost, _transport_main, stop).
THEOREM RuntimeIsSound == RlSpec => []RuntimeSound
<1>1. RlInit => RlInv
  <2> SUFFICES ASSUME RlInit
               PROVE  RlInv
    OBVIOUS
  <2>1. RlTypeOK
    <3>1. topo \in [Peers -> Known \cup {"none"}] /\ heard \in [Peers -> Known \cup {"none", "lost"}]
      BY DEF RlInit
    <3>2. standing \in [Peers -> Standing] /\ mine \in Standing
      BY DEF RlInit, Standing
    <3>3. net \in Seq(ViewFrames) /\ workq \in Seq(ViewFrames)
      BY DEF RlInit
    <3>4. {stopping, terminated, fatal, closeReq, registered, ready, released} \subseteq BOOLEAN
      BY DEF RlInit
    <3> QED  BY <3>1, <3>2, <3>3, <3>4 DEF RlInit, RlTypeOK
  <2>2. HeardAgrees
    BY DEF RlInit, HeardAgrees
  <2> QED  BY <2>1, <2>2
           DEF RlInit, RlInv, PresentIsOpen, AnswerFirst, NewestIsCurrent, StoppedIsOff
<1>2. RlInv => RuntimeSound
  <2> SUFFICES ASSUME RlInv
               PROVE  TopologyCurrent
    BY DEF RlInv, RuntimeSound
  <2> QED  BY DEF RlInv, HeardAgrees, NewestIsCurrent, TopologyCurrent
<1> QED  BY <1>1, <1>2, RlNextKeeps, PTL DEF RlSpec

-----------------------------------------------------------------------------
(***************************************************************************)
(* Registration, liveness and topology (Broker).                           *)
(***************************************************************************)

USE NoneAssumption

-----------------------------------------------------------------------------
(* The operators. *)

\* Taking a registered name out of the order leaves exactly the others.
LEMMA OrderWithoutFacts ==
  ASSUME TypeOK, RegistryCoherent, NEW n \in Names, Registered(n)
  PROVE  /\ OrderWithout(n) \in Seq(Names)
         /\ \A i, j \in 1..Len(OrderWithout(n)) :
              OrderWithout(n)[i] = OrderWithout(n)[j] => i = j
         /\ \A m \in Names : (\E i \in 1..Len(OrderWithout(n)) : OrderWithout(n)[i] = m)
                               <=> (m # n /\ Registered(m))
<1> DEFINE p == Position(n)
           w == OrderWithout(n)
<1>1. p \in 1..Len(order) /\ order[p] = n
  <2>1. \E i \in 1..Len(order) : order[i] = n
    BY DEF RegistryCoherent
  <2> QED  BY <2>1 DEF Position
<1>2. order \in Seq(Names) /\ Len(order) \in Nat
  BY DEF TypeOK
<1>3. /\ w \in Seq(Names)
      /\ Len(w) = Len(order) - 1
      /\ \A j \in 1..(Len(order) - 1) : w[j] = IF j < p THEN order[j] ELSE order[j + 1]
  BY <1>1, <1>2, RemoveAtFacts DEF OrderWithout
<1>4. \A i, j \in 1..Len(order) : order[i] = order[j] => i = j
  BY DEF RegistryCoherent
<1>5. \A m \in Names : Registered(m) <=> \E i \in 1..Len(order) : order[i] = m
  BY DEF RegistryCoherent
<1> HIDE DEF p, w
<1>6. \A i, j \in 1..Len(w) : w[i] = w[j] => i = j
  <2> SUFFICES ASSUME NEW i \in 1..Len(w), NEW j \in 1..Len(w), w[i] = w[j]
               PROVE  i = j
    OBVIOUS
  <2>1. i \in 1..(Len(order) - 1) /\ j \in 1..(Len(order) - 1)
    BY <1>3
  <2> DEFINE a == IF i < p THEN i ELSE i + 1
             b == IF j < p THEN j ELSE j + 1
  <2>2. a \in 1..Len(order) /\ b \in 1..Len(order) /\ (a = b => i = j)
    BY <1>1, <1>2, <2>1
  <2>3. w[i] = order[a] /\ w[j] = order[b]
    BY <1>3, <2>1
  <2> QED  BY <1>4, <2>2, <2>3
<1>7. ASSUME NEW m \in Names
      PROVE  (\E i \in 1..Len(w) : w[i] = m) <=> (m # n /\ Registered(m))
  <2>1. ASSUME NEW i \in 1..Len(w), w[i] = m
        PROVE  m # n /\ Registered(m)
    <3> DEFINE a == IF i < p THEN i ELSE i + 1
    <3>1. a \in 1..Len(order) /\ a # p /\ order[a] = m
      BY <1>1, <1>2, <1>3, <2>1
    <3> QED  BY <1>1, <1>4, <1>5, <3>1
  <2>2. ASSUME m # n, Registered(m)
        PROVE  \E i \in 1..Len(w) : w[i] = m
    <3>1. PICK a \in 1..Len(order) : order[a] = m
      BY <1>5, <2>2
    <3>2. a # p
      BY <1>1, <2>2, <3>1
    <3> DEFINE i == IF a < p THEN a ELSE a - 1
    <3>3. i \in 1..Len(w) /\ w[i] = m
      BY <1>1, <1>2, <1>3, <3>1, <3>2
    <3> QED  BY <3>3
  <2> QED  BY <2>1, <2>2
<1> QED  BY <1>3, <1>6, <1>7 DEF w

\* A broadcast to registered names is a coroutine over their sockets.
LEMMA BroadcastType ==
  ASSUME NEW pc \in Pcs, NEW n \in Names \cup {None}, NEW s \in Sockets \cup {None},
         NEW via \in Sockets \cup {None},
         NEW at \in [Names -> Sockets \cup {None}], NEW ord \in Seq(Names),
         NEW f \in Frames,
         \A i \in 1..Len(ord) : at[ord[i]] # None
  PROVE  Broadcast(pc, n, s, via, at, ord, f) \in Coroutine
<1>1. [i \in 1..Len(ord) |-> at[ord[i]]] \in Seq(Sockets)
  <2>1. \A i \in 1..Len(ord) : at[ord[i]] \in Sockets
    OBVIOUS
  <2> QED  BY <2>1
<1> QED  BY <1>1 DEF Broadcast, Coroutine

\* So is a single send.
LEMMA SendOneType ==
  ASSUME NEW pc \in Pcs, NEW n \in Names \cup {None}, NEW s \in Sockets \cup {None},
         NEW via \in Sockets \cup {None}, NEW to \in Sockets
  PROVE  SendOne(pc, n, s, via, to) \in Coroutine
BY DEF SendOne, Coroutine

\* The current tables can always be broadcast.
LEMMA CurrentBroadcastType ==
  ASSUME TypeOK, RegistryCoherent, NEW pc \in Pcs, NEW n \in Names \cup {None},
         NEW s \in Sockets \cup {None}, NEW via \in Sockets \cup {None},
         NEW f \in Frames
  PROVE  Broadcast(pc, n, s, via, registry, order, f) \in Coroutine
<1>1. \A i \in 1..Len(order) : order[i] \in Names /\ registry[order[i]] # None
  BY DEF TypeOK, RegistryCoherent, Registered
<1> QED  BY <1>1, BroadcastType DEF TypeOK

-----------------------------------------------------------------------------
(* One lemma per action. *)

\* The type of each table, one fact per variable.
LEMMA Types ==
  ASSUME TypeOK
  PROVE  /\ registry \in [Names -> Sockets \cup {None}]
         /\ order \in Seq(Names)
         /\ liveness \in [Names -> Liveness]
         /\ grace \in [Names -> Sockets \cup {None}]
         /\ lost \subseteq Names \X Sockets
         /\ link \in [Sockets -> {"unused", "up", "dropped", "clean"}]
         /\ handler \in [Sockets -> {"none", "await", "loop", "done"}]
         /\ owner \in [Sockets -> Names \cup {None}]
         /\ stalled \subseteq Sockets /\ closing \subseteq Sockets
BY DEF TypeOK, Frames

\* Registration: fresh, or a resume that replaces the socket.
LEMMA RegisterStep ==
  ASSUME IndInv, NEW n \in Names, NEW s \in Sockets, Register(n, s) \/ Resume(n, s)
  PROVE  IndInv'
<1> USE DEF Registered
<1>0. TypeOK /\ RegistryCoherent /\ LivenessTellsTheSocket /\ OneAwait /\ HandlersKnown
      /\ TimersAreLate /\ RegisteredOpened /\ HostLagsBehind
  BY DEF IndInv
<1>1. /\ run = None /\ link[s] = "unused"
      /\ registry' = [registry EXCEPT ![n] = s]
      /\ liveness' = [liveness EXCEPT ![n] = "present"]
      /\ link'     = [link EXCEPT ![s] = "up"]
      /\ handler'  = [handler EXCEPT ![s] = "await"]
      /\ owner'    = [owner EXCEPT ![s] = n]
      /\ run'      = SendOne("ack", n, s, s, s)
      /\ UNCHANGED <<lost, stalled, waiting, view, host>>
      /\ \/ registry[n] = None /\ order' = Append(order, n) /\ UNCHANGED <<grace, closing>>
         \/ registry[n] # None /\ order' = order /\ grace' = [grace EXCEPT ![n] = None]
            /\ closing' = closing \cup {registry[n]}
  BY DEF Register, Resume, Accept, LoopFree
<1>2. handler[s] = "none" /\ \A m \in Names : registry[m] # s /\ grace[m] # s
  BY <1>0, <1>1, Types DEF HandlersKnown, RegisteredOpened, TimersAreLate
<1>3. run' \in Coroutine /\ run' # None
  BY <1>1, SendOneType, IdleAssumption DEF Pcs
<1>4. TypeOK'
  <2>1. liveness' \in Frames
    BY <1>0, <1>1, Types DEF Frames, Liveness
  <2>2. /\ registry' \in [Names -> Sockets \cup {None}]
        /\ grace' \in [Names -> Sockets \cup {None}]
        /\ closing' \subseteq Sockets
    <3>1. registry[n] \in Sockets \cup {None}
      BY <1>0, Types
    <3> QED  BY <1>0, <1>1, <3>1, Types
  <2>4. order' \in Seq(Names)
    BY <1>0, <1>1, Types, SMTT(30)
  <2>3. /\ link' \in [Sockets -> {"unused", "up", "dropped", "clean"}]
        /\ handler' \in [Sockets -> {"none", "await", "loop", "done"}]
        /\ owner' \in [Sockets -> Names \cup {None}]
    BY <1>0, <1>1, Types
  <2> QED  BY <1>0, <1>1, <1>3, <2>1, <2>2, <2>3, <2>4 DEF TypeOK
<1>5. RegistryCoherent'
  <2>1. ASSUME NEW m \in Names
        PROVE  /\ registry'[m] # None <=> liveness'[m] # "none"
               /\ registry'[m] # None => owner'[registry'[m]] = m
    <3>1. CASE m = n
      BY <1>0, <1>1, <3>1, Types
    <3>2. CASE m # n
      BY <1>0, <1>1, <1>2, <3>2, Types DEF RegistryCoherent
    <3> QED  BY <3>1, <3>2
  <2>2. CASE registry[n] = None
    <3>1. Len(order) \in Nat /\ order \in Seq(Names)
      BY <1>0, Types
    <3>2. order' = Append(order, n) /\ Len(order') = Len(order) + 1
      BY <1>1, <2>2, <3>1
    <3>3. \A i \in 1..Len(order') : order'[i] = IF i = Len(order) + 1 THEN n ELSE order[i]
      BY <3>1, <3>2
    <3>4. \A i \in 1..Len(order) : order[i] # n
      BY <1>0, <2>2 DEF RegistryCoherent
    <3>5. \A m \in Names : (\E i \in 1..Len(order') : order'[i] = m)
                             <=> (m = n \/ \E i \in 1..Len(order) : order[i] = m)
      BY <3>1, <3>2, <3>3
    <3>6. \A m \in Names : registry'[m] # None <=> \E i \in 1..Len(order') : order'[i] = m
      BY <1>0, <1>1, <3>5, Types DEF RegistryCoherent
    <3>7. \A i, j \in 1..Len(order') : order'[i] = order'[j] => i = j
      BY <1>0, <3>1, <3>2, <3>3, <3>4 DEF RegistryCoherent
    <3> QED  BY <2>1, <3>6, <3>7 DEF RegistryCoherent
  <2>3. CASE registry[n] # None
    <3>1. \A m \in Names : registry'[m] # None <=> registry[m] # None
      BY <1>0, <1>1, <2>3, Types
    <3> QED  BY <1>0, <1>1, <2>1, <2>3, <3>1 DEF RegistryCoherent
  <2> QED  BY <2>2, <2>3
<1>6. LivenessTellsTheSocket'
  <2> SUFFICES ASSUME NEW m \in Names, registry'[m] # None
               PROVE  /\ liveness'[m] = "suspect" <=> handler'[registry'[m]] = "done"
                      /\ liveness'[m] = "suspect" => link'[registry'[m]] = "dropped"
    BY DEF LivenessTellsTheSocket
  <2>1. CASE m = n
    BY <1>0, <1>1, <2>1, Types
  <2>2. CASE m # n
    BY <1>0, <1>1, <1>2, <2>2, Types DEF LivenessTellsTheSocket
  <2> QED  BY <2>1, <2>2
<1>7. OneAwait'
  <2>1. WellPlaced(run)'
    BY <1>0, <1>1, Types DEF SendOne, WellPlaced
  <2>2. ASSUME NEW i \in 1..Len(waiting)
        PROVE  WellPlaced(waiting[i])' /\ waiting[i].rest # <<>> /\ run'.via # waiting[i].via
    <3>1. waiting[i] \in Coroutine
      BY <1>0 DEF TypeOK
    <3> QED  BY <1>0, <1>1, <1>2, <3>1, Types DEF OneAwait, WellPlaced, SendOne, Coroutine
  <2> QED  BY <1>0, <1>1, <2>1, <2>2 DEF OneAwait
<1>8. HandlersKnown' /\ RegisteredOpened'
  BY <1>0, <1>1, <1>2, Types DEF HandlersKnown, RegisteredOpened
<1>9. TimersAreLate'
  <2>1. \A m \in Names : grace'[m] = grace[m] \/ grace'[m] = None
    BY <1>0, <1>1, Types
  <2> QED  BY <1>0, <1>1, <1>2, <2>1, Types DEF TimersAreLate
<1>10. HostLagsBehind'
  BY <1>1, <1>3 DEF HostLagsBehind, SendOne
<1> QED  BY <1>4, <1>5, <1>6, <1>7, <1>8, <1>9, <1>10 DEF IndInv

\* The transport touches links and write buffers only.
LEMMA TransportStep ==
  ASSUME IndInv, Transport
  PROVE  IndInv'
<1> USE DEF IndInv, Registered
<1>1. PICK s \in Sockets : \/ PeerDrops(s) \/ PeerCloses(s) \/ Closed(s)
                           \/ Stall(s) \/ Drain(s)
  BY DEF Transport
<1>2. /\ UNCHANGED <<partVars, lost, handler, owner, loopVars, host>>
      /\ \/ link' = link
         \/ link[s] = "up" /\ (link' = [link EXCEPT ![s] = "dropped"]
                               \/ link' = [link EXCEPT ![s] = "clean"])
      /\ stalled' \subseteq stalled \cup {s} /\ closing' = closing
      /\ view' = view \/ view' = [view EXCEPT ![s] = None]
  BY <1>1 DEF PeerDrops, PeerCloses, Closed, Stall, Drain, Down
<1>3. UNCHANGED <<registry, order, liveness, grace, lost, handler, owner, run, waiting, host>>
  BY <1>2 DEF partVars, loopVars
<1>4. TypeOK'
  <2>1. /\ link' \in [Sockets -> {"unused", "up", "dropped", "clean"}]
        /\ stalled' \subseteq Sockets /\ closing' \subseteq Sockets
    BY <1>2 DEF TypeOK
  <2>2. view' \in [Sockets -> Frames \cup {None}]
    BY <1>2 DEF TypeOK
  <2> QED  BY <1>3, <2>1, <2>2 DEF TypeOK
<1>5. RegistryCoherent' /\ TimersAreLate' /\ RegisteredOpened' /\ HostLagsBehind'
  BY <1>3 DEF RegistryCoherent, TimersAreLate, RegisteredOpened, HostLagsBehind, HostMatches
<1>6. LivenessTellsTheSocket'
  BY <1>2, <1>3 DEF LivenessTellsTheSocket, TypeOK
<1>7. OneAwait'
  BY <1>3 DEF OneAwait, WellPlaced
<1>8. HandlersKnown'
  BY <1>2, <1>3 DEF HandlersKnown, TypeOK
<1> QED  BY <1>4, <1>5, <1>6, <1>7, <1>8

\* _remove_participant followed by sends: what every removal has in common.
LEMMA RemovalStep ==
  ASSUME IndInv, NEW n \in Names, Registered(n), RemoveParticipant(n), run = None,
         run' \in Coroutine, run'.pc # "terminate", WellPlaced(run)',
         \A i \in 1..Len(waiting) : run'.via # None => run'.via # waiting[i].via,
         UNCHANGED <<link, owner, stalled, closing, waiting, view, host>>,
         lost' \subseteq lost, handler' \in [Sockets -> {"none", "await", "loop", "done"}],
         \A s \in Sockets : handler[s] \in {"none", "done", "await"} => handler'[s] = handler[s],
         \A s \in Sockets : handler[s] = "loop" => handler'[s] # "none",
         \A m \in Names : (m # n /\ Registered(m)) =>
           (handler'[registry[m]] = "done" <=> handler[registry[m]] = "done")
  PROVE  IndInv'
<1> USE DEF Registered
<1>0. TypeOK /\ RegistryCoherent /\ LivenessTellsTheSocket /\ OneAwait /\ HandlersKnown
      /\ TimersAreLate /\ RegisteredOpened
  BY DEF IndInv
<1>1. /\ registry' = [registry EXCEPT ![n] = None]
      /\ order'    = OrderWithout(n)
      /\ liveness' = [liveness EXCEPT ![n] = "none"]
      /\ grace'    = [grace EXCEPT ![n] = None]
  BY DEF RemoveParticipant
<1>2. run' # None
  BY IdleAssumption
<1>3. TypeOK'
  <2>1. liveness' \in Frames /\ registry' \in [Names -> Sockets \cup {None}]
    BY <1>0, <1>1, Types DEF Frames, Liveness
  <2>2. order' \in Seq(Names)
    BY <1>0, <1>1, OrderWithoutFacts
  <2>3. grace' \in [Names -> Sockets \cup {None}] /\ lost' \subseteq Names \X Sockets
    BY <1>0, <1>1, Types
  <2> QED  BY <1>0, <2>1, <2>2, <2>3 DEF TypeOK
<1>4. RegistryCoherent'
  <2>1. \A i, j \in 1..Len(order') : order'[i] = order'[j] => i = j
    BY <1>0, <1>1, OrderWithoutFacts
  <2>2. ASSUME NEW m \in Names
        PROVE  /\ registry'[m] # None <=> liveness'[m] # "none"
               /\ registry'[m] # None => owner'[registry'[m]] = m
    BY <1>0, <1>1, Types DEF RegistryCoherent
  <2>3. \A m \in Names : registry'[m] # None <=> \E i \in 1..Len(order') : order'[i] = m
    <3>1. \A m \in Names : registry'[m] # None <=> (m # n /\ registry[m] # None)
      BY <1>0, <1>1, Types
    <3> QED  BY <1>0, <1>1, <3>1, OrderWithoutFacts
  <2> QED  BY <2>1, <2>2, <2>3 DEF RegistryCoherent
<1>5. LivenessTellsTheSocket' /\ RegisteredOpened'
  <2> SUFFICES ASSUME NEW m \in Names, registry'[m] # None
               PROVE  /\ liveness'[m] = "suspect" <=> handler'[registry'[m]] = "done"
                      /\ liveness'[m] = "suspect" => link'[registry'[m]] = "dropped"
                      /\ handler'[registry'[m]] # "none"
    BY DEF LivenessTellsTheSocket, RegisteredOpened
  <2>1. m # n /\ registry'[m] = registry[m] /\ registry[m] \in Sockets
        /\ liveness'[m] = liveness[m]
    BY <1>0, <1>1, Types
  <2>2. handler[registry[m]] # "none" /\ handler[registry[m]] \in {"none", "await", "loop", "done"}
    BY <1>0, <2>1, Types DEF RegisteredOpened
  <2> QED  BY <1>0, <2>1, <2>2 DEF LivenessTellsTheSocket
<1>6. OneAwait'
  <2>1. ASSUME NEW i \in 1..Len(waiting)
        PROVE  WellPlaced(waiting[i])'
    <3>1. waiting[i] \in Coroutine /\ WellPlaced(waiting[i])
      BY <1>0 DEF TypeOK, OneAwait
    <3> QED  BY <3>1 DEF WellPlaced, Coroutine
  <2> QED  BY <1>0, <1>2, <2>1 DEF OneAwait
<1>7. HandlersKnown'
  BY <1>0, Types DEF HandlersKnown
<1>8. TimersAreLate'
  <2>1. \A m \in Names : grace'[m] = grace[m] \/ grace'[m] = None
    BY <1>0, <1>1, Types
  <2> QED  BY <1>0, <2>1, Types DEF TimersAreLate
<1>9. HostLagsBehind'
  BY <1>2 DEF HostLagsBehind
<1> QED  BY <1>3, <1>4, <1>5, <1>6, <1>7, <1>8, <1>9 DEF IndInv

\* The broadcast that follows a removal goes to the sockets that are left.
LEMMA RemovalBroadcastType ==
  ASSUME TypeOK, RegistryCoherent, NEW n \in Names, Registered(n), RemoveParticipant(n),
         NEW pc \in Pcs, NEW s \in Sockets \cup {None}, NEW via \in Sockets \cup {None}
  PROVE  Broadcast(pc, n, s, via, registry', order', liveness') \in Coroutine
<1>1. /\ registry' = [registry EXCEPT ![n] = None]
      /\ order' = OrderWithout(n)
      /\ liveness' = [liveness EXCEPT ![n] = "none"]
  BY DEF RemoveParticipant
<1>2. liveness' \in Frames /\ registry' \in [Names -> Sockets \cup {None}]
  BY <1>1, Types DEF Frames, Liveness
<1>3. order' \in Seq(Names)
  BY <1>1, OrderWithoutFacts
<1>4. \A i \in 1..Len(order') : registry'[order'[i]] # None
  <2> SUFFICES ASSUME NEW i \in 1..Len(order')
               PROVE  registry'[order'[i]] # None
    OBVIOUS
  <2>1. order'[i] \in Names
    BY <1>3
  <2>2. order'[i] # n /\ Registered(order'[i])
    BY <1>1, <2>1, OrderWithoutFacts
  <2> QED  BY <1>1, <2>1, <2>2, Types DEF Registered
<1> QED  BY <1>2, <1>3, <1>4, BroadcastType

\* The end of a connection.
LEMMA SocketDropStep ==
  ASSUME IndInv, NEW s \in Sockets, SocketDrop(s)
  PROVE  IndInv'
<1> DEFINE n == owner[s]
<1> USE DEF Registered
<1>0. TypeOK /\ RegistryCoherent /\ LivenessTellsTheSocket /\ OneAwait /\ HandlersKnown
      /\ TimersAreLate /\ RegisteredOpened /\ HostLagsBehind
  BY DEF IndInv
<1>1. /\ run = None /\ handler[s] = "loop" /\ link[s] \in {"dropped", "clean"}
      /\ handler' = [handler EXCEPT ![s] = "done"]
      /\ UNCHANGED <<lost, link, owner, stalled, closing, waiting, view, host>>
  BY DEF SocketDrop, LoopFree
<1>2. n \in Names
  BY <1>0, <1>1 DEF HandlersKnown
<1>3. handler' \in [Sockets -> {"none", "await", "loop", "done"}]
  BY <1>0, <1>1, Types
<1>4. \A m \in Names : (m # n /\ registry[m] # None) => registry[m] # s
  BY <1>0, <1>1, Types DEF RegistryCoherent
<1>5. \A i \in 1..Len(waiting) : WellPlaced(waiting[i])'
  <2> SUFFICES ASSUME NEW i \in 1..Len(waiting)
               PROVE  WellPlaced(waiting[i])'
    OBVIOUS
  <2>1. waiting[i] \in Coroutine
    BY <1>0 DEF TypeOK
  <2>2. WellPlaced(waiting[i])
    BY <1>0 DEF OneAwait
  <2> QED  BY <1>0, <1>1, <2>1, <2>2, Types DEF WellPlaced, Coroutine
<1>6. (HandlersKnown' /\ RegisteredOpened') \/ registry' # registry
  BY <1>0, <1>1, Types DEF HandlersKnown, RegisteredOpened
<1>7. CASE registry[n] # s
  <2>1. UNCHANGED <<registry, order, liveness, grace, run>>
    BY <1>7 DEF SocketDrop, IsCurrent, partVars
  <2>2. TypeOK'
    BY <1>0, <1>1, <1>3, <2>1 DEF TypeOK
  <2>3. RegistryCoherent' /\ HostLagsBehind'
    BY <1>0, <1>1, <2>1 DEF RegistryCoherent, HostLagsBehind, HostMatches
  <2>4. LivenessTellsTheSocket'
    BY <1>0, <1>1, <1>2, <1>4, <1>7, <2>1, Types DEF LivenessTellsTheSocket
  <2>5. OneAwait'
    BY <1>0, <1>1, <1>5, <2>1 DEF OneAwait
  <2>6. TimersAreLate'
    BY <1>0, <1>1, <2>1, Types DEF TimersAreLate
  <2> QED  BY <1>6, <2>1, <2>2, <2>3, <2>4, <2>5, <2>6 DEF IndInv
<1>8. CASE registry[n] = s /\ link[s] = "clean"
  <2>1. /\ RemoveParticipant(n)
        /\ run' = Broadcast("clean", n, s, None, registry', order', liveness')
    BY <1>8 DEF SocketDrop, IsCurrent, RemoveAndBroadcast
  <2>2. run' \in Coroutine
    BY <1>0, <1>2, <1>8, <2>1, RemovalBroadcastType DEF Pcs
  <2>3. run'.via = None /\ run'.pc = "clean" /\ WellPlaced(run)'
    BY <2>1 DEF Broadcast, WellPlaced
  <2>4. \A m \in Names : (m # n /\ registry[m] # None) =>
          (handler'[registry[m]] = "done" <=> handler[registry[m]] = "done")
    BY <1>0, <1>1, <1>4, Types
  <2>5. /\ \A q \in Sockets : handler[q] \in {"none", "done", "await"} => handler'[q] = handler[q]
        /\ \A q \in Sockets : handler[q] = "loop" => handler'[q] # "none"
    BY <1>0, <1>1, Types
  <2> QED  BY <1>1, <1>2, <1>3, <1>8, <2>1, <2>2, <2>3, <2>4, <2>5, RemovalStep
<1>9. CASE registry[n] = s /\ link[s] = "dropped"
  <2>1. /\ liveness' = [liveness EXCEPT ![n] = "suspect"]
        /\ run' = Broadcast("suspect", n, s, None, registry, order, liveness')
        /\ UNCHANGED <<registry, order, grace>>
    BY <1>9 DEF SocketDrop, IsCurrent, DropSuspect
  <2>2. liveness' \in Frames
    BY <1>0, <1>2, <2>1, Types DEF Frames, Liveness
  <2>3. run' \in Coroutine /\ run' # None
    BY <1>0, <1>2, <2>1, <2>2, CurrentBroadcastType, IdleAssumption DEF Pcs
  <2>4. run'.via = None /\ run'.pc = "suspect" /\ WellPlaced(run)'
    BY <1>0, <1>1, <2>1, Types DEF Broadcast, WellPlaced
  <2>5. TypeOK'
    BY <1>0, <1>1, <1>3, <2>1, <2>2, <2>3 DEF TypeOK
  <2>6. RegistryCoherent'
    BY <1>0, <1>1, <1>2, <1>9, <2>1, Types DEF RegistryCoherent
  <2>7. LivenessTellsTheSocket'
    <3> SUFFICES ASSUME NEW m \in Names, registry[m] # None
                 PROVE  /\ liveness'[m] = "suspect" <=> handler'[registry[m]] = "done"
                        /\ liveness'[m] = "suspect" => link[registry[m]] = "dropped"
      BY <1>1, <2>1 DEF LivenessTellsTheSocket
    <3>1. CASE m = n
      BY <1>0, <1>1, <1>9, <2>1, <3>1, Types
    <3>2. CASE m # n
      BY <1>0, <1>1, <1>4, <2>1, <3>2, Types DEF LivenessTellsTheSocket
    <3> QED  BY <3>1, <3>2
  <2>8. OneAwait'
    BY <1>0, <1>1, <1>5, <2>4 DEF OneAwait
  <2>9. TimersAreLate'
    BY <1>0, <1>1, <2>1, Types DEF TimersAreLate
  <2>10. HostLagsBehind'
    BY <2>3, <2>4 DEF HostLagsBehind
  <2> QED  BY <1>6, <2>1, <2>5, <2>6, <2>7, <2>8, <2>9, <2>10 DEF IndInv
<1> QED  BY <1>1, <1>7, <1>8, <1>9

\* The grace timer spawns a task for the socket it was armed for.
LEMMA FireLostStep ==
  ASSUME IndInv, NEW n \in Names, FireLost(n)
  PROVE  IndInv'
<1> USE DEF Registered
<1>0. TypeOK /\ RegistryCoherent /\ LivenessTellsTheSocket /\ OneAwait /\ HandlersKnown
      /\ TimersAreLate /\ RegisteredOpened /\ HostLagsBehind
  BY DEF IndInv
<1>1. /\ grace[n] # None /\ lost' = lost \cup {<<n, grace[n]>>}
      /\ grace' = [grace EXCEPT ![n] = None]
      /\ UNCHANGED <<registry, order, liveness, link, handler, owner, stalled, closing,
                     run, waiting, view, host>>
  BY DEF FireLost, sockVars, loopVars
<1>2. grace[n] \in Sockets /\ handler[grace[n]] = "done"
  BY <1>0, <1>1, Types DEF TimersAreLate
<1>3. TypeOK'
  <2>1. lost' \subseteq Names \X Sockets
    BY <1>0, <1>1, <1>2, Types
  <2>2. grace' \in [Names -> Sockets \cup {None}]
    BY <1>0, <1>1, Types
  <2> QED  BY <1>0, <1>1, <2>1, <2>2 DEF TypeOK
<1>4. TimersAreLate'
  <2>1. \A m \in Names : grace'[m] = grace[m] \/ grace'[m] = None
    BY <1>0, <1>1, Types
  <2>2. \A m \in Names, s \in Sockets : <<m, s>> \in lost' => (<<m, s>> \in lost \/ s = grace[n])
    BY <1>1
  <2> QED  BY <1>0, <1>1, <1>2, <2>1, <2>2 DEF TimersAreLate
<1>5. RegistryCoherent' /\ LivenessTellsTheSocket' /\ OneAwait' /\ HandlersKnown'
      /\ RegisteredOpened' /\ HostLagsBehind'
  BY <1>0, <1>1 DEF RegistryCoherent, LivenessTellsTheSocket, OneAwait, WellPlaced,
     HandlersKnown, RegisteredOpened, HostLagsBehind, HostMatches
<1> QED  BY <1>3, <1>4, <1>5 DEF IndInv

\* _on_lost, stale or not.
LEMMA OnLostStep ==
  ASSUME IndInv, NEW n \in Names, NEW s \in Sockets, OnLost(n, s)
  PROVE  IndInv'
<1> USE DEF Registered
<1>0. TypeOK /\ RegistryCoherent /\ LivenessTellsTheSocket /\ OneAwait /\ HandlersKnown
      /\ TimersAreLate /\ RegisteredOpened /\ HostLagsBehind
  BY DEF IndInv
<1>1. /\ run = None /\ lost' \subseteq lost
      /\ UNCHANGED <<link, handler, owner, stalled, closing, waiting, view, host>>
  BY DEF OnLost, LoopFree, sockVars
<1>2. CASE registry[n] # s
  <2>1. UNCHANGED <<registry, order, liveness, grace, run>>
    BY <1>2 DEF OnLost, IsCurrent, partVars
  <2>2. TypeOK'
    BY <1>0, <1>1, <2>1 DEF TypeOK
  <2>3. TimersAreLate'
    BY <1>0, <1>1, <2>1 DEF TimersAreLate
  <2>4. RegistryCoherent' /\ LivenessTellsTheSocket' /\ OneAwait' /\ HandlersKnown'
        /\ RegisteredOpened' /\ HostLagsBehind'
    BY <1>0, <1>1, <2>1 DEF RegistryCoherent, LivenessTellsTheSocket, OneAwait, WellPlaced,
       HandlersKnown, RegisteredOpened, HostLagsBehind, HostMatches
  <2> QED  BY <2>2, <2>3, <2>4 DEF IndInv
<1>3. CASE registry[n] = s
  <2>1. RemoveParticipant(n)
    BY <1>3 DEF OnLost, IsCurrent
  <2>2. \/ run' = Broadcast("lost", n, s, None, registry', order', liveness')
        \/ \E m \in Names \ {n} :
             registry[m] # None /\ run' = SendOne("failing", n, s, None, registry[m])
    BY <1>3 DEF OnLost, IsCurrent
  <2>3. run' \in Coroutine /\ run'.via = None /\ run'.pc \in {"lost", "failing"}
    <3>1. CASE run' = Broadcast("lost", n, s, None, registry', order', liveness')
      <4>1. run' \in Coroutine
        BY <1>0, <1>3, <2>1, <3>1, RemovalBroadcastType DEF Pcs
      <4> QED  BY <3>1, <4>1 DEF Broadcast
    <3>2. CASE \E m \in Names \ {n} :
                 registry[m] # None /\ run' = SendOne("failing", n, s, None, registry[m])
      <4>1. PICK m \in Names \ {n} :
              registry[m] # None /\ run' = SendOne("failing", n, s, None, registry[m])
        BY <3>2
      <4>2. registry[m] \in Sockets
        BY <1>0, <4>1, Types
      <4>3. run' \in Coroutine
        BY <4>1, <4>2, SendOneType DEF Pcs
      <4> QED  BY <4>1, <4>3 DEF SendOne
    <3> QED  BY <2>2, <3>1, <3>2
  <2>4. WellPlaced(run)'
    BY <2>3 DEF WellPlaced
  <2>5. handler' \in [Sockets -> {"none", "await", "loop", "done"}]
    BY <1>0, <1>1, Types
  <2> QED  BY <1>1, <1>3, <2>1, <2>3, <2>4, <2>5, RemovalStep
<1> QED  BY <1>2, <1>3

\* An operator's disconnect.
LEMMA DisconnectStep ==
  ASSUME IndInv, NEW n \in Names, NEW via \in Sockets \cup {None}, Disconnect(n, via)
  PROVE  IndInv'
<1> USE DEF Registered
<1>0. TypeOK /\ RegistryCoherent /\ OneAwait
  BY DEF IndInv
<1>1. /\ run = None /\ registry[n] # None
      /\ via # None => handler[via] = "loop"
      /\ RemoveParticipant(n)
      /\ run' = Broadcast("disconnect", n, registry[n], via, registry', order', liveness')
      /\ handler' = IF via = None THEN handler ELSE [handler EXCEPT ![via] = "await"]
      /\ UNCHANGED <<lost, link, owner, stalled, closing, waiting, view, host>>
  BY DEF Disconnect, LoopFree, RemoveAndBroadcast
<1>2. registry[n] \in Sockets
  BY <1>0, <1>1, Types
<1>3. run' \in Coroutine
  BY <1>0, <1>1, <1>2, RemovalBroadcastType DEF Pcs
<1>4. run'.pc = "disconnect" /\ run'.via = via /\ run'.ws = registry[n]
  BY <1>1 DEF Broadcast
<1>5. WellPlaced(run)'
  BY <1>0, <1>1, <1>2, <1>4, Types DEF WellPlaced
<1>6. \A i \in 1..Len(waiting) : via # None => via # waiting[i].via
  BY <1>0, <1>1 DEF OneAwait, WellPlaced
<1>7. handler' \in [Sockets -> {"none", "await", "loop", "done"}]
  BY <1>0, <1>1, Types
<1>8. /\ \A q \in Sockets : handler[q] \in {"none", "done", "await"} => handler'[q] = handler[q]
      /\ \A q \in Sockets : handler[q] = "loop" => handler'[q] # "none"
      /\ \A m \in Names : (m # n /\ registry[m] # None) =>
           (handler'[registry[m]] = "done" <=> handler[registry[m]] = "done")
  BY <1>0, <1>1, Types
<1> QED  BY <1>1, <1>3, <1>4, <1>5, <1>6, <1>7, <1>8, RemovalStep

\* Steps of the loop that leave the participants' tables and sockets alone.
LEMMA SameTables ==
  ASSUME IndInv, UNCHANGED <<registry, order, liveness, grace, lost, link, handler, owner>>
  PROVE  /\ RegistryCoherent' /\ LivenessTellsTheSocket' /\ HandlersKnown'
         /\ TimersAreLate' /\ RegisteredOpened'
BY DEF IndInv, Registered, RegistryCoherent, LivenessTellsTheSocket, HandlersKnown,
       TimersAreLate, RegisteredOpened

\* A rebroadcast asked for by the host.
LEMMA RebroadcastStep ==
  ASSUME IndInv, Rebroadcast
  PROVE  IndInv'
<1>0. TypeOK /\ RegistryCoherent /\ OneAwait
  BY DEF IndInv
<1>1. /\ run = None
      /\ run' = Broadcast("rebroadcast", None, None, None, registry, order, liveness)
      /\ UNCHANGED <<registry, order, liveness, grace, lost, link, handler, owner, stalled,
                     closing, waiting, view, host>>
  BY DEF Rebroadcast, LoopFree, partVars, sockVars
<1>2. run' \in Coroutine /\ run' # None
  BY <1>0, <1>1, CurrentBroadcastType, IdleAssumption DEF Pcs, TypeOK
<1>3. run'.pc = "rebroadcast" /\ run'.via = None
  BY <1>1 DEF Broadcast
<1>4. TypeOK'
  BY <1>0, <1>1, <1>2 DEF TypeOK
<1>5. OneAwait'
  BY <1>0, <1>1, <1>3 DEF OneAwait, WellPlaced
<1>6. HostLagsBehind'
  BY <1>2, <1>3 DEF HostLagsBehind
<1> QED  BY <1>1, <1>4, <1>5, <1>6, SameTables DEF IndInv

\* A coroutine that did one more send is still a coroutine, and where it was.
LEMMA TailType ==
  ASSUME NEW c \in Coroutine, c.rest # <<>>
  PROVE  /\ [c EXCEPT !.rest = Tail(c.rest)] \in Coroutine
         /\ Head(c.rest) \in Sockets
         /\ [c EXCEPT !.rest = Tail(c.rest)].pc = c.pc
         /\ [c EXCEPT !.rest = Tail(c.rest)].via = c.via
         /\ [c EXCEPT !.rest = Tail(c.rest)].ws = c.ws
<1>1. c.rest \in Seq(Sockets)
  BY DEF Coroutine
<1>2. Tail(c.rest) \in Seq(Sockets) /\ Head(c.rest) \in Sockets
  BY <1>1
<1> QED  BY <1>2 DEF Coroutine

\* A delivery leaves a topology frame, or nothing, at the peer.
LEMMA DeliveredType ==
  ASSUME TypeOK, NEW s \in Sockets, NEW f \in Frames \cup {None}
  PROVE  Delivered(s, f) \in [Sockets -> Frames \cup {None}]
BY DEF TypeOK, Delivered

\* A send, or the suspension in it.
LEMMA SendStep ==
  ASSUME IndInv, Send
  PROVE  IndInv'
<1>0. TypeOK /\ OneAwait /\ HostLagsBehind
  BY DEF IndInv
<1>1. /\ run # None /\ run.rest # <<>>
      /\ UNCHANGED <<registry, order, liveness, grace, lost, link, handler, owner, stalled,
                     closing, host>>
  BY DEF Send, partVars, sockVars
<1>2. run \in Coroutine /\ waiting \in Seq(Coroutine)
  BY <1>0, <1>1 DEF TypeOK
<1>3. WellPlaced(run)
  BY <1>0, <1>1 DEF OneAwait
<1>4. CASE waiting' = Append(waiting, run) /\ run' = None /\ view' = view
  <2>1. waiting' \in Seq(Coroutine) /\ Len(waiting') = Len(waiting) + 1 /\ Len(waiting) \in Nat
    BY <1>2, <1>4
  <2>2. \A i \in 1..Len(waiting') : waiting'[i] = IF i = Len(waiting) + 1 THEN run ELSE waiting[i]
    BY <1>2, <1>4
  <2>3. TypeOK'
    BY <1>0, <1>1, <1>4, <2>1 DEF TypeOK
  <2>4. \A i \in 1..Len(waiting') : WellPlaced(waiting[i])' /\ waiting'[i].rest # <<>>
    BY <1>0, <1>1, <1>3, <2>1, <2>2 DEF OneAwait, WellPlaced
  <2>5. ASSUME NEW i \in 1..Len(waiting'), NEW j \in 1..Len(waiting'), i # j,
               waiting'[i].via # None
        PROVE  waiting'[i].via # waiting'[j].via
    <3>1. CASE i = Len(waiting) + 1
      BY <1>0, <1>1, <2>1, <2>2, <2>5, <3>1 DEF OneAwait
    <3>2. CASE j = Len(waiting) + 1
      BY <1>0, <1>1, <2>1, <2>2, <2>5, <3>2 DEF OneAwait
    <3>3. CASE i # Len(waiting) + 1 /\ j # Len(waiting) + 1
      BY <1>0, <2>1, <2>2, <2>5, <3>3 DEF OneAwait
    <3> QED  BY <3>1, <3>2, <3>3
  <2>6. OneAwait'
    BY <1>4, <2>4, <2>5 DEF OneAwait
  <2>7. HostLagsBehind'
    <3>1. CASE HostMatches
      BY <1>1, <3>1 DEF HostLagsBehind, HostMatches, Registered
    <3>2. CASE run.pc # "terminate"
      <4>1. Len(waiting) + 1 \in 1..Len(waiting') /\ waiting'[Len(waiting) + 1] = run
        BY <2>1, <2>2
      <4> QED  BY <3>2, <4>1 DEF HostLagsBehind
    <3>3. CASE \E i \in 1..Len(waiting) : waiting[i].pc # "terminate"
      <4>1. PICK i \in 1..Len(waiting) : waiting[i].pc # "terminate"
        BY <3>3
      <4>2. i \in 1..Len(waiting') /\ waiting'[i] = waiting[i]
        BY <2>1, <2>2
      <4> QED  BY <4>1, <4>2 DEF HostLagsBehind
    <3> QED  BY <1>0, <3>1, <3>2, <3>3 DEF HostLagsBehind
  <2> QED  BY <1>1, <2>3, <2>6, <2>7, SameTables DEF IndInv
<1>5. CASE /\ run' = [run EXCEPT !.rest = Tail(run.rest)]
           /\ view' = Delivered(Head(run.rest), run.frame) /\ waiting' = waiting
  <2>1. /\ run' \in Coroutine /\ run' # None
        /\ run'.pc = run.pc /\ run'.via = run.via /\ run'.ws = run.ws
    BY <1>1, <1>2, <1>5, TailType, IdleAssumption
  <2>2. view' \in [Sockets -> Frames \cup {None}]
    <3>1. Head(run.rest) \in Sockets /\ run.frame \in Frames \cup {None}
      BY <1>1, <1>2, TailType DEF Coroutine
    <3> QED  BY <1>0, <1>5, <3>1, DeliveredType
  <2>3. TypeOK'
    BY <1>0, <1>1, <1>5, <2>1, <2>2 DEF TypeOK
  <2>4. OneAwait'
    BY <1>0, <1>1, <1>5, <2>1 DEF OneAwait, WellPlaced
  <2>5. HostLagsBehind'
    BY <1>0, <1>1, <1>5, <2>1 DEF HostLagsBehind, HostMatches, Registered
  <2> QED  BY <1>1, <2>3, <2>4, <2>5, SameTables DEF IndInv
<1> QED  BY <1>4, <1>5 DEF Send

\* A blocked coroutine goes on.
LEMMA WakeStep ==
  ASSUME IndInv, NEW i \in 1..Len(waiting), Wake(i)
  PROVE  IndInv'
<1> DEFINE c == waiting[i]
<1>0. TypeOK /\ OneAwait /\ HostLagsBehind
  BY DEF IndInv
<1>1. /\ run = None
      /\ run' = [c EXCEPT !.rest = Tail(c.rest)]
      /\ view' = Delivered(Head(c.rest), c.frame)
      /\ waiting' = RemoveAt(waiting, i)
      /\ UNCHANGED <<registry, order, liveness, grace, lost, link, handler, owner, stalled,
                     closing, host>>
  BY DEF Wake, partVars, sockVars
<1>2. waiting \in Seq(Coroutine) /\ Len(waiting) \in Nat /\ c \in Coroutine
  BY <1>0 DEF TypeOK
<1>3. c.rest # <<>> /\ WellPlaced(c)
  BY <1>0 DEF OneAwait
<1>4. /\ run' \in Coroutine /\ run' # None
      /\ run'.pc = c.pc /\ run'.via = c.via /\ run'.ws = c.ws
  BY <1>1, <1>2, <1>3, TailType, IdleAssumption
<1>5. /\ waiting' \in Seq(Coroutine) /\ Len(waiting') = Len(waiting) - 1
      /\ \A j \in 1..(Len(waiting) - 1) :
           waiting'[j] = IF j < i THEN waiting[j] ELSE waiting[j + 1]
  BY <1>1, <1>2, RemoveAtFacts
<1> HIDE DEF c
<1>6. ASSUME NEW j \in 1..Len(waiting')
      PROVE  \E k \in 1..Len(waiting) : /\ k # i /\ waiting'[j] = waiting[k]
                                        /\ k = IF j < i THEN j ELSE j + 1
  BY <1>2, <1>5
<1>7. TypeOK'
  <2>1. Head(c.rest) \in Sockets /\ c.frame \in Frames \cup {None}
    BY <1>2, <1>3, TailType DEF Coroutine
  <2>2. view' \in [Sockets -> Frames \cup {None}]
    BY <1>0, <1>1, <2>1, DeliveredType
  <2> QED  BY <1>0, <1>1, <1>4, <1>5, <2>2 DEF TypeOK
<1>8. OneAwait'
  <2>1. WellPlaced(run)'
    BY <1>1, <1>3, <1>4 DEF WellPlaced
  <2>2. ASSUME NEW j \in 1..Len(waiting')
        PROVE  /\ WellPlaced(waiting[j])' /\ waiting'[j].rest # <<>>
               /\ run'.via # None => run'.via # waiting'[j].via
    <3>1. PICK k \in 1..Len(waiting) : k # i /\ waiting'[j] = waiting[k]
      BY <1>6
    <3>2. WellPlaced(waiting[k]) /\ waiting[k].rest # <<>>
          /\ (c.via # None => c.via # waiting[k].via)
      BY <1>0, <3>1 DEF OneAwait, c
    <3> QED  BY <1>1, <1>4, <3>1, <3>2 DEF WellPlaced
  <2>3. ASSUME NEW j \in 1..Len(waiting'), NEW l \in 1..Len(waiting'), j # l,
               waiting'[j].via # None
        PROVE  waiting'[j].via # waiting'[l].via
    <3>1. PICK a \in 1..Len(waiting) : waiting'[j] = waiting[a] /\ a = IF j < i THEN j ELSE j + 1
      BY <1>6
    <3>2. PICK b \in 1..Len(waiting) : waiting'[l] = waiting[b] /\ b = IF l < i THEN l ELSE l + 1
      BY <1>6
    <3>3. a # b
      BY <2>3, <3>1, <3>2, <1>2, <1>5
    <3> QED  BY <1>0, <2>3, <3>1, <3>2, <3>3 DEF OneAwait
  <2> QED  BY <2>1, <2>2, <2>3 DEF OneAwait
<1>9. HostLagsBehind'
  <2>1. CASE HostMatches
    BY <1>1, <2>1 DEF HostLagsBehind, HostMatches, Registered
  <2>2. CASE c.pc # "terminate"
    BY <1>4, <2>2 DEF HostLagsBehind
  <2>3. CASE \E k \in 1..Len(waiting) : k # i /\ waiting[k].pc # "terminate"
    <3>1. PICK k \in 1..Len(waiting) : k # i /\ waiting[k].pc # "terminate"
      BY <2>3
    <3> DEFINE j == IF k < i THEN k ELSE k - 1
    <3>2. j \in 1..Len(waiting') /\ waiting'[j] = waiting[k]
      BY <1>2, <1>5, <3>1
    <3> QED  BY <3>1, <3>2 DEF HostLagsBehind
  <2> QED  BY <1>0, <1>1, <2>1, <2>2, <2>3 DEF HostLagsBehind, c
<1> QED  BY <1>1, <1>7, <1>8, <1>9, SameTables DEF IndInv

\* The sends before the broadcast are done.
LEMMA StartBroadcastStep ==
  ASSUME IndInv, StartBroadcast
  PROVE  IndInv'
<1>0. TypeOK /\ RegistryCoherent /\ OneAwait
  BY DEF IndInv
<1> DEFINE pc == IF run.pc = "ack" THEN "register" ELSE "lost"
<1>1. /\ run # None
      /\ run' = Broadcast(pc, run.name, run.ws, run.via, registry, order, liveness)
      /\ UNCHANGED <<registry, order, liveness, grace, lost, link, handler, owner, stalled,
                     closing, waiting, view, host>>
  BY DEF StartBroadcast, partVars, sockVars
<1>2. run \in Coroutine
  BY <1>0, <1>1 DEF TypeOK
<1>3. run' \in Coroutine /\ run' # None
  <2>1. /\ run.name \in Names \cup {None} /\ run.ws \in Sockets \cup {None}
        /\ run.via \in Sockets \cup {None}
    BY <1>2 DEF Coroutine
  <2>2. pc \in Pcs /\ liveness \in Frames
    BY <1>0 DEF Pcs, TypeOK
  <2> QED  BY <1>0, <1>1, <2>1, <2>2, CurrentBroadcastType, IdleAssumption
<1>4. run'.pc \in {"register", "lost"} /\ run'.via = run.via
  BY <1>1 DEF Broadcast
<1>5. TypeOK'
  BY <1>0, <1>1, <1>3 DEF TypeOK
<1>6. OneAwait'
  BY <1>0, <1>1, <1>4 DEF OneAwait, WellPlaced
<1>7. HostLagsBehind'
  BY <1>3, <1>4 DEF HostLagsBehind
<1> QED  BY <1>1, <1>5, <1>6, <1>7, SameTables DEF IndInv

\* A handler that goes back to receiving was suspended, so nothing that is
\* said about handlers that have ended, or never began, changes.
LEMMA HandlerReturnsStep ==
  ASSUME IndInv, run # None, run' = None, handler' = HandlerReturns,
         UNCHANGED <<registry, order, liveness, lost, link, owner, waiting>>
  PROVE  /\ handler' \in [Sockets -> {"none", "await", "loop", "done"}]
         /\ \A s \in Sockets : handler[s] # "await" => handler'[s] = handler[s]
         /\ \A s \in Sockets : handler[s] = "await" => handler'[s] \in {"await", "loop"}
         /\ RegistryCoherent' /\ LivenessTellsTheSocket' /\ HandlersKnown' /\ RegisteredOpened'
         /\ OneAwait'
<1> USE DEF Registered
<1>0. TypeOK /\ RegistryCoherent /\ LivenessTellsTheSocket /\ OneAwait /\ HandlersKnown
      /\ RegisteredOpened
  BY DEF IndInv
<1>1. run \in Coroutine /\ WellPlaced(run)
  BY <1>0 DEF TypeOK, OneAwait
<1>2. run.via \in Sockets \cup {None}
  BY <1>1 DEF Coroutine
<1>3. \/ run.via = None /\ handler' = handler
      \/ run.via # None /\ handler[run.via] = "await" /\ handler' = [handler EXCEPT ![run.via] = "loop"]
  BY <1>1 DEF HandlerReturns, WellPlaced
<1>4. /\ handler' \in [Sockets -> {"none", "await", "loop", "done"}]
      /\ \A s \in Sockets : handler[s] # "await" => handler'[s] = handler[s]
      /\ \A s \in Sockets : handler[s] = "await" => handler'[s] \in {"await", "loop"}
      /\ \A s \in Sockets : s # run.via => handler'[s] = handler[s]
  BY <1>0, <1>2, <1>3, Types
<1>5. RegistryCoherent'
  BY <1>0 DEF RegistryCoherent
<1>6. LivenessTellsTheSocket' /\ RegisteredOpened'
  <2>1. ASSUME NEW n \in Names, registry[n] # None
        PROVE  /\ handler'[registry[n]] = "done" <=> handler[registry[n]] = "done"
               /\ handler'[registry[n]] # "none"
    <3>1. registry[n] \in Sockets /\ handler[registry[n]] # "none"
      BY <1>0, <2>1, Types DEF RegisteredOpened
    <3> QED  BY <1>4, <3>1
  <2> QED  BY <1>0, <2>1 DEF LivenessTellsTheSocket, RegisteredOpened
<1>7. HandlersKnown'
  BY <1>0, <1>4 DEF HandlersKnown
<1>8. OneAwait'
  <2>1. ASSUME NEW i \in 1..Len(waiting)
        PROVE  WellPlaced(waiting[i])'
    <3>1. waiting[i] \in Coroutine
      BY <1>0 DEF TypeOK
    <3>2. WellPlaced(waiting[i]) /\ (run.via # None => run.via # waiting[i].via)
      BY <1>0 DEF OneAwait
    <3>3. waiting[i].via \in Sockets \cup {None} /\ waiting[i].ws \in Sockets \cup {None}
      BY <3>1 DEF Coroutine
    <3> QED  BY <1>2, <1>4, <3>2, <3>3 DEF WellPlaced
  <2> QED  BY <1>0, <2>1 DEF OneAwait
<1> QED  BY <1>4, <1>5, <1>6, <1>7, <1>8

\* The host holds the tables' topology once it was delivered.
LEMMA HostTopologyMatches ==
  ASSUME TypeOK, RegistryCoherent, host' = HostTopology, UNCHANGED <<registry, liveness>>
  PROVE  HostMatches' /\ host' \in [Names -> Liveness \cup {"lost"}]
<1>1. \A n \in Names : liveness[n] \in Liveness /\ (registry[n] # None <=> liveness[n] # "none")
  BY Types DEF RegistryCoherent, Registered
<1> QED  BY <1>1 DEF HostMatches, HostTopology, Registered, Liveness

\* The broadcast is done, and what its caller does next.
LEMMA EndBroadcastStep ==
  ASSUME IndInv, EndBroadcast
  PROVE  IndInv'
<1> USE DEF Registered
<1>0. TypeOK /\ RegistryCoherent /\ OneAwait /\ TimersAreLate /\ HandlersKnown
      /\ LivenessTellsTheSocket /\ RegisteredOpened
  BY DEF IndInv
<1>1. /\ run # None /\ host' = HostTopology
      /\ grace' = IF run.pc = "suspect" THEN [grace EXCEPT ![run.name] = run.ws] ELSE grace
      /\ UNCHANGED <<registry, order, liveness, lost, link, owner, stalled, closing,
                     waiting, view>>
  BY DEF EndBroadcast, ArmGrace
<1>2. run \in Coroutine /\ WellPlaced(run)
  BY <1>0, <1>1 DEF TypeOK, OneAwait
<1>3. HostMatches' /\ host' \in [Names -> Liveness \cup {"lost"}]
  BY <1>0, <1>1, HostTopologyMatches
<1>4. grace' \in [Names -> Sockets \cup {None}]
      /\ \A n \in Names : grace'[n] = grace[n]
                          \/ (grace'[n] \in Sockets /\ handler[grace'[n]] = "done")
  <2>1. CASE run.pc = "suspect"
    <3>1. run.ws \in Sockets /\ handler[run.ws] = "done"
      BY <1>2, <2>1 DEF WellPlaced
    <3> QED  BY <1>0, <1>1, <2>1, <3>1, Types
  <2>2. CASE run.pc # "suspect"
    BY <1>0, <1>1, <2>2, Types
  <2> QED  BY <2>1, <2>2
<1>5. CASE run.pc = "disconnect"
  <2>1. run' = SendOne("terminate", run.name, run.ws, run.via, run.ws) /\ handler' = handler
    BY <1>5 DEF EndBroadcast
  <2>2. run.ws \in Sockets
    BY <1>2, <1>5 DEF WellPlaced
  <2>3. run' \in Coroutine /\ run' # None
    <3>1. run.name \in Names \cup {None} /\ run.via \in Sockets \cup {None}
      BY <1>2 DEF Coroutine
    <3> QED  BY <2>1, <2>2, <3>1, SendOneType, IdleAssumption DEF Pcs
  <2>4. run'.pc = "terminate" /\ run'.via = run.via /\ run'.ws = run.ws
    BY <2>1 DEF SendOne
  <2>5. TypeOK'
    BY <1>0, <1>1, <1>3, <1>4, <2>1, <2>3 DEF TypeOK
  <2>6. OneAwait'
    BY <1>0, <1>1, <1>2, <2>1, <2>2, <2>4 DEF OneAwait, WellPlaced
  <2>7. TimersAreLate'
    BY <1>0, <1>1, <1>4, <2>1 DEF TimersAreLate
  <2>8. RegistryCoherent' /\ LivenessTellsTheSocket' /\ HandlersKnown' /\ RegisteredOpened'
    BY <1>0, <1>1, <2>1 DEF RegistryCoherent, LivenessTellsTheSocket, HandlersKnown,
       RegisteredOpened
  <2> QED  BY <1>3, <2>5, <2>6, <2>7, <2>8 DEF IndInv, HostLagsBehind
<1>6. CASE run.pc # "disconnect"
  <2>1. run' = None /\ handler' = HandlerReturns
    BY <1>6 DEF EndBroadcast
  <2>2. /\ handler' \in [Sockets -> {"none", "await", "loop", "done"}]
        /\ \A s \in Sockets : handler[s] = "done" => handler'[s] = "done"
        /\ RegistryCoherent' /\ LivenessTellsTheSocket' /\ HandlersKnown' /\ RegisteredOpened'
        /\ OneAwait'
    BY <1>1, <2>1, HandlerReturnsStep
  <2>3. TypeOK'
    BY <1>0, <1>1, <1>3, <1>4, <2>1, <2>2 DEF TypeOK
  <2>4. TimersAreLate'
    BY <1>0, <1>1, <1>4, <2>2, Types DEF TimersAreLate
  <2> QED  BY <1>3, <2>2, <2>3, <2>4 DEF IndInv, HostLagsBehind
<1> QED  BY <1>5, <1>6

\* The terminate frame is out.
LEMMA EndDisconnectStep ==
  ASSUME IndInv, EndDisconnect
  PROVE  IndInv'
<1>0. TypeOK /\ OneAwait /\ TimersAreLate /\ HostLagsBehind
  BY DEF IndInv
<1>1. /\ run # None /\ run.pc = "terminate" /\ run' = None /\ handler' = HandlerReturns
      /\ closing' = closing \cup {run.ws}
      /\ UNCHANGED <<registry, order, liveness, grace, lost, link, owner, stalled, waiting,
                     view, host>>
  BY DEF EndDisconnect, partVars
<1>2. run.ws \in Sockets
  BY <1>0, <1>1 DEF OneAwait, WellPlaced
<1>3. /\ handler' \in [Sockets -> {"none", "await", "loop", "done"}]
      /\ \A s \in Sockets : handler[s] = "done" => handler'[s] = "done"
      /\ RegistryCoherent' /\ LivenessTellsTheSocket' /\ HandlersKnown' /\ RegisteredOpened'
      /\ OneAwait'
  BY <1>1, HandlerReturnsStep
<1>4. TypeOK'
  BY <1>0, <1>1, <1>2, <1>3 DEF TypeOK
<1>5. TimersAreLate'
  BY <1>0, <1>1, <1>3, Types DEF TimersAreLate
<1>6. HostLagsBehind'
  BY <1>0, <1>1 DEF HostLagsBehind, HostMatches, Registered
<1> QED  BY <1>3, <1>4, <1>5, <1>6 DEF IndInv

-----------------------------------------------------------------------------
(* The theorems. *)

\* IndInv holds initially and every step of the broker preserves it.
THEOREM Inductive == Spec => []IndInv
<1>1. Init => IndInv
  <2> SUFFICES ASSUME Init PROVE IndInv
    OBVIOUS
  <2>1. TypeOK
    BY DEF Init, TypeOK, Frames, Liveness
  <2>2. RegistryCoherent /\ LivenessTellsTheSocket /\ OneAwait /\ HandlersKnown
        /\ TimersAreLate /\ RegisteredOpened /\ HostLagsBehind
    BY DEF Init, Registered, RegistryCoherent, LivenessTellsTheSocket, OneAwait, HandlersKnown,
       TimersAreLate, RegisteredOpened, HostLagsBehind, HostMatches
  <2> QED  BY <2>1, <2>2 DEF IndInv
<1>2. IndInv /\ [Next]_vars => IndInv'
  <2> SUFFICES ASSUME IndInv, [Next]_vars PROVE IndInv'
    OBVIOUS
  <2>1. CASE \E n \in Names, s \in Sockets : Register(n, s) \/ Resume(n, s) \/ OnLost(n, s)
    BY <2>1, RegisterStep, OnLostStep
  <2>2. CASE \E s \in Sockets : SocketDrop(s)
    BY <2>2, SocketDropStep
  <2>3. CASE \E n \in Names : FireLost(n)
    BY <2>3, FireLostStep
  <2>4. CASE \E n \in Names, via \in Sockets \cup {None} : Disconnect(n, via)
    BY <2>4, DisconnectStep
  <2>5. CASE Rebroadcast
    BY <2>5, RebroadcastStep
  <2>6. CASE \E i \in 1..Len(waiting) : Wake(i)
    BY <2>6, WakeStep
  <2>7. CASE Transport
    BY <2>7, TransportStep
  <2>8. CASE Loop
    BY <2>8, SendStep, StartBroadcastStep, EndBroadcastStep, EndDisconnectStep DEF Loop
  <2>9. CASE UNCHANGED vars
    BY <2>9 DEF vars, IndInv, TypeOK, Registered, RegistryCoherent, LivenessTellsTheSocket,
       OneAwait, WellPlaced, HandlersKnown, TimersAreLate, RegisteredOpened, HostLagsBehind,
       HostMatches
  <2> QED  BY <2>1, <2>2, <2>3, <2>4, <2>5, <2>6, <2>7, <2>8, <2>9 DEF Next
<1> QED  BY <1>1, <1>2, PTL DEF Spec

\* The broker's tables keep their types.
THEOREM TypeCorrect == Spec => []TypeOK
<1>1. IndInv => TypeOK
  BY DEF IndInv
<1> QED  BY <1>1, Inductive, PTL

\* The registry, the liveness table, the broadcast order and the owners of
\* the sockets agree at every step of every coroutine.
THEOREM RegistryIsCoherent == Spec => []RegistryCoherent
<1>1. IndInv => RegistryCoherent
  BY DEF IndInv
<1> QED  BY <1>1, Inductive, PTL

\* A participant is suspect exactly when the handler of its current socket
\* has ended, whatever sockets it used before and whenever they end.
THEOREM SuspectExactlyWhenDead == Spec => []LivenessTellsTheSocket
<1>1. IndInv => LivenessTellsTheSocket
  BY DEF IndInv
<1> QED  BY <1>1, Inductive, PTL

\* A timer or a spawned _on_lost that would pass the guard concerns a suspect.
THEOREM LostOnlySuspects == Spec => []LostMeansSuspect
<1>1. IndInv => LostMeansSuspect
  <2> SUFFICES ASSUME IndInv, NEW n \in Names, Registered(n),
                      grace[n] = registry[n] \/ <<n, registry[n]>> \in lost
               PROVE  liveness[n] = "suspect"
    BY DEF LostMeansSuspect
  <2>1. TypeOK /\ TimersAreLate /\ LivenessTellsTheSocket
    BY DEF IndInv
  <2>2. registry[n] \in Sockets
    BY <2>1, Types DEF Registered
  <2>3. handler[registry[n]] = "done"
    BY <2>1, <2>2 DEF TimersAreLate, Registered
  <2> QED  BY <2>1, <2>3 DEF LivenessTellsTheSocket
<1> QED  BY <1>1, Inductive, PTL

\* Without a coroutine under way the hosted plugins hold the topology of the
\* tables, however the broadcasts overlapped.
THEOREM HostIsCurrent == Spec => []HostCurrent
<1>1. IndInv => HostCurrent
  <2> SUFFICES ASSUME IndInv, run = None, waiting = <<>> PROVE HostMatches
    BY DEF HostCurrent
  <2>1. HostLagsBehind /\ Len(waiting) = 0
    BY DEF IndInv
  <2> QED  BY <2>1 DEF HostLagsBehind
<1> QED  BY <1>1, Inductive, PTL

\* A removal is one of three things, and only two may hit a served socket.
LEMMA EvictionStep ==
  ASSUME IndInv, [Next]_vars
  PROVE  LiveStays
<1> USE DEF Registered
<1>0. TypeOK /\ RegistryCoherent /\ TimersAreLate /\ HandlersKnown
  BY DEF IndInv
<1> SUFFICES ASSUME NEW n \in Names, registry[n] # None, registry'[n] = None,
                    Served(registry[n])
             PROVE  run' # None /\ run'.pc \in {"disconnect", "clean"}
  BY DEF LiveStays
<1>1. registry' # registry /\ registry[n] \in Sockets
  BY <1>0, Types
<1>2. ~(Rebroadcast \/ Transport \/ Loop \/ UNCHANGED vars)
  BY <1>1 DEF Rebroadcast, Transport, PeerDrops, PeerCloses, Closed, Down, Stall, Drain, Loop,
     Send, StartBroadcast, EndBroadcast, EndDisconnect, vars, partVars
<1>3. ~ \E i \in 1..Len(waiting) : Wake(i)
  BY <1>1 DEF Wake, partVars
<1>4. ~ \E m \in Names : FireLost(m)
  BY <1>1 DEF FireLost
<1>5. ~ \E m \in Names, s \in Sockets : Register(m, s) \/ Resume(m, s)
  <2> SUFFICES ASSUME NEW m \in Names, NEW s \in Sockets,
                      registry' = [registry EXCEPT ![m] = s]
               PROVE  FALSE
    BY DEF Register, Resume, Accept
  <2> QED  BY <1>0, Types
<1>6. ~ \E m \in Names, s \in Sockets : OnLost(m, s)
  <2> SUFFICES ASSUME NEW m \in Names, NEW s \in Sockets, OnLost(m, s)
               PROVE  FALSE
    OBVIOUS
  <2>1. registry[m] = s /\ <<m, s>> \in lost /\ registry' = [registry EXCEPT ![m] = None]
    BY <1>1 DEF OnLost, IsCurrent, RemoveParticipant, partVars
  <2>2. m = n /\ handler[s] = "done"
    BY <1>0, <2>1, Types DEF TimersAreLate
  <2> QED  BY <2>1, <2>2 DEF Served
<1>7. ASSUME NEW s \in Sockets, SocketDrop(s)
      PROVE  run' # None /\ run'.pc \in {"disconnect", "clean"}
  <2> DEFINE m == owner[s]
  <2>1. RemoveAndBroadcast("clean", m, s, None) /\ registry[m] = s
    BY <1>1, <1>7 DEF SocketDrop, IsCurrent, partVars
  <2>2. m \in Names
    BY <1>0, <1>7 DEF HandlersKnown, SocketDrop
  <2>3. run' \in Coroutine
    BY <1>0, <2>1, <2>2, RemovalBroadcastType DEF RemoveAndBroadcast, Pcs
  <2> QED  BY <2>1, <2>3, IdleAssumption DEF RemoveAndBroadcast, Broadcast
<1>8. ASSUME NEW m \in Names, NEW via \in Sockets \cup {None}, Disconnect(m, via)
      PROVE  run' # None /\ run'.pc \in {"disconnect", "clean"}
  <2>1. RemoveAndBroadcast("disconnect", m, registry[m], via) /\ registry[m] \in Sockets
    BY <1>0, <1>8, Types DEF Disconnect
  <2>2. run' \in Coroutine
    BY <1>0, <2>1, RemovalBroadcastType DEF RemoveAndBroadcast, Pcs
  <2> QED  BY <2>1, <2>2, IdleAssumption DEF RemoveAndBroadcast, Broadcast
<1> QED  BY <1>2, <1>3, <1>4, <1>5, <1>6, <1>7, <1>8 DEF Next

\* No timer and no late drop of an earlier socket ever removes a participant
\* whose connection is being served.
THEOREM LiveParticipantsStay == Spec => NoLiveEviction
<1>1. IndInv /\ [Next]_vars => [LiveStays]_vars
  BY EvictionStep
<1> QED  BY <1>1, Inductive, PTL DEF Spec, NoLiveEviction

-----------------------------------------------------------------------------
(***************************************************************************)
(* Calls between two parties (Calls).                                      *)
(***************************************************************************)

USE NamesAssumption, RouteAssumption DEF Parties

-----------------------------------------------------------------------------
(* The operators. *)

\* A frame of a well-formed outbox is the request or one of two responses.
LEMMA FrameFacts ==
  ASSUME NEW i
  PROVE  /\ Request(i).kind = "request" /\ Request(i).id = i
         /\ \A st : Response(i, st).kind = "response" /\ Response(i, st).id = i
                    /\ Response(i, st).status = st
         /\ \A st : Request(i) # Response(i, st)
BY DEF Request, Response

\* What the broker reads is what was sent.
LEMMA OutboxFacts ==
  ASSUME CallsTypeOK, \A i \in Ids : CallSound(i), NEW f \in outbox
  PROVE  /\ f.id \in Ids /\ FramesOf(f.id) = {f}
         /\ f.kind = "request" => f = Request(f.id)
         /\ f.kind = "response" => f.status \in {"503", "served"} /\ f = Response(f.id, f.status)
         /\ f.kind \in {"request", "response"}
<1>1. f.id \in Ids /\ f.kind \in {"request", "response"}
  BY DEF CallsTypeOK, Frame
<1>2. f \in FramesOf(f.id)
  BY DEF FramesOf
<1>3. FramesOf(f.id) \in {{}, {Request(f.id)}, {Response(f.id, "503")}, {Response(f.id, "served")}}
  BY <1>1 DEF CallSound, OnePlace
<1>4. CASE FramesOf(f.id) = {Request(f.id)}
  <2>1. f = Request(f.id) /\ f.kind = "request"
    BY <1>2, <1>4, FrameFacts
  <2> QED  BY <1>1, <1>4, <2>1
<1>5. ASSUME NEW st \in {"503", "served"}, FramesOf(f.id) = {Response(f.id, st)}
      PROVE  /\ FramesOf(f.id) = {f} /\ f.kind = "response"
             /\ f.status \in {"503", "served"} /\ f = Response(f.id, f.status)
  <2>1. f = Response(f.id, st) /\ f.kind = "response" /\ f.status = st
    BY <1>2, <1>5, FrameFacts
  <2> QED  BY <1>5, <2>1
<1> QED  BY <1>1, <1>2, <1>3, <1>4, <1>5

\* The frames that are sent have the type of frames.
LEMMA FrameTypes ==
  ASSUME NEW i \in Ids
  PROVE  Request(i) \in Frame /\ \A st \in Outcome : Response(i, st) \in Frame
BY DEF Request, Response, Frame

\* Resolving keeps the type of the futures.
LEMMA ResolveType ==
  ASSUME CallsTypeOK, NEW i \in Ids, NEW st \in Outcome
  PROVE  Resolve(i, st) \in [Ids -> {"unused", "waiting", "gaveup", "raised"} \cup Outcome]
BY DEF CallsTypeOK, Resolve

\* A delivery to the callee keeps the types of the frames and the handlers.
LEMMA ToCalleeType ==
  ASSUME CallsTypeOK, NEW i \in Ids, NEW d \in Ends, NEW box, box \subseteq Frame,
         ToCallee(i, d, box)
  PROVE  outbox' \subseteq Frame /\ serving' \in [Parties -> SUBSET Ids]
<1>1. "503" \in Outcome /\ serving \in [Parties -> SUBSET Ids]
  BY DEF Outcome, CallsTypeOK
<1> QED  BY <1>1, FrameTypes DEF ToCallee

\* Every variable keeps its type.
LEMMA TypeStep ==
  ASSUME CallsTypeOK, \A i \in Ids : CallSound(i), CallsNext
  PROVE  CallsTypeOK'
<1> USE DEF CallsTypeOK
<1>1. ASSUME NEW n \in Ends, Connect(n) \/ Drop(n) \/ Leave(n)
      PROVE  CallsTypeOK'
  BY <1>1 DEF Connect, Drop, Leave
<1>2. ASSUME NEW n \in Ends, Lost(n)
      PROVE  CallsTypeOK'
  <2>1. sweeps' \subseteq {w \in Sweep : w.todo # {}}
    BY <1>2 DEF Lost, WithSweep, Touching, InFlight, Sweep
  <2> QED  BY <1>2, <2>1 DEF Lost
<1>3. ASSUME NEW i \in Ids, NEW s \in Ends, NEW d \in Parties, Call(i, s, d)
      PROVE  CallsTypeOK'
  <2>1. outbox' \subseteq Frame
    BY <1>3, FrameTypes DEF Call
  <2>2. route' \in [Ids -> [src: Parties, dst: Parties] \cup {Unset}]
    BY <1>3 DEF Call
  <2> QED  BY <1>3, <2>1, <2>2 DEF Call
<1>4. ASSUME NEW i \in Ids, NEW d \in Ends, BrokerCall(i, d)
      PROVE  CallsTypeOK'
  <2>1. outbox' \subseteq Frame /\ serving' \in [Parties -> SUBSET Ids]
    BY <1>4, ToCalleeType DEF BrokerCall
  <2>2. route' \in [Ids -> [src: Parties, dst: Parties] \cup {Unset}]
    BY <1>4 DEF BrokerCall
  <2> QED  BY <1>4, <2>1, <2>2 DEF BrokerCall
<1>5. ASSUME NEW i \in Ids, GiveUp(i) \/ CancelCall(i)
      PROVE  CallsTypeOK'
  BY <1>5 DEF GiveUp, CancelCall, PopEntry
<1>6. ASSUME NEW f \in outbox, RouteRequest(f)
      PROVE  CallsTypeOK'
  <2>1. f.id \in Ids
    BY DEF Frame
  <2>2. future' \in [Ids -> {"unused", "waiting", "gaveup", "raised"} \cup Outcome]
    BY <1>6, <2>1, ResolveType DEF RouteRequest, ToCaller, Outcome
  <2>3. outbox' \subseteq Frame /\ serving' \in [Parties -> SUBSET Ids]
    BY <1>6, <2>1, ToCalleeType DEF RouteRequest, known
  <2>4. calls' \in [Ids -> {"none", "open", "due"}]
    BY <1>6, <2>1 DEF RouteRequest
  <2> QED  BY <1>6, <2>2, <2>3, <2>4 DEF RouteRequest
<1>7. ASSUME NEW f \in outbox, RouteResponse(f)
      PROVE  CallsTypeOK'
  <2>1. f.id \in Ids /\ f.status \in Outcome
    BY <1>7, OutboxFacts DEF RouteResponse, Outcome
  <2>2. future' \in [Ids -> {"unused", "waiting", "gaveup", "raised"} \cup Outcome]
    BY <1>7, <2>1, ResolveType DEF RouteResponse, ToCaller
  <2> QED  BY <1>7, <2>1, <2>2 DEF RouteResponse, PopEntry
<1>8. ASSUME NEW i \in Ids, HostReply(i)
      PROVE  CallsTypeOK'
  BY <1>8 DEF HostReply, ToCaller, Resolve, Outcome
<1>9. ASSUME NEW i \in Ids, NEW n \in Ends, Serve(n, i)
      PROVE  CallsTypeOK'
  <2>1. outbox' \subseteq Frame
    BY <1>9, FrameTypes DEF Serve, Outcome
  <2> QED  BY <1>9, <2>1 DEF Serve
<1>10. ASSUME NEW i \in Ids, Expire(i)
       PROVE  CallsTypeOK'
  BY <1>10 DEF Expire
<1>11. ASSUME Reap
       PROVE  CallsTypeOK'
  <2>1. sweeps' \subseteq {w \in Sweep : w.todo # {}}
    BY <1>11 DEF Reap, WithSweep, DueCalls, InFlight, Sweep
  <2> QED  BY <1>11, <2>1 DEF Reap
<1>12. ASSUME NEW w \in sweeps, NEW i \in w.todo, SweepEntry(w, i)
       PROVE  CallsTypeOK'
  <2>1. i \in Ids /\ w.todo \subseteq Ids /\ w.name \in Ends \cup {Unset}
    BY DEF Sweep
  <2>2. sweeps' \subseteq {v \in Sweep : v.todo # {}}
    BY <1>12, <2>1 DEF SweepEntry, WithSweep, Sweep
  <2> QED  BY <1>12, <2>1, <2>2 DEF SweepEntry, PopEntry, FailCall, ToCaller, Resolve, Outcome
<1> QED  BY <1>1, <1>2, <1>3, <1>4, <1>5, <1>6, <1>7, <1>8, <1>9, <1>10, <1>11, <1>12
         DEF CallsNext, Network, Callers, Routing, Handlers, Sweeping

-----------------------------------------------------------------------------
(* How a step moves the traces of a call. *)

\* A frame that is sent or read is a trace of its own call only.
LEMMA FramesMove ==
  ASSUME NEW f, NEW j
  PROVE  /\ outbox' = outbox => FramesOf(j)' = FramesOf(j)
         /\ outbox' = outbox \cup {f} =>
              FramesOf(j)' = IF j = f.id THEN FramesOf(j) \cup {f} ELSE FramesOf(j)
         /\ outbox' = outbox \ {f} =>
              FramesOf(j)' = IF j = f.id THEN FramesOf(j) \ {f} ELSE FramesOf(j)
<1>1. FramesOf(j)' = {g \in outbox' : g.id = j}
  BY DEF FramesOf
<1>2. ASSUME outbox' = outbox
      PROVE  FramesOf(j)' = FramesOf(j)
  BY <1>1, <1>2 DEF FramesOf
<1>3. ASSUME outbox' = outbox \cup {f}
      PROVE  FramesOf(j)' = IF j = f.id THEN FramesOf(j) \cup {f} ELSE FramesOf(j)
  BY <1>1, <1>3 DEF FramesOf
<1>4. ASSUME outbox' = outbox \ {f}
      PROVE  FramesOf(j)' = IF j = f.id THEN FramesOf(j) \ {f} ELSE FramesOf(j)
  BY <1>1, <1>4 DEF FramesOf
<1> QED  BY <1>2, <1>3, <1>4

\* A handler that begins or ends is a trace of its own call only.
LEMMA HandlersMove ==
  ASSUME CallsTypeOK, NEW p \in Parties, NEW i \in Ids, NEW j \in Ids
  PROVE  /\ serving' = serving => HandlersOf(j)' = HandlersOf(j)
         /\ serving' = [serving EXCEPT ![p] = @ \cup {i}] =>
              HandlersOf(j)' = IF j = i THEN HandlersOf(j) \cup {p} ELSE HandlersOf(j)
         /\ serving' = [serving EXCEPT ![p] = @ \ {i}] =>
              HandlersOf(j)' = IF j = i THEN HandlersOf(j) \ {p} ELSE HandlersOf(j)
<1>0. serving \in [Parties -> SUBSET Ids]
  BY DEF CallsTypeOK
<1>1. HandlersOf(j)' = {q \in Parties : j \in serving'[q]}
  BY DEF HandlersOf
<1>2. ASSUME serving' = serving
      PROVE  HandlersOf(j)' = HandlersOf(j)
  BY <1>1, <1>2 DEF HandlersOf
<1>3. ASSUME serving' = [serving EXCEPT ![p] = @ \cup {i}]
      PROVE  HandlersOf(j)' = IF j = i THEN HandlersOf(j) \cup {p} ELSE HandlersOf(j)
  <2>1. \A q \in Parties : j \in serving'[q] <=> (j \in serving[q] \/ (j = i /\ q = p))
    BY <1>0, <1>3
  <2> QED  BY <1>1, <2>1 DEF HandlersOf
<1>4. ASSUME serving' = [serving EXCEPT ![p] = @ \ {i}]
      PROVE  HandlersOf(j)' = IF j = i THEN HandlersOf(j) \ {p} ELSE HandlersOf(j)
  <2>1. \A q \in Parties : j \in serving'[q] <=> (j \in serving[q] /\ ~(j = i /\ q = p))
    BY <1>0, <1>4
  <2> QED  BY <1>1, <2>1 DEF HandlersOf
<1> QED  BY <1>2, <1>3, <1>4

\* A sweep begins over entries of the table and takes up nothing after that.
LEMMA SweepsMove ==
  ASSUME CallsTypeOK, NEW j \in Ids
  PROVE  /\ sweeps' = sweeps => (Swept(j)' <=> Swept(j))
         /\ \A T, n : sweeps' = WithSweep(sweeps, T, n) => (Swept(j)' <=> Swept(j) \/ j \in T)
         /\ \A w \in sweeps : \A i \in w.todo :
              sweeps' = WithSweep(sweeps \ {w}, w.todo \ {i}, w.name) => (Swept(j)' => Swept(j))
<1>1. Swept(j)' <=> \E w \in sweeps' : j \in w.todo
  BY DEF Swept
<1>2. ASSUME NEW T, NEW n, sweeps' = WithSweep(sweeps, T, n)
      PROVE  Swept(j)' <=> Swept(j) \/ j \in T
  <2>1. sweeps' = sweeps \cup (IF T = {} THEN {} ELSE {[todo |-> T, name |-> n]})
    BY <1>2 DEF WithSweep
  <2> DEFINE v == [todo |-> T, name |-> n]
  <2>2. v.todo = T
    OBVIOUS
  <2> HIDE DEF v
  <2>3. CASE T = {}
    BY <1>1, <2>1, <2>3 DEF Swept
  <2>4. CASE T # {}
    BY <1>1, <2>1, <2>2, <2>4 DEF Swept, v
  <2> QED  BY <2>3, <2>4
<1>3. ASSUME NEW w \in sweeps, NEW i \in w.todo,
             sweeps' = WithSweep(sweeps \ {w}, w.todo \ {i}, w.name)
      PROVE  Swept(j)' => Swept(j)
  BY <1>1, <1>3 DEF WithSweep, Swept
<1> QED  BY <1>1, <1>2, <1>3 DEF Swept

\* What may happen to a call without harm: its frame is lost, its entry
\* leaves, a sweep takes it up, its caller gives up or is sent a 504.
LEMMA Undisturbed ==
  ASSUME NEW j \in Ids, CallSound(j), route'[j] = route[j],
         FramesOf(j)' \in {FramesOf(j), {}}, HandlersOf(j)' = HandlersOf(j),
         calls[j] = "none" => calls'[j] = "none",
         Swept(j)' => Swept(j) \/ calls[j] # "none",
         \/ future'[j] = future[j]
         \/ future[j] = "waiting" /\ future'[j] = "gaveup"
         \/ future[j] = "waiting" /\ future'[j] = "504" /\ Request(j) \notin FramesOf(j)
  PROVE  CallSound(j)'
<1>1. OnePlace(j)'
  BY DEF CallSound, OnePlace, Dst, Request, Response
<1>2. UnusedIsUnknown(j)'
  BY DEF CallSound, UnusedIsUnknown, Nowhere
<1>3. UnreadIsOpen(j)'
  BY DEF CallSound, UnreadIsOpen, Src, Request
<1>4. AnsweredIsOver(j)'
  BY DEF CallSound, AnsweredIsOver, Nowhere
<1> QED  BY <1>1, <1>2, <1>3, <1>4 DEF CallSound

-----------------------------------------------------------------------------
(* Every call stays sound: one lemma per kind of action. *)

\* Participants come and go, entries expire, callers give up, sweeps begin
\* and go on: at most a frame is lost.
LEMMA SoundQuiet ==
  ASSUME CallsTypeOK, \A i \in Ids : CallSound(i),
         \/ Network
         \/ \E i \in Ids : GiveUp(i) \/ CancelCall(i)
         \/ Sweeping
  PROVE  \A j \in Ids : CallSound(j)'
<1> SUFFICES ASSUME NEW j \in Ids
             PROVE  CallSound(j)'
  OBVIOUS
<1>0. CallSound(j)
  OBVIOUS
<1>1. ASSUME NEW n \in Ends, Connect(n) \/ Drop(n) \/ Leave(n)
      PROVE  CallSound(j)'
  <2>1. /\ outbox' \subseteq outbox
        /\ UNCHANGED <<route, calls, future, serving, sweeps>>
    BY <1>1 DEF Connect, Drop, Leave
  <2>2. FramesOf(j)' \subseteq FramesOf(j)
    BY <2>1 DEF FramesOf
  <2>3. FramesOf(j)' \in {FramesOf(j), {}}
    BY <1>0, <2>2 DEF CallSound, OnePlace
  <2>4. HandlersOf(j)' = HandlersOf(j) /\ (Swept(j)' <=> Swept(j))
    BY <2>1 DEF HandlersOf, Swept
  <2> QED  BY <1>0, <2>1, <2>3, <2>4, Undisturbed
<1>2. ASSUME NEW n \in Ends, Lost(n)
      PROVE  CallSound(j)'
  <2>1. /\ UNCHANGED <<route, calls, future, outbox, serving>>
        /\ sweeps' = WithSweep(sweeps, Touching(n), n)
    BY <1>2 DEF Lost
  <2>2. FramesOf(j)' = FramesOf(j) /\ HandlersOf(j)' = HandlersOf(j)
    BY <2>1 DEF FramesOf, HandlersOf
  <2>3. Swept(j)' => Swept(j) \/ calls[j] # "none"
    BY <2>1, SweepsMove DEF Touching, InFlight
  <2> QED  BY <1>0, <2>1, <2>2, <2>3, Undisturbed
<1>3. ASSUME NEW i \in Ids, GiveUp(i) \/ CancelCall(i)
      PROVE  CallSound(j)'
  <2>1. /\ UNCHANGED <<route, outbox, serving, sweeps>>
        /\ future[i] = "waiting" /\ future' = [future EXCEPT ![i] = "gaveup"]
        /\ calls' \in {calls, PopEntry(i)}
    BY <1>3 DEF GiveUp, CancelCall
  <2>2. FramesOf(j)' = FramesOf(j) /\ HandlersOf(j)' = HandlersOf(j) /\ (Swept(j)' <=> Swept(j))
    BY <2>1 DEF FramesOf, HandlersOf, Swept
  <2>3. calls[j] = "none" => calls'[j] = "none"
    BY <2>1 DEF PopEntry, CallsTypeOK
  <2>4. future'[j] = future[j] \/ (future[j] = "waiting" /\ future'[j] = "gaveup")
    BY <2>1 DEF CallsTypeOK
  <2> QED  BY <1>0, <2>1, <2>2, <2>3, <2>4, Undisturbed
<1>4. ASSUME NEW i \in Ids, Expire(i)
      PROVE  CallSound(j)'
  <2>1. /\ UNCHANGED <<route, future, outbox, serving, sweeps>>
        /\ calls[i] = "open" /\ calls' = [calls EXCEPT ![i] = "due"]
    BY <1>4 DEF Expire
  <2>2. FramesOf(j)' = FramesOf(j) /\ HandlersOf(j)' = HandlersOf(j) /\ (Swept(j)' <=> Swept(j))
    BY <2>1 DEF FramesOf, HandlersOf, Swept
  <2>3. calls[j] = "none" => calls'[j] = "none"
    BY <2>1 DEF CallsTypeOK
  <2> QED  BY <1>0, <2>1, <2>2, <2>3, Undisturbed
<1>5. ASSUME Reap
      PROVE  CallSound(j)'
  <2>1. /\ UNCHANGED <<route, calls, future, outbox, serving>>
        /\ sweeps' = WithSweep(sweeps, DueCalls, Unset)
    BY <1>5 DEF Reap
  <2>2. FramesOf(j)' = FramesOf(j) /\ HandlersOf(j)' = HandlersOf(j)
    BY <2>1 DEF FramesOf, HandlersOf
  <2>3. Swept(j)' => Swept(j) \/ calls[j] # "none"
    BY <2>1, SweepsMove DEF DueCalls, InFlight
  <2> QED  BY <1>0, <2>1, <2>2, <2>3, Undisturbed
<1>6. ASSUME NEW w \in sweeps, NEW i \in w.todo, SweepEntry(w, i)
      PROVE  CallSound(j)'
  <2>1. /\ UNCHANGED <<route, outbox, serving>>
        /\ sweeps' = WithSweep(sweeps \ {w}, w.todo \ {i}, w.name)
        /\ calls' = PopEntry(i) /\ future' \in {future, Resolve(i, "504")}
    BY <1>6 DEF SweepEntry, FailCall, ToCaller
  <2>2. i \in Ids /\ Swept(i)
    BY DEF CallsTypeOK, Sweep, Swept
  <2>3. Request(i) \notin FramesOf(i)
    BY <2>2 DEF CallSound, UnreadIsOpen
  <2>4. FramesOf(j)' = FramesOf(j) /\ HandlersOf(j)' = HandlersOf(j)
    BY <2>1 DEF FramesOf, HandlersOf
  <2>5. Swept(j)' => Swept(j)
    BY <2>1, SweepsMove
  <2>6. calls[j] = "none" => calls'[j] = "none"
    BY <2>1, <2>2 DEF PopEntry, CallsTypeOK
  <2>7. \/ future'[j] = future[j]
        \/ future[j] = "waiting" /\ future'[j] = "504" /\ Request(j) \notin FramesOf(j)
    BY <2>1, <2>2, <2>3 DEF Resolve, CallsTypeOK
  <2> QED  BY <1>0, <2>1, <2>4, <2>5, <2>6, <2>7, Undisturbed
<1> QED  BY <1>1, <1>2, <1>3, <1>4, <1>5, <1>6 DEF Network, Sweeping

\* The first frame of a call is its only trace.
LEMMA SoundCall ==
  ASSUME CallsTypeOK, \A j \in Ids : CallSound(j),
         NEW i \in Ids, NEW s \in Ends, NEW d \in Parties, Call(i, s, d)
  PROVE  \A j \in Ids : CallSound(j)'
<1>1. /\ future[i] = "unused" /\ future' = [future EXCEPT ![i] = "waiting"]
      /\ route' = [route EXCEPT ![i] = [src |-> s, dst |-> d]]
      /\ outbox' = outbox \cup {Request(i)}
      /\ UNCHANGED <<calls, serving, sweeps>>
  BY DEF Call
<1>2. \A j \in Ids : /\ HandlersOf(j)' = HandlersOf(j) /\ (Swept(j)' <=> Swept(j))
                     /\ FramesOf(j)' = IF j = i THEN FramesOf(j) \cup {Request(i)} ELSE FramesOf(j)
  BY <1>1, FramesMove, HandlersMove, SweepsMove, FrameFacts
<1>3. ASSUME NEW j \in Ids, j # i
      PROVE  CallSound(j)'
  <2>1. route'[j] = route[j] /\ future'[j] = future[j]
    BY <1>1, <1>3 DEF CallsTypeOK
  <2> QED  BY <1>1, <1>2, <1>3, <2>1, Undisturbed
<1>4. CallSound(i)'
  <2>1. Nowhere(i) /\ calls[i] = "none" /\ ~Swept(i)
    BY <1>1 DEF CallSound, UnusedIsUnknown
  <2>2. route'[i] = [src |-> s, dst |-> d] /\ future'[i] = "waiting"
    BY <1>1 DEF CallsTypeOK
  <2>3. route'[i] # Unset /\ route'[i].src = s
    <3>1. [src |-> s, dst |-> d] \in [src: Ends \cup {Broker}, dst: Ends \cup {Broker}]
      OBVIOUS
    <3> QED  BY <2>2, <3>1
  <2>4. FramesOf(i)' = {Request(i)} /\ HandlersOf(i)' = {}
    BY <1>2, <2>1 DEF Nowhere
  <2>5. OnePlace(i)'
    BY <2>4 DEF OnePlace, Request, Response
  <2> QED  BY <1>1, <1>2, <2>1, <2>2, <2>3, <2>4, <2>5
           DEF CallSound, UnusedIsUnknown, UnreadIsOpen, AnsweredIsOver, Src
<1> QED  BY <1>3, <1>4

\* Three ends of a delivery to the callee: lost, refused, or a handler.
LEMMA Delivery ==
  ASSUME CallsTypeOK, NEW i \in Ids, NEW d \in Ends, NEW box, ToCallee(i, d, box),
         NEW j \in Ids
  PROVE  /\ j # i => /\ HandlersOf(j)' = HandlersOf(j)
                     /\ FramesOf(j)' = {f \in box : f.id = j}
         /\ \/ /\ HandlersOf(i)' = HandlersOf(i)
               /\ FramesOf(i)' = {f \in box : f.id = i}
            \/ /\ HandlersOf(i)' = HandlersOf(i)
               /\ FramesOf(i)' = {f \in box : f.id = i} \cup {Response(i, "503")}
            \/ /\ HandlersOf(i)' = HandlersOf(i) \cup {d}
               /\ FramesOf(i)' = {f \in box : f.id = i}
<1>1. CASE outbox' = box /\ UNCHANGED serving
  BY <1>1 DEF FramesOf, HandlersOf
<1>2. CASE outbox' = box \cup {Response(i, "503")} /\ UNCHANGED serving
  BY <1>2, FrameFacts DEF FramesOf, HandlersOf
<1>3. CASE outbox' = box /\ serving' = [serving EXCEPT ![d] = @ \cup {i}]
  <2>1. \A k \in Ids : HandlersOf(k)' = IF k = i THEN HandlersOf(k) \cup {d} ELSE HandlersOf(k)
    BY <1>3, HandlersMove
  <2> QED  BY <1>3, <2>1 DEF FramesOf
<1> QED  BY <1>1, <1>2, <1>3 DEF ToCallee

\* The broker calls without a frame of its own.
LEMMA SoundBrokerCall ==
  ASSUME CallsTypeOK, \A j \in Ids : CallSound(j),
         NEW i \in Ids, NEW d \in Ends, BrokerCall(i, d)
  PROVE  \A j \in Ids : CallSound(j)'
<1>1. /\ future[i] = "unused" /\ UNCHANGED sweeps
      /\ route' = [route EXCEPT ![i] = [src |-> Broker, dst |-> d]]
      /\ \/ /\ future' = [future EXCEPT ![i] = "raised"]
            /\ UNCHANGED <<calls, outbox, serving>>
         \/ /\ future' = [future EXCEPT ![i] = "waiting"]
            /\ calls' = [calls EXCEPT ![i] = "open"]
            /\ ToCallee(i, d, outbox)
  BY DEF BrokerCall
<1>2. \A j \in Ids : Swept(j)' <=> Swept(j)
  BY <1>1, SweepsMove
<1>3. \A j \in Ids : j # i => FramesOf(j)' = FramesOf(j) /\ HandlersOf(j)' = HandlersOf(j)
  BY <1>1, FramesMove, HandlersMove, Delivery DEF FramesOf
<1>4. ASSUME NEW j \in Ids, j # i
      PROVE  CallSound(j)'
  <2>1. route'[j] = route[j] /\ future'[j] = future[j] /\ calls'[j] = calls[j]
    BY <1>1, <1>4 DEF CallsTypeOK
  <2> QED  BY <1>2, <1>3, <1>4, <2>1, Undisturbed
<1>5. CallSound(i)'
  <2>1. Nowhere(i) /\ ~Swept(i)
    BY <1>1 DEF CallSound, UnusedIsUnknown
  <2>2. route'[i] # Unset /\ Dst(i)' = d
    <3>1. [src |-> Broker, dst |-> d] \in [src: Ends \cup {Broker}, dst: Ends \cup {Broker}]
      OBVIOUS
    <3> QED  BY <1>1, <3>1 DEF CallsTypeOK, Dst
  <2>3. CASE future' = [future EXCEPT ![i] = "raised"] /\ UNCHANGED <<calls, outbox, serving>>
    <3>1. Nowhere(i)' /\ future'[i] = "raised"
      BY <2>1, <2>3, FramesMove, HandlersMove DEF Nowhere, CallsTypeOK
    <3> QED  BY <1>2, <2>1, <2>2, <3>1
             DEF CallSound, OnePlace, UnusedIsUnknown, UnreadIsOpen, AnsweredIsOver, Nowhere
  <2>4. CASE future' = [future EXCEPT ![i] = "waiting"] /\ ToCallee(i, d, outbox)
    <3>1. future'[i] = "waiting"
      BY <2>4 DEF CallsTypeOK
    <3>2. /\ FramesOf(i)' \in {{}, {Response(i, "503")}}
          /\ HandlersOf(i)' \in {{}, {d}} /\ (HandlersOf(i)' # {} => FramesOf(i)' = {})
      BY <2>1, <2>4, Delivery DEF Nowhere, FramesOf
    <3>3. OnePlace(i)' /\ Request(i) \notin FramesOf(i)'
      BY <2>2, <3>2, FrameFacts DEF OnePlace, Request, Response
    <3> QED  BY <2>2, <3>1, <3>3
             DEF CallSound, UnusedIsUnknown, UnreadIsOpen, AnsweredIsOver, Request
  <2> QED  BY <1>1, <2>3, <2>4
<1> QED  BY <1>4, <1>5

\* A request is read: it moves to its callee, is answered, or is lost.
LEMMA SoundRequest ==
  ASSUME CallsTypeOK, \A j \in Ids : CallSound(j), NEW f \in outbox, RouteRequest(f)
  PROVE  \A j \in Ids : CallSound(j)'
<1> DEFINE i == f.id
<1>0. i \in Ids /\ f = Request(i) /\ FramesOf(i) = {f}
  BY OutboxFacts DEF RouteRequest
<1>1. /\ UNCHANGED <<route, sweeps>>
      /\ \/ /\ Dst(i) = Broker
            /\ serving' = [serving EXCEPT ![Broker] = @ \cup {i}]
            /\ outbox' = outbox \ {f} /\ UNCHANGED <<calls, future>>
         \/ /\ future' \in {future, Resolve(i, "502"), Resolve(i, "503")}
            /\ outbox' = outbox \ {f} /\ UNCHANGED <<calls, serving>>
         \/ /\ Dst(i) \in Ends /\ calls' = [calls EXCEPT ![i] = "open"]
            /\ ToCallee(i, Dst(i), outbox \ {f}) /\ UNCHANGED future
  BY DEF RouteRequest, ToCaller, known
<1>2. HandlersOf(i) = {} /\ route[i] # Unset /\ future[i] \in {"waiting", "gaveup"} /\ ~Swept(i)
  BY <1>0 DEF CallSound, OnePlace, UnusedIsUnknown, UnreadIsOpen, Nowhere
<1>3. \A j \in Ids : Swept(j)' <=> Swept(j)
  BY <1>1, SweepsMove
<1>4. /\ \A j \in Ids : j # i => FramesOf(j)' = FramesOf(j) /\ HandlersOf(j)' = HandlersOf(j)
      /\ \/ FramesOf(i)' = {} /\ HandlersOf(i)' = {}
         \/ /\ future' = future
            /\ FramesOf(i)' \in {{}, {Response(i, "503")}}
            /\ HandlersOf(i)' \in {{}, {Dst(i)}} /\ (HandlersOf(i)' # {} => FramesOf(i)' = {})
  <2>0. \A j : {g \in outbox \ {f} : g.id = j} = IF j = i THEN {} ELSE FramesOf(j)
    BY <1>0 DEF FramesOf
  <2>1. CASE outbox' = outbox \ {f} /\ UNCHANGED serving
    BY <1>0, <1>2, <2>1, FramesMove, HandlersMove
  <2>2. CASE /\ Dst(i) = Broker /\ serving' = [serving EXCEPT ![Broker] = @ \cup {i}]
             /\ outbox' = outbox \ {f} /\ future' = future
    <3>1. \A j \in Ids : HandlersOf(j)' = IF j = i THEN HandlersOf(j) \cup {Broker} ELSE HandlersOf(j)
      <4> SUFFICES ASSUME NEW j \in Ids
                   PROVE  HandlersOf(j)' = IF j = i THEN HandlersOf(j) \cup {Broker} ELSE HandlersOf(j)
        OBVIOUS
      <4>1. Broker \in Parties /\ serving' = [serving EXCEPT ![Broker] = @ \cup {i}]
        BY <2>2
      <4> HIDE DEF i
      <4> QED  BY <1>0, <4>1, HandlersMove
    <3> QED  BY <1>0, <1>2, <2>2, <3>1, FramesMove
  <2>3. CASE Dst(i) \in Ends /\ ToCallee(i, Dst(i), outbox \ {f}) /\ future' = future
    <3>1. \A j \in Ids : j # i => /\ HandlersOf(j)' = HandlersOf(j)
                                  /\ FramesOf(j)' = {g \in outbox \ {f} : g.id = j}
      BY <1>0, <2>3, Delivery
    <3>2. \/ HandlersOf(i)' = {} /\ FramesOf(i)' = {}
          \/ HandlersOf(i)' = {} /\ FramesOf(i)' = {Response(i, "503")}
          \/ HandlersOf(i)' = {Dst(i)} /\ FramesOf(i)' = {}
      <4>1. {g \in outbox \ {f} : g.id = i} = {}
        BY <2>0
      <4>2. Dst(i) \in Ends /\ ToCallee(i, Dst(i), outbox \ {f})
        BY <2>3
      <4> HIDE DEF i
      <4>3. \/ /\ HandlersOf(i)' = HandlersOf(i)
               /\ FramesOf(i)' = {g \in outbox \ {f} : g.id = i}
            \/ /\ HandlersOf(i)' = HandlersOf(i)
               /\ FramesOf(i)' = {g \in outbox \ {f} : g.id = i} \cup {Response(i, "503")}
            \/ /\ HandlersOf(i)' = HandlersOf(i) \cup {Dst(i)}
               /\ FramesOf(i)' = {g \in outbox \ {f} : g.id = i}
        BY <1>0, <4>2, Delivery
      <4> QED  BY <1>2, <4>1, <4>3
    <3> QED  BY <2>0, <2>3, <3>1, <3>2
  <2> QED  BY <1>1, <2>1, <2>2, <2>3
<1>5. ASSUME NEW j \in Ids, j # i
      PROVE  CallSound(j)'
  <2>1. route'[j] = route[j] /\ future'[j] = future[j] /\ calls'[j] = calls[j]
    BY <1>0, <1>1, <1>5 DEF CallsTypeOK, Resolve
  <2> QED  BY <1>3, <1>4, <1>5, <2>1, Undisturbed
<1>6. CallSound(i)'
  <2>1. route'[i] # Unset /\ Dst(i)' = Dst(i)
    BY <1>1, <1>2 DEF Dst
  <2>2. future'[i] # "unused" /\ (future' = future => future'[i] \in {"waiting", "gaveup"})
    BY <1>0, <1>1, <1>2 DEF Resolve, CallsTypeOK
  <2>3. OnePlace(i)' /\ Request(i) \notin FramesOf(i)'
    BY <1>4, <2>1, FrameFacts DEF OnePlace, Request, Response
  <2>4. UnusedIsUnknown(i)'
    BY <2>1, <2>2 DEF UnusedIsUnknown
  <2>5. UnreadIsOpen(i)'
    BY <2>3 DEF UnreadIsOpen, Request
  <2>6. AnsweredIsOver(i)'
    BY <1>4, <2>2 DEF AnsweredIsOver, Nowhere
  <2> QED  BY <2>3, <2>4, <2>5, <2>6 DEF CallSound
<1> QED  BY <1>5, <1>6

\* A response is read: it was the last trace of its call.
LEMMA SoundResponse ==
  ASSUME CallsTypeOK, \A j \in Ids : CallSound(j), NEW f \in outbox, RouteResponse(f)
  PROVE  \A j \in Ids : CallSound(j)'
<1> DEFINE i == f.id
<1>0. i \in Ids /\ f = Response(i, f.status) /\ FramesOf(i) = {f}
  BY OutboxFacts DEF RouteResponse
<1>1. /\ UNCHANGED <<route, serving, sweeps>> /\ outbox' = outbox \ {f}
      /\ calls' = PopEntry(i) /\ future' \in {future, Resolve(i, f.status)}
  BY DEF RouteResponse, ToCaller
<1>2. f.status \in {"503", "served"}
  BY OutboxFacts DEF RouteResponse
<1>3. \A j \in Ids : /\ HandlersOf(j)' = HandlersOf(j) /\ (Swept(j)' <=> Swept(j))
                     /\ FramesOf(j)' = IF j = i THEN {} ELSE FramesOf(j)
  BY <1>0, <1>1, FramesMove, HandlersMove, SweepsMove
<1>4. HandlersOf(i) = {} /\ route[i] # Unset /\ future[i] # "unused"
  BY <1>0 DEF CallSound, OnePlace, UnusedIsUnknown, Nowhere
<1>5. ASSUME NEW j \in Ids, j # i
      PROVE  CallSound(j)'
  <2>1. route'[j] = route[j] /\ future'[j] = future[j] /\ calls'[j] = calls[j]
    BY <1>0, <1>1, <1>5 DEF CallsTypeOK, Resolve, PopEntry
  <2> QED  BY <1>3, <1>5, <2>1, Undisturbed
<1>6. CallSound(i)'
  <2>1. Nowhere(i)'
    BY <1>0, <1>3, <1>4 DEF Nowhere
  <2>2. route'[i] # Unset /\ future'[i] # "unused"
    BY <1>0, <1>1, <1>2, <1>4 DEF CallsTypeOK, Resolve
  <2> QED  BY <2>1, <2>2
           DEF CallSound, OnePlace, UnusedIsUnknown, UnreadIsOpen, AnsweredIsOver, Nowhere
<1> QED  BY <1>5, <1>6

\* A handler ends: in its response, or in the answer of a hosted plugin.
LEMMA SoundHandler ==
  ASSUME CallsTypeOK, \A j \in Ids : CallSound(j),
         NEW i \in Ids, NEW p \in Parties,
         (p = Broker /\ HostReply(i)) \/ (p \in Ends /\ Serve(p, i))
  PROVE  \A j \in Ids : CallSound(j)'
<1>1. /\ i \in serving[p] /\ serving' = [serving EXCEPT ![p] = @ \ {i}]
      /\ UNCHANGED <<route, calls, sweeps>>
      /\ \/ outbox' = outbox /\ future' \in {future, Resolve(i, "served")}
         \/ outbox' = outbox \cup {Response(i, "served")} /\ future' = future
  BY DEF HostReply, Serve, ToCaller
<1>2. HandlersOf(i) = {p} /\ FramesOf(i) = {}
  <2>1. p \in HandlersOf(i)
    BY <1>1 DEF HandlersOf
  <2> QED  BY <2>1 DEF CallSound, OnePlace
<1>3. \A j \in Ids : /\ Swept(j)' <=> Swept(j)
                     /\ HandlersOf(j)' = IF j = i THEN HandlersOf(j) \ {p} ELSE HandlersOf(j)
                     /\ j # i => FramesOf(j)' = FramesOf(j)
  <2>1. \A j \in Ids : Swept(j)' <=> Swept(j)
    BY <1>1, SweepsMove
  <2>2. \A j \in Ids : HandlersOf(j)' = IF j = i THEN HandlersOf(j) \ {p} ELSE HandlersOf(j)
    BY <1>1, HandlersMove
  <2>3. ASSUME NEW j \in Ids, j # i
        PROVE  FramesOf(j)' = FramesOf(j)
    <3>1. Response(i, "served").id = i
      BY FrameFacts
    <3> QED  BY <1>1, <2>3, <3>1, FramesMove
  <2> QED  BY <2>1, <2>2, <2>3
<1>4. \/ FramesOf(i)' = {}
      \/ FramesOf(i)' = {Response(i, "served")} /\ future' = future
  BY <1>1, <1>2, FramesMove, FrameFacts
<1>5. route[i] # Unset /\ future[i] \notin {"unused", "served", "502", "503", "raised"}
  BY <1>2 DEF CallSound, UnusedIsUnknown, AnsweredIsOver, Nowhere
<1>6. ASSUME NEW j \in Ids, j # i
      PROVE  CallSound(j)'
  <2>1. route'[j] = route[j] /\ future'[j] = future[j] /\ calls'[j] = calls[j]
    BY <1>1, <1>6 DEF CallsTypeOK, Resolve
  <2> QED  BY <1>3, <1>6, <2>1, Undisturbed
<1>7. CallSound(i)'
  <2>1. HandlersOf(i)' = {}
    BY <1>2, <1>3
  <2>2. route'[i] # Unset /\ future'[i] # "unused"
    BY <1>1, <1>5 DEF CallsTypeOK, Resolve
  <2>3. OnePlace(i)' /\ Request(i) \notin FramesOf(i)'
    BY <1>4, <2>1, FrameFacts DEF OnePlace, Request, Response
  <2>4. AnsweredIsOver(i)'
    BY <1>4, <1>5, <2>1 DEF AnsweredIsOver, Nowhere
  <2> QED  BY <2>2, <2>3, <2>4 DEF CallSound, UnusedIsUnknown, UnreadIsOpen, Request
<1> QED  BY <1>6, <1>7

\* Every step keeps every call sound.
LEMMA SoundStep ==
  ASSUME CallsTypeOK, \A j \in Ids : CallSound(j), CallsNext
  PROVE  \A j \in Ids : CallSound(j)'
<1>1. CASE Network \/ Sweeping
  BY <1>1, SoundQuiet
<1>2. CASE Callers
  BY <1>2, SoundQuiet, SoundCall, SoundBrokerCall DEF Callers
<1>3. CASE Routing
  BY <1>3, SoundRequest, SoundResponse DEF Routing
<1>4. CASE Handlers
  BY <1>4, SoundHandler DEF Handlers
<1> QED  BY <1>1, <1>2, <1>3, <1>4 DEF CallsNext

-----------------------------------------------------------------------------
(* The caps. *)

\* The part of the caps that the in-flight table decides.
TableCaps == /\ IsFiniteSet(InFlight) /\ \A i \in InFlight : Dst(i) \in Ends
             /\ Cardinality(Own) <= CallCap /\ Cardinality(Forwarded) <= ForwardCap

\* The part that an endpoint's admission decides.
HandlerCaps == \A n \in Ends : IsFiniteSet(serving[n]) /\ Cardinality(serving[n]) <= ReqCap

\* Entries that leave the table free their place.
LEMMA EntriesLeaveCaps ==
  ASSUME TableCaps, InFlight' \subseteq InFlight, \A i \in InFlight' : route'[i] = route[i]
  PROVE  TableCaps'
<1>1. Own' \subseteq Own /\ Forwarded' \subseteq Forwarded
  BY DEF Own, Forwarded, Src
<1>2. IsFiniteSet(Own) /\ IsFiniteSet(Forwarded)
  BY FS_Subset DEF TableCaps, Own, Forwarded
<1>3. Cardinality(Own') <= Cardinality(Own) /\ Cardinality(Forwarded') <= Cardinality(Forwarded)
  BY <1>1, <1>2, FS_Subset
<1>4. /\ Cardinality(Own) \in Nat /\ Cardinality(Own') \in Nat
      /\ Cardinality(Forwarded) \in Nat /\ Cardinality(Forwarded') \in Nat
  BY <1>1, <1>2, FS_Subset, FS_CardinalityType
<1>5. IsFiniteSet(InFlight')
  BY FS_Subset DEF TableCaps
<1>6. \A i \in InFlight' : Dst(i)' \in Ends
  BY DEF TableCaps, Dst
<1> QED  BY <1>3, <1>4, <1>5, <1>6, CapsAssumption DEF TableCaps

\* An entry is added only below the cap that counts it.
LEMMA EntryEntersCaps ==
  ASSUME TableCaps, NEW i, i \notin InFlight, InFlight' = InFlight \cup {i},
         \A j \in InFlight : route'[j] = route[j], route'[i].dst \in Ends,
         \/ route'[i].src = Broker /\ ~OwnAtCap
         \/ route'[i].src # Broker /\ ~TableAtCap
  PROVE  TableCaps'
<1>0. \A j \in InFlight : Src(j)' = Src(j)
  BY DEF Src
<1>1. /\ Own' = IF route'[i].src = Broker THEN Own \cup {i} ELSE Own
      /\ Forwarded' = IF route'[i].src = Broker THEN Forwarded ELSE Forwarded \cup {i}
  <2>1. Forwarded' = IF route'[i].src = Broker THEN Forwarded ELSE Forwarded \cup {i}
    BY <1>0 DEF Forwarded, Src
  <2> QED  BY <2>1 DEF Own, Forwarded
<1>2. /\ IsFiniteSet(InFlight) /\ IsFiniteSet(Own) /\ IsFiniteSet(Forwarded)
      /\ Forwarded \subseteq InFlight /\ i \notin Own /\ i \notin Forwarded
  BY FS_Subset DEF TableCaps, Own, Forwarded
<1>3. /\ IsFiniteSet(InFlight') /\ Cardinality(Own \cup {i}) = Cardinality(Own) + 1
      /\ Cardinality(Forwarded \cup {i}) = Cardinality(Forwarded) + 1
      /\ Cardinality(Forwarded) <= Cardinality(InFlight)
  BY <1>2, FS_AddElement, FS_Subset
<1>4. Cardinality(Own) \in Nat /\ Cardinality(Forwarded) \in Nat /\ Cardinality(InFlight) \in Nat
  BY <1>2, FS_CardinalityType
<1>5. Cardinality(Own') <= CallCap /\ Cardinality(Forwarded') <= ForwardCap
  <2>1. CASE route'[i].src = Broker
    BY <1>1, <1>3, <1>4, <2>1, CapsAssumption DEF TableCaps, OwnAtCap
  <2>2. CASE route'[i].src # Broker
    BY <1>1, <1>3, <1>4, <2>2, CapsAssumption DEF TableCaps, TableAtCap
  <2> QED  BY <2>1, <2>2
<1>6. \A j \in InFlight' : Dst(j)' \in Ends
  BY DEF TableCaps, Dst
<1> QED  BY <1>3, <1>5, <1>6 DEF TableCaps

\* A step at an endpoint ends handlers, or begins one below its cap.
Admits(n) == \/ serving'[n] \subseteq serving[n]
             \/ ~ServingAtCap(n) /\ \E i : serving'[n] = serving[n] \cup {i}

\* Handlers begin only below the cap of their endpoint.
LEMMA HandlerCapsStep ==
  ASSUME CallsTypeOK, HandlerCaps, \A n \in Ends : Admits(n)
  PROVE  HandlerCaps'
<1> SUFFICES ASSUME NEW n \in Ends
             PROVE  IsFiniteSet(serving'[n]) /\ Cardinality(serving'[n]) <= ReqCap
  BY DEF HandlerCaps
<1>1. IsFiniteSet(serving[n]) /\ Cardinality(serving[n]) <= ReqCap /\ Cardinality(serving[n]) \in Nat
  BY FS_CardinalityType DEF HandlerCaps
<1>2. CASE serving'[n] \subseteq serving[n]
  <2>1. /\ IsFiniteSet(serving'[n]) /\ Cardinality(serving'[n]) <= Cardinality(serving[n])
        /\ Cardinality(serving'[n]) \in Nat
    BY <1>1, <1>2, FS_Subset, FS_CardinalityType
  <2> QED  BY <1>1, <2>1, CapsAssumption
<1>3. ASSUME NEW i, ~ServingAtCap(n), serving'[n] = serving[n] \cup {i}
      PROVE  IsFiniteSet(serving'[n]) /\ Cardinality(serving'[n]) <= ReqCap
  <2> DEFINE S == serving[n]
  <2> HIDE DEF S
  <2>1. /\ IsFiniteSet(S \cup {i})
        /\ Cardinality(S \cup {i}) = IF i \in S THEN Cardinality(S) ELSE Cardinality(S) + 1
    BY <1>1, FS_AddElement DEF S
  <2>2. serving'[n] = S \cup {i} /\ Cardinality(S) \in Nat /\ ~(Cardinality(S) >= ReqCap)
    BY <1>1, <1>3 DEF S, ServingAtCap
  <2> QED  BY <2>1, <2>2, CapsAssumption
<1> QED  BY <1>2, <1>3 DEF Admits

\* Every step keeps the caps.
LEMMA CapsStep ==
  ASSUME CallsTypeOK, CallsTypeOK', \A i \in Ids : CallSound(i), TableCaps, HandlerCaps, CallsNext
  PROVE  TableCaps' /\ HandlerCaps'
<1>0. /\ serving \in [Parties -> SUBSET Ids] /\ calls \in [Ids -> {"none", "open", "due"}]
      /\ route \in [Ids -> [src: Parties, dst: Parties] \cup {Unset}]
  BY DEF CallsTypeOK
<1>1. ASSUME UNCHANGED <<route, calls>>
      PROVE  TableCaps'
  BY <1>1, EntriesLeaveCaps DEF InFlight
<1>2. ASSUME UNCHANGED serving
      PROVE  HandlerCaps'
  BY <1>2 DEF HandlerCaps
<1>3. ASSUME NEW i \in Ids, calls' = PopEntry(i), UNCHANGED route
      PROVE  TableCaps'
  <2>1. InFlight' \subseteq InFlight
    BY <1>0, <1>3 DEF InFlight, PopEntry
  <2> QED  BY <1>3, <2>1, EntriesLeaveCaps
<1>4. ASSUME NEW i \in Ids, NEW d \in Ends, NEW box, ToCallee(i, d, box)
      PROVE  HandlerCaps'
  <2>1. \A n \in Ends : Admits(n)
    BY <1>0, <1>4 DEF ToCallee, Admits
  <2> QED  BY <2>1, HandlerCapsStep
<1>5. ASSUME NEW i \in Ids, NEW p \in Parties, serving' = [serving EXCEPT ![p] = @ \ {i}]
      PROVE  HandlerCaps'
  <2>1. \A n \in Ends : Admits(n)
    BY <1>0, <1>5 DEF Admits
  <2> QED  BY <2>1, HandlerCapsStep
<1>6. CASE Network
  BY <1>1, <1>2, <1>6 DEF Network, Connect, Drop, Leave, Lost
<1>7. ASSUME NEW i \in Ids, NEW s \in Ends, NEW d \in Parties, Call(i, s, d)
      PROVE  TableCaps' /\ HandlerCaps'
  <2>1. calls[i] = "none"
    BY <1>7 DEF Call, CallSound, UnusedIsUnknown
  <2>2. InFlight' = InFlight /\ \A j \in InFlight' : route'[j] = route[j]
    BY <1>0, <1>7, <2>1 DEF Call, InFlight
  <2>3. TableCaps'
    BY <2>2, EntriesLeaveCaps
  <2> QED  BY <1>2, <1>7, <2>3 DEF Call
<1>8. ASSUME NEW i \in Ids, NEW d \in Ends, BrokerCall(i, d)
      PROVE  TableCaps' /\ HandlerCaps'
  <2>1. /\ i \notin InFlight /\ route'[i] = [src |-> Broker, dst |-> d]
        /\ \A j \in Ids : j # i => route'[j] = route[j]
    BY <1>0, <1>8 DEF BrokerCall, CallSound, UnusedIsUnknown, InFlight
  <2>2. CASE UNCHANGED <<calls, outbox, serving>>
    <3>1. InFlight' = InFlight
      BY <2>2 DEF InFlight
    <3>2. \A j \in InFlight' : route'[j] = route[j]
      BY <2>1, <3>1 DEF InFlight
    <3> QED  BY <1>2, <2>2, <3>1, <3>2, EntriesLeaveCaps
  <2>3. CASE ~OwnAtCap /\ calls' = [calls EXCEPT ![i] = "open"] /\ ToCallee(i, d, outbox)
    <3>1. InFlight' = InFlight \cup {i}
      BY <1>0, <2>3 DEF InFlight
    <3>2. \A j \in InFlight : route'[j] = route[j]
      BY <2>1 DEF InFlight
    <3>3. route'[i].src = Broker /\ route'[i].dst \in Ends
      BY <2>1
    <3>4. TableCaps'
      BY <2>1, <2>3, <3>1, <3>2, <3>3, EntryEntersCaps
    <3> QED  BY <1>4, <2>3, <3>4
  <2> QED  BY <1>8, <2>2, <2>3 DEF BrokerCall
<1>9. ASSUME NEW i \in Ids, GiveUp(i) \/ CancelCall(i)
      PROVE  TableCaps' /\ HandlerCaps'
  BY <1>1, <1>2, <1>3, <1>9 DEF GiveUp, CancelCall
<1>10. ASSUME NEW f \in outbox, RouteRequest(f)
       PROVE  TableCaps' /\ HandlerCaps'
  <2>1. f.id \in Ids /\ f = Request(f.id) /\ FramesOf(f.id) = {f}
    BY <1>10, OutboxFacts DEF RouteRequest
  <2>2. calls[f.id] = "none" /\ Src(f.id) \in Ends
    BY <2>1 DEF CallSound, UnreadIsOpen
  <2>3. CASE Dst(f.id) = Broker
    <3>1. UNCHANGED <<route, calls>> /\ serving' = [serving EXCEPT ![Broker] = @ \cup {f.id}]
      BY <1>10, <2>3 DEF RouteRequest, known
    <3>2. \A n \in Ends : Admits(n)
      BY <1>0, <3>1 DEF Admits
    <3> QED  BY <1>1, <3>1, <3>2, HandlerCapsStep
  <2>4. CASE UNCHANGED <<calls, serving>>
    BY <1>1, <1>2, <1>10, <2>4 DEF RouteRequest
  <2>5. CASE /\ Dst(f.id) \in Ends /\ ~TableAtCap /\ calls' = [calls EXCEPT ![f.id] = "open"]
             /\ ToCallee(f.id, Dst(f.id), outbox \ {f})
    <3>1. f.id \notin InFlight /\ InFlight' = InFlight \cup {f.id}
      BY <1>0, <2>1, <2>2, <2>5 DEF InFlight
    <3>2. UNCHANGED route
      BY <1>10 DEF RouteRequest
    <3>3. route'[f.id].dst \in Ends /\ route'[f.id].src # Broker
      BY <2>2, <2>5, <3>2 DEF Src, Dst
    <3>4. TableCaps'
      BY <2>5, <3>1, <3>2, <3>3, EntryEntersCaps
    <3> QED  BY <1>4, <2>1, <2>5, <3>4
  <2> QED  BY <1>10, <2>3, <2>4, <2>5 DEF RouteRequest, known
<1>11. ASSUME NEW f \in outbox, RouteResponse(f)
       PROVE  TableCaps' /\ HandlerCaps'
  BY <1>2, <1>3, <1>11, OutboxFacts DEF RouteResponse
<1>12. ASSUME NEW i \in Ids, HostReply(i)
       PROVE  TableCaps' /\ HandlerCaps'
  BY <1>1, <1>5, <1>12 DEF HostReply
<1>13. ASSUME NEW i \in Ids, NEW n \in Ends, Serve(n, i)
       PROVE  TableCaps' /\ HandlerCaps'
  BY <1>1, <1>5, <1>13 DEF Serve
<1>14. ASSUME NEW i \in Ids, Expire(i)
       PROVE  TableCaps' /\ HandlerCaps'
  <2>1. InFlight' = InFlight
    BY <1>0, <1>14 DEF Expire, InFlight
  <2> QED  BY <1>2, <1>14, <2>1, EntriesLeaveCaps DEF Expire
<1>15. CASE Reap
  BY <1>1, <1>2, <1>15 DEF Reap
<1>16. ASSUME NEW w \in sweeps, NEW i \in w.todo, SweepEntry(w, i)
       PROVE  TableCaps' /\ HandlerCaps'
  <2>1. i \in Ids
    BY DEF CallsTypeOK, Sweep
  <2> QED  BY <1>2, <1>3, <1>16, <2>1 DEF SweepEntry
<1> QED  BY <1>6, <1>7, <1>8, <1>9, <1>10, <1>11, <1>12, <1>13, <1>14, <1>15, <1>16
         DEF CallsNext, Callers, Routing, Handlers, Sweeping

-----------------------------------------------------------------------------
(* Entries are open calls, and those to a lost participant are swept. *)

\* Whatever settles a call takes its entry along.
LEMMA EntriesStep ==
  ASSUME CallsTypeOK, \A i \in Ids : CallSound(i), TableCaps, EntriesAreOpen, CallsNext
  PROVE  EntriesAreOpen'
<1> SUFFICES ASSUME NEW j \in Ids, calls'[j] # "none"
             PROVE  future'[j] \in {"waiting", "gaveup"}
  BY DEF EntriesAreOpen, InFlight
<1>0. /\ calls \in [Ids -> {"none", "open", "due"}] /\ CallSound(j)
      /\ future \in [Ids -> {"unused", "waiting", "gaveup", "raised"} \cup Outcome]
  BY DEF CallsTypeOK
<1>1. calls[j] # "none" => future[j] \in {"waiting", "gaveup"}
  BY DEF EntriesAreOpen, InFlight
<1>2. ASSUME UNCHANGED <<calls, future>>
      PROVE  future'[j] \in {"waiting", "gaveup"}
  BY <1>1, <1>2
<1>3. ASSUME NEW i \in Ids, NEW st \in Outcome, calls' = PopEntry(i),
             future' \in {future, Resolve(i, st)}
      PROVE  future'[j] \in {"waiting", "gaveup"}
  BY <1>0, <1>1, <1>3 DEF PopEntry, Resolve
<1>4. CASE Network \/ Reap
  BY <1>2, <1>4 DEF Network, Connect, Drop, Leave, Lost, Reap
<1>5. ASSUME NEW i \in Ids, NEW s \in Ends, NEW d \in Parties, Call(i, s, d)
      PROVE  future'[j] \in {"waiting", "gaveup"}
  BY <1>0, <1>1, <1>5 DEF Call
<1>6. ASSUME NEW i \in Ids, NEW d \in Ends, BrokerCall(i, d)
      PROVE  future'[j] \in {"waiting", "gaveup"}
  BY <1>0, <1>1, <1>6 DEF BrokerCall
<1>7. ASSUME NEW i \in Ids, GiveUp(i) \/ CancelCall(i)
      PROVE  future'[j] \in {"waiting", "gaveup"}
  BY <1>0, <1>1, <1>7 DEF GiveUp, CancelCall, PopEntry
<1>8. ASSUME NEW f \in outbox, RouteRequest(f)
      PROVE  future'[j] \in {"waiting", "gaveup"}
  <2>1. f.id \in Ids /\ f = Request(f.id) /\ FramesOf(f.id) = {f}
    BY <1>8, OutboxFacts DEF RouteRequest
  <2>2. calls[f.id] = "none" /\ future[f.id] \in {"waiting", "gaveup"}
    BY <2>1 DEF CallSound, UnreadIsOpen
  <2>3. CASE UNCHANGED future
    BY <1>0, <1>1, <1>8, <2>1, <2>2, <2>3 DEF RouteRequest
  <2>4. CASE UNCHANGED calls /\ future' \in {future, Resolve(f.id, "502"), Resolve(f.id, "503")}
    BY <1>0, <1>1, <2>1, <2>2, <2>4 DEF Resolve
  <2> QED  BY <1>8, <2>3, <2>4 DEF RouteRequest, ToCaller
<1>9. ASSUME NEW f \in outbox, RouteResponse(f)
      PROVE  future'[j] \in {"waiting", "gaveup"}
  <2>1. f.id \in Ids /\ f.status \in Outcome
    BY <1>9, OutboxFacts DEF RouteResponse, Outcome
  <2> QED  BY <1>3, <1>9, <2>1 DEF RouteResponse, ToCaller
<1>10. ASSUME NEW i \in Ids, HostReply(i)
       PROVE  future'[j] \in {"waiting", "gaveup"}
  <2>1. HandlersOf(i) = {Dst(i)} /\ Broker \in HandlersOf(i)
    BY <1>10 DEF HostReply, HandlersOf, CallSound, OnePlace
  <2>2. i \notin InFlight
    BY <2>1 DEF TableCaps
  <2> QED  BY <1>0, <1>1, <1>10, <2>2 DEF HostReply, ToCaller, Resolve, InFlight
<1>11. ASSUME NEW i \in Ids, NEW n \in Ends, Serve(n, i)
       PROVE  future'[j] \in {"waiting", "gaveup"}
  BY <1>2, <1>11 DEF Serve
<1>12. ASSUME NEW i \in Ids, Expire(i)
       PROVE  future'[j] \in {"waiting", "gaveup"}
  BY <1>0, <1>1, <1>12 DEF Expire
<1>13. ASSUME NEW w \in sweeps, NEW i \in w.todo, SweepEntry(w, i)
       PROVE  future'[j] \in {"waiting", "gaveup"}
  <2>1. i \in Ids /\ "504" \in Outcome
    BY DEF CallsTypeOK, Sweep, Outcome
  <2> QED  BY <1>3, <1>13, <2>1 DEF SweepEntry, FailCall, ToCaller
<1> QED  BY <1>4, <1>5, <1>6, <1>7, <1>8, <1>9, <1>10, <1>11, <1>12, <1>13
         DEF CallsNext, Callers, Routing, Handlers, Sweeping

\* A sweep over the calls of a lost participant begins with its removal, and
\* no call to it enters the table after that.
LEMMA LostStep ==
  ASSUME CallsTypeOK, CallsTypeOK', \A i \in Ids : CallSound(i), TableCaps, TableCaps', LostFailsFast, CallsNext
  PROVE  LostFailsFast'
<1> SUFFICES ASSUME NEW j \in Ids, calls'[j] # "none", peer'[Dst(j)'] = "lost"
             PROVE  \E w \in sweeps' : w.name = Dst(j)' /\ j \in w.todo
  BY DEF LostFailsFast, InFlight
<1>0. /\ calls \in [Ids -> {"none", "open", "due"}] /\ CallSound(j)
      /\ route \in [Ids -> [src: Parties, dst: Parties] \cup {Unset}]
      /\ peer \in [Ends -> {"up", "suspect", "gone", "lost"}]
      /\ Dst(j)' \in Ends
  BY DEF CallsTypeOK, TableCaps, InFlight
<1>1. calls[j] # "none" /\ peer[Dst(j)] = "lost" => \E w \in sweeps : w.name = Dst(j) /\ j \in w.todo
  BY DEF LostFailsFast, InFlight
<1>2. ASSUME UNCHANGED <<peer, route, sweeps>>, calls'[j] # "none" => calls[j] # "none"
      PROVE  \E w \in sweeps' : w.name = Dst(j)' /\ j \in w.todo
  BY <1>1, <1>2 DEF Dst
<1>3. ASSUME NEW n \in Ends, Connect(n) \/ Drop(n) \/ Leave(n)
      PROVE  \E w \in sweeps' : w.name = Dst(j)' /\ j \in w.todo
  <2>1. peer[Dst(j)] = "lost" /\ calls' = calls /\ sweeps' = sweeps /\ Dst(j)' = Dst(j)
    BY <1>0, <1>3 DEF Connect, Drop, Leave, Dst
  <2> QED  BY <1>1, <2>1
<1>4. ASSUME NEW n \in Ends, Lost(n)
      PROVE  \E w \in sweeps' : w.name = Dst(j)' /\ j \in w.todo
  <2>1. /\ calls' = calls /\ Dst(j)' = Dst(j) /\ Dst(j) \in Ends
        /\ sweeps' = WithSweep(sweeps, Touching(n), n)
        /\ peer' = [peer EXCEPT ![n] = "lost"]
    BY <1>0, <1>4 DEF Lost, Dst
  <2>2. CASE Dst(j) = n
    <3>1. j \in Touching(n)
      BY <2>1, <2>2 DEF Touching, InFlight
    <3>2. [todo |-> Touching(n), name |-> n] \in sweeps'
      BY <2>1, <3>1 DEF WithSweep
    <3> QED  BY <2>1, <2>2, <3>1, <3>2
  <2>3. CASE Dst(j) # n
    BY <1>0, <1>1, <2>1, <2>3 DEF WithSweep
  <2> QED  BY <2>2, <2>3
<1>5. ASSUME NEW i \in Ids, NEW s \in Ends, NEW d \in Parties, Call(i, s, d)
      PROVE  \E w \in sweeps' : w.name = Dst(j)' /\ j \in w.todo
  <2>1. calls[i] = "none"
    BY <1>5 DEF Call, CallSound, UnusedIsUnknown
  <2> QED  BY <1>0, <1>1, <1>5, <2>1 DEF Call, Dst
<1>6. ASSUME NEW i \in Ids, NEW d \in Ends, BrokerCall(i, d)
      PROVE  \E w \in sweeps' : w.name = Dst(j)' /\ j \in w.todo
  <2>1. calls[i] = "none"
    BY <1>6 DEF BrokerCall, CallSound, UnusedIsUnknown
  <2>2. j # i
    BY <1>0, <1>6, <2>1 DEF BrokerCall, Dst, known
  <2> QED  BY <1>0, <1>1, <1>6, <2>2 DEF BrokerCall, Dst
<1>7. ASSUME NEW i \in Ids, GiveUp(i) \/ CancelCall(i)
      PROVE  \E w \in sweeps' : w.name = Dst(j)' /\ j \in w.todo
  BY <1>0, <1>2, <1>7 DEF GiveUp, CancelCall, PopEntry
<1>8. ASSUME NEW f \in outbox, RouteRequest(f)
      PROVE  \E w \in sweeps' : w.name = Dst(j)' /\ j \in w.todo
  <2>1. f.id \in Ids
    BY DEF CallsTypeOK, Frame
  <2>2. UNCHANGED <<peer, route, sweeps>> /\ Dst(j)' = Dst(j)
    BY <1>8 DEF RouteRequest, Dst
  <2>3. CASE calls' = [calls EXCEPT ![f.id] = "open"] /\ Dst(f.id) \in known
    <3>1. j # f.id
      BY <2>2, <2>3 DEF known
    <3> QED  BY <1>0, <1>1, <2>2, <2>3, <3>1
  <2>4. CASE UNCHANGED calls
    BY <1>2, <2>2, <2>4
  <2> QED  BY <1>8, <2>3, <2>4 DEF RouteRequest
<1>9. ASSUME NEW f \in outbox, RouteResponse(f)
      PROVE  \E w \in sweeps' : w.name = Dst(j)' /\ j \in w.todo
  <2>1. f.id \in Ids
    BY DEF CallsTypeOK, Frame
  <2> QED  BY <1>0, <1>2, <1>9, <2>1 DEF RouteResponse, PopEntry
<1>10. ASSUME NEW i \in Ids, HostReply(i) \/ \E n \in Ends : Serve(n, i)
       PROVE  \E w \in sweeps' : w.name = Dst(j)' /\ j \in w.todo
  BY <1>2, <1>10 DEF HostReply, Serve
<1>11. ASSUME NEW i \in Ids, Expire(i)
       PROVE  \E w \in sweeps' : w.name = Dst(j)' /\ j \in w.todo
  BY <1>0, <1>2, <1>11 DEF Expire
<1>12. ASSUME Reap
       PROVE  \E w \in sweeps' : w.name = Dst(j)' /\ j \in w.todo
  <2>1. UNCHANGED <<peer, route, calls>> /\ sweeps \subseteq sweeps'
    BY <1>12 DEF Reap, WithSweep
  <2> QED  BY <1>1, <2>1 DEF Dst
<1>13. ASSUME NEW v \in sweeps, NEW i \in v.todo, SweepEntry(v, i)
       PROVE  \E w \in sweeps' : w.name = Dst(j)' /\ j \in w.todo
  <2>1. /\ i \in Ids /\ calls' = PopEntry(i) /\ Dst(j)' = Dst(j) /\ peer' = peer
        /\ sweeps' = WithSweep(sweeps \ {v}, v.todo \ {i}, v.name)
    BY <1>13 DEF SweepEntry, CallsTypeOK, Sweep, Dst
  <2>2. j # i /\ calls[j] # "none"
    BY <1>0, <2>1 DEF PopEntry
  <2>3. PICK w \in sweeps : w.name = Dst(j) /\ j \in w.todo
    BY <1>1, <2>1, <2>2
  <2>4. CASE w # v
    BY <2>1, <2>3, <2>4 DEF WithSweep
  <2>5. CASE w = v
    <3>1. [todo |-> v.todo \ {i}, name |-> v.name] \in sweeps'
      BY <2>1, <2>2, <2>3, <2>5 DEF WithSweep
    <3> QED  BY <2>1, <2>2, <2>3, <2>5, <3>1
  <2> QED  BY <2>4, <2>5
<1> QED  BY <1>3, <1>4, <1>5, <1>6, <1>7, <1>8, <1>9, <1>10, <1>11, <1>12, <1>13
         DEF CallsNext, Network, Callers, Routing, Handlers, Sweeping

-----------------------------------------------------------------------------
(* The theorems. *)

\* CallsInv holds in every state of every behaviour.
LEMMA CallsInductive == CallsSpec => []CallsInv
<1>1. CallsInit => CallsInv
  <2> SUFFICES ASSUME CallsInit
               PROVE  CallsInv
    OBVIOUS
  <2>1. CallsTypeOK
    BY DEF CallsInit, CallsTypeOK
  <2>2. ASSUME NEW i \in Ids
        PROVE  CallSound(i)
    <3>1. FramesOf(i) = {} /\ HandlersOf(i) = {} /\ ~Swept(i)
      BY DEF CallsInit, FramesOf, HandlersOf, Swept
    <3> QED  BY <3>1 DEF CallsInit, CallSound, OnePlace, UnusedIsUnknown, UnreadIsOpen,
                  AnsweredIsOver, Nowhere
  <2>3. InFlight = {} /\ Own = {} /\ Forwarded = {} /\ \A n \in Ends : serving[n] = {}
    BY DEF CallsInit, InFlight, Own, Forwarded
  <2> QED  BY <2>1, <2>2, <2>3, FS_EmptySet, CapsAssumption
           DEF CallsInv, TableSound, EntriesAreOpen, WithinCaps, LostFailsFast
<1>2. CallsInv /\ [CallsNext]_callsVars => CallsInv'
  <2> SUFFICES ASSUME CallsInv, [CallsNext]_callsVars
               PROVE  CallsInv'
    OBVIOUS
  <2>0. /\ CallsTypeOK /\ \A i \in Ids : CallSound(i)
        /\ TableSound /\ EntriesAreOpen /\ WithinCaps /\ LostFailsFast
    BY DEF CallsInv
  <2>1. CASE CallsNext
    <3>1. CallsTypeOK'
      BY <2>0, <2>1, TypeStep
    <3>2. \A i \in Ids : CallSound(i)'
      BY <2>0, <2>1, SoundStep
    <3>3. TableCaps /\ HandlerCaps
      BY <2>0 DEF TableSound, WithinCaps, TableCaps, HandlerCaps
    <3>4. TableCaps' /\ HandlerCaps'
      BY <2>0, <2>1, <3>1, <3>3, CapsStep
    <3>5. TableSound' /\ WithinCaps'
      BY <3>4 DEF TableSound, WithinCaps, TableCaps, HandlerCaps
    <3>6. EntriesAreOpen'
      BY <2>0, <2>1, <3>3, EntriesStep
    <3>7. LostFailsFast'
      BY <2>0, <2>1, <3>1, <3>3, <3>4, LostStep
    <3> QED  BY <3>1, <3>2, <3>5, <3>6, <3>7 DEF CallsInv
  <2>2. CASE UNCHANGED callsVars
    <3>1. UNCHANGED <<peer, route, calls, future, outbox, serving, sweeps>>
      BY <2>2 DEF callsVars
    <3>2. CallsTypeOK' /\ EntriesAreOpen' /\ LostFailsFast'
      BY <2>0, <3>1 DEF CallsTypeOK, EntriesAreOpen, LostFailsFast, InFlight, Dst
    <3>3. ASSUME NEW i \in Ids
          PROVE  CallSound(i)'
      <4>1. FramesOf(i)' = FramesOf(i) /\ HandlersOf(i)' = HandlersOf(i) /\ (Swept(i)' <=> Swept(i))
        BY <3>1 DEF FramesOf, HandlersOf, Swept
      <4> QED  BY <2>0, <3>1, <4>1, Undisturbed
    <3>4. TableSound' /\ WithinCaps'
      BY <2>0, <3>1 DEF TableSound, WithinCaps, InFlight, Own, Forwarded, Src, Dst
    <3> QED  BY <3>2, <3>3, <3>4 DEF CallsInv
  <2> QED  BY <2>1, <2>2
<1> QED  BY <1>1, <1>2, PTL DEF CallsSpec

\* An entry of the in-flight table is an open call, and the tables keep
\* their shape: whatever settles a call (an answer routed by _route_response,
\* a sweep's _fail_call, the timeout of _broker_call) takes its entry along.
THEOREM EntriesAreSound == CallsSpec => []EntriesSound
<1>1. CallsInv => EntriesSound
  BY DEF CallsInv, EntriesSound
<1> QED  BY <1>1, CallsInductive, PTL

\* The broker's own calls, the forwarded ones and each endpoint's handlers
\* stay within their caps (_route_request, _broker_call, _admit_request).
THEOREM CapsHold == CallsSpec => []WithinCaps
<1>1. CallsInv => WithinCaps
  BY DEF CallsInv
<1> QED  BY <1>1, CallsInductive, PTL

\* Every call to a participant that was declared lost is in a sweep that
\* _fail_inflight_for still walks.
THEOREM LostCallsFail == CallsSpec => []LostFailsFast
<1>1. CallsInv => LostFailsFast
  BY DEF CallsInv
<1> QED  BY <1>1, CallsInductive, PTL

\* An outcome is final: only an unused or a waiting future changes.
LEMMA OutcomeStep ==
  ASSUME CallsInv, CallsNext
  PROVE  OutcomeKept
<1> SUFFICES ASSUME NEW j \in Ids, future[j] \notin {"unused", "waiting"}
             PROVE  future'[j] = future[j]
  BY DEF OutcomeKept
<1>0. /\ future \in [Ids -> {"unused", "waiting", "gaveup", "raised"} \cup Outcome]
      /\ CallsTypeOK /\ \A i \in Ids : CallSound(i)
  BY DEF CallsInv, CallsTypeOK
<1>1. ASSUME NEW i \in Ids, NEW st, future' = Resolve(i, st)
      PROVE  future'[j] = future[j]
  BY <1>0, <1>1 DEF Resolve
<1>2. ASSUME NEW i \in Ids, NEW st, future[i] \in {"unused", "waiting"},
             future' = [future EXCEPT ![i] = st]
      PROVE  future'[j] = future[j]
  BY <1>0, <1>2
<1>3. CASE Network \/ Reap \/ \E i \in Ids : Expire(i) \/ \E n \in Ends : Serve(n, i)
  BY <1>3 DEF Network, Connect, Drop, Leave, Lost, Reap, Expire, Serve
<1>4. CASE Callers
  BY <1>2, <1>4 DEF Callers, Call, BrokerCall, GiveUp, CancelCall
<1>5. ASSUME NEW f \in outbox, RouteRequest(f) \/ RouteResponse(f)
      PROVE  future'[j] = future[j]
  BY <1>0, <1>1, <1>5, OutboxFacts DEF RouteRequest, RouteResponse, ToCaller
<1>6. ASSUME NEW i \in Ids, HostReply(i)
      PROVE  future'[j] = future[j]
  BY <1>1, <1>6 DEF HostReply, ToCaller
<1>7. ASSUME NEW w \in sweeps, NEW i \in w.todo, SweepEntry(w, i)
      PROVE  future'[j] = future[j]
  <2>1. i \in Ids
    BY <1>0 DEF CallsTypeOK, Sweep
  <2> QED  BY <1>1, <1>7, <2>1 DEF SweepEntry, FailCall, ToCaller
<1> QED  BY <1>3, <1>4, <1>5, <1>6, <1>7 DEF CallsNext, Routing, Handlers, Sweeping

\* The outcome that a caller has learnt never changes, whatever answers,
\* sweeps and timeouts follow (_resolve_response, _broker_call, _fail_call).
THEOREM OutcomesAreStable == CallsSpec => OutcomeStable
<1>1. CallsInv /\ [CallsNext]_callsVars => [OutcomeKept]_callsVars
  BY OutcomeStep
<1> QED  BY <1>1, CallsInductive, PTL DEF CallsSpec, OutcomeStable

-----------------------------------------------------------------------------
(* The refinement: every step is one of CallService or none. *)

\* The three frames of a call are told apart.
LEMMA FramesDiffer ==
  ASSUME NEW i
  PROVE  /\ {Request(i)} # {Response(i, "503")} /\ {Request(i)} # {Response(i, "served")}
         /\ {Response(i, "503")} # {Response(i, "served")}
         /\ {Request(i)} # {} /\ {Response(i, "503")} # {} /\ {Response(i, "served")} # {}
<1> DEFINE a == Request(i)
           b == Response(i, "503")
           c == Response(i, "served")
<1>1. a # b /\ a # c
  BY FrameFacts
<1>2. b.status # c.status
  BY FrameFacts
<1>3. b # c
  BY <1>2
<1> HIDE DEF a, b, c
<1>4. {a} # {b} /\ {a} # {c} /\ {b} # {c} /\ {a} # {} /\ {b} # {} /\ {c} # {}
  BY <1>1, <1>3
<1> QED  BY <1>4 DEF a, b, c

\* The stage of a call, from the one place where it is.
LEMMA StageIs ==
  ASSUME NEW i \in Ids, CallSound(i)
  PROVE  /\ route[i] = Unset => StageOf(i) = "none"
         /\ FramesOf(i) = {Request(i)} => StageOf(i) = "offered"
         /\ HandlersOf(i) # {} => StageOf(i) = "running"
         /\ FramesOf(i) = {Response(i, "503")} => StageOf(i) = "refused"
         /\ FramesOf(i) = {Response(i, "served")} => StageOf(i) = "finished"
         /\ route[i] # Unset /\ Nowhere(i) =>
              StageOf(i) = IF future[i] = "served" THEN "delivered" ELSE "dropped"
<1>1. /\ {Request(i)} # {Response(i, "503")} /\ {Request(i)} # {Response(i, "served")}
      /\ {Response(i, "503")} # {Response(i, "served")}
      /\ {Request(i)} # {} /\ {Response(i, "503")} # {} /\ {Response(i, "served")} # {}
  BY FramesDiffer
<1> QED  BY <1>1 DEF StageOf, CallSound, OnePlace, UnusedIsUnknown, Nowhere

\* The same after the step.
LEMMA StageIsNext ==
  ASSUME NEW i \in Ids, CallSound(i)'
  PROVE  /\ route'[i] = Unset => StageOf(i)' = "none"
         /\ FramesOf(i)' = {Request(i)} => StageOf(i)' = "offered"
         /\ HandlersOf(i)' # {} => StageOf(i)' = "running"
         /\ FramesOf(i)' = {Response(i, "503")} => StageOf(i)' = "refused"
         /\ FramesOf(i)' = {Response(i, "served")} => StageOf(i)' = "finished"
         /\ route'[i] # Unset /\ Nowhere(i)' =>
              StageOf(i)' = IF future'[i] = "served" THEN "delivered" ELSE "dropped"
<1>1. /\ {Request(i)} # {Response(i, "503")} /\ {Request(i)} # {Response(i, "served")}
      /\ {Response(i, "503")} # {Response(i, "served")}
      /\ {Request(i)} # {} /\ {Response(i, "503")} # {} /\ {Response(i, "served")} # {}
  BY FramesDiffer
<1> QED  BY <1>1 DEF StageOf, CallSound, OnePlace, UnusedIsUnknown, Nowhere, Request, Response

\* A call whose traces stay, and whose future does not become a result,
\* keeps its stage.
LEMMA SameStage ==
  ASSUME NEW j \in Ids, route'[j] = route[j], FramesOf(j)' = FramesOf(j),
         HandlersOf(j)' = HandlersOf(j), future'[j] = "served" <=> future[j] = "served"
  PROVE  StageOf(j)' = StageOf(j)
BY DEF StageOf, Nowhere, Request, Response

\* A step that moves one call moves the abstract one.
LEMMA StageMoves ==
  ASSUME NEW i \in Ids, \A j \in Ids : j # i => StageOf(j)' = StageOf(j), NEW s, StageOf(i)' = s
  PROVE  Service!To(i, s)
BY DEF Service!To

\* A step that moves none leaves the abstract stage alone.
LEMMA StageStays ==
  ASSUME \A j \in Ids : StageOf(j)' = StageOf(j)
  PROVE  [j \in Ids |-> StageOf(j)]' = [j \in Ids |-> StageOf(j)]
OBVIOUS

\* Frames and answers that get lost are a loss of the abstract service.
LEMMA LossRefines ==
  ASSUME UNCHANGED future,
         \A j \in Ids : \/ StageOf(j)' = StageOf(j)
                        \/ /\ StageOf(j) \in {"offered", "running", "refused", "finished"}
                           /\ StageOf(j)' = "dropped"
  PROVE  [Service!Next]_(Service!serviceVars)
<1> DEFINE L == {j \in Ids : StageOf(j)' # StageOf(j)}
<1>1. CASE L = {}
  <2>1. \A j \in Ids : StageOf(j)' = StageOf(j)
    BY <1>1
  <2> QED  BY <2>1, StageStays DEF Service!serviceVars
<1>2. CASE L # {}
  <2>1. [j \in Ids |-> StageOf(j)]' =
          [j \in Ids |-> IF j \in L THEN "dropped" ELSE [k \in Ids |-> StageOf(k)][j]]
    OBVIOUS
  <2>2. L \in SUBSET {j \in Ids : [k \in Ids |-> StageOf(k)][j]
                                   \in {"offered", "running", "refused", "finished"}}
    OBVIOUS
  <2> HIDE DEF L
  <2>3. Service!Lose
    BY <1>2, <2>1, <2>2 DEF Service!Lose
  <2> QED  BY <2>3 DEF Service!Next
<1> QED  BY <1>1, <1>2

\* Connections, losses, expiries and beginning sweeps move no call, but may
\* take its frame along.
LEMMA QuietRefines ==
  ASSUME CallsInv, CallsInv', Network \/ Reap \/ \E i \in Ids : Expire(i)
  PROVE  [Service!Next]_(Service!serviceVars)
<1>1. UNCHANGED <<route, future, serving>> /\ outbox' \subseteq outbox
  BY DEF Network, Connect, Drop, Leave, Lost, Reap, Expire
<1>2. ASSUME NEW j \in Ids
      PROVE  \/ StageOf(j)' = StageOf(j)
             \/ /\ StageOf(j) \in {"offered", "running", "refused", "finished"}
                /\ StageOf(j)' = "dropped"
  <2>0. CallSound(j) /\ CallSound(j)'
    BY DEF CallsInv
  <2>1. FramesOf(j)' \subseteq FramesOf(j) /\ HandlersOf(j)' = HandlersOf(j)
    BY <1>1 DEF FramesOf, HandlersOf
  <2>2. CASE FramesOf(j)' = FramesOf(j)
    BY <1>1, <2>1, <2>2, SameStage
  <2>3. CASE FramesOf(j)' # FramesOf(j)
    <3>1. FramesOf(j) # {} /\ FramesOf(j)' = {} /\ HandlersOf(j) = {}
      BY <2>0, <2>1, <2>3 DEF CallSound, OnePlace
    <3>2. StageOf(j) \in {"offered", "refused", "finished"}
      BY <2>0, <3>1, StageIs DEF CallSound, OnePlace
    <3>3. route'[j] # Unset /\ Nowhere(j)' /\ future'[j] # "served"
      BY <1>1, <2>0, <2>1, <3>1 DEF CallSound, UnusedIsUnknown, AnsweredIsOver, Nowhere
    <3> QED  BY <2>0, <3>2, <3>3, StageIsNext
  <2> QED  BY <2>2, <2>3
<1> QED  BY <1>1, <1>2, LossRefines

\* The caller, or a sweep for it, stops waiting: no call moves.
LEMMA GiveUpRefines ==
  ASSUME CallsInv, NEW i \in Ids, UNCHANGED <<route, outbox, serving>>,
         \/ future' = future
         \/ future[i] = "waiting" /\ future' \in {[future EXCEPT ![i] = "gaveup"],
                                                [future EXCEPT ![i] = "504"]}
  PROVE  [Service!Next]_(Service!serviceVars)
<1>0. future \in [Ids -> {"unused", "waiting", "gaveup", "raised"} \cup Outcome]
  BY DEF CallsInv, CallsTypeOK
<1>1. ASSUME NEW j \in Ids
      PROVE  StageOf(j)' = StageOf(j)
  <2>1. FramesOf(j)' = FramesOf(j) /\ HandlersOf(j)' = HandlersOf(j)
    BY DEF FramesOf, HandlersOf
  <2>2. future'[j] = "served" <=> future[j] = "served"
    BY <1>0
  <2> QED  BY <2>1, <2>2, SameStage
<1>2. [j \in Ids |-> StageOf(j)]' = [j \in Ids |-> StageOf(j)]
  BY <1>1, StageStays
<1>3. CASE future' = future
  BY <1>2, <1>3 DEF Service!serviceVars
<1>4. CASE future' # future
  <2>1. Service!GiveUp(i)
    BY <1>2, <1>4 DEF Service!GiveUp, Service!Tell
  <2> QED  BY <2>1 DEF Service!Next
<1> QED  BY <1>3, <1>4

\* A call begins: in its outbox, at its callee, or at once in an exception.
LEMMA AskRefines ==
  ASSUME CallsInv, CallsInv', NEW i \in Ids,
         (\E s \in Ends, d \in Parties : Call(i, s, d)) \/ \E d \in Ends : BrokerCall(i, d)
  PROVE  [Service!Next]_(Service!serviceVars)
<1>0. /\ CallsTypeOK /\ CallSound(i) /\ CallSound(i)' /\ future[i] = "unused"
      /\ future \in [Ids -> {"unused", "waiting", "gaveup", "raised"} \cup Outcome]
      /\ route \in [Ids -> [src: Parties, dst: Parties] \cup {Unset}]
  BY DEF CallsInv, CallsTypeOK, Call, BrokerCall
<1>1. StageOf(i) = "none"
  BY <1>0, StageIs DEF CallSound, UnusedIsUnknown
<1>2. /\ \A j \in Ids : j # i => route'[j] = route[j]
      /\ \/ future' = [future EXCEPT ![i] = "waiting"]
         \/ /\ future' = [future EXCEPT ![i] = "raised"]
            /\ UNCHANGED <<outbox, serving>>
  BY <1>0 DEF Call, BrokerCall
<1>3. \A j \in Ids : j # i => future'[j] = future[j]
  BY <1>0, <1>2
<1>4. \A j \in Ids : j # i => FramesOf(j)' = FramesOf(j) /\ HandlersOf(j)' = HandlersOf(j)
  <2>1. CASE \E s \in Ends, d \in Parties : Call(i, s, d)
    BY <1>0, <2>1, FramesMove, HandlersMove, FrameFacts DEF Call
  <2>2. ASSUME NEW d \in Ends, BrokerCall(i, d)
        PROVE  \A j \in Ids : j # i => FramesOf(j)' = FramesOf(j) /\ HandlersOf(j)' = HandlersOf(j)
    BY <1>0, <2>2, FramesMove, HandlersMove, Delivery DEF BrokerCall, FramesOf
  <2> QED  BY <2>1, <2>2
<1>5. \A j \in Ids : j # i => StageOf(j)' = StageOf(j)
  BY <1>2, <1>3, <1>4, SameStage
<1>6. route'[i] # Unset /\ future'[i] \in {"waiting", "raised"}
  BY <1>0, <1>2 DEF CallSound, UnusedIsUnknown
<1>7. StageOf(i)' \in {"offered", "running", "refused", "finished", "dropped"}
  <2>1. CASE Nowhere(i)'
    BY <1>0, <1>6, <2>1, StageIsNext
  <2>2. CASE ~Nowhere(i)'
    BY <1>0, <2>2, StageIsNext DEF CallSound, OnePlace, Nowhere
  <2> QED  BY <2>1, <2>2
<1>8. StageOf(i)' # "finished"
  <2>1. Nowhere(i)
    BY <1>0 DEF CallSound, UnusedIsUnknown
  <2>2. FramesOf(i)' \in {{}, {Request(i)}, {Response(i, "503")}}
    <3>1. CASE \E s \in Ends, d \in Parties : Call(i, s, d)
      BY <2>1, <3>1, FramesMove, FrameFacts DEF Call, Nowhere
    <3>2. ASSUME NEW d \in Ends, BrokerCall(i, d)
          PROVE  FramesOf(i)' \in {{}, {Response(i, "503")}}
      <4>1. {f \in outbox : f.id = i} = {}
        BY <2>1 DEF Nowhere, FramesOf
      <4> QED  BY <1>0, <2>1, <3>2, <4>1, FramesMove, Delivery DEF BrokerCall, Nowhere
    <3> QED  BY <3>1, <3>2
  <2>3. CASE FramesOf(i)' = {} /\ HandlersOf(i)' = {}
    BY <1>0, <1>6, <2>3, StageIsNext DEF Nowhere
  <2> QED  BY <1>0, <2>2, <2>3, StageIsNext
<1>9. future' = [future EXCEPT ![i] = "raised"] => StageOf(i)' = "dropped"
  <2> SUFFICES ASSUME future' = [future EXCEPT ![i] = "raised"]
               PROVE  StageOf(i)' = "dropped"
    OBVIOUS
  <2>1. future'[i] = "raised"
    BY <1>0
  <2>2. Nowhere(i)'
    BY <1>0, <2>1 DEF CallSound, AnsweredIsOver
  <2> QED  BY <1>0, <1>6, <2>1, <2>2, StageIsNext
<1>10. Service!To(i, StageOf(i)')
  BY <1>5, StageMoves
<1>11. Service!Ask(i)
  <2>1. CASE future' = [future EXCEPT ![i] = "waiting"]
    BY <1>1, <1>7, <1>8, <1>10, <2>1 DEF Service!Ask, Service!Tell
  <2>2. CASE future' = [future EXCEPT ![i] = "raised"]
    BY <1>1, <1>9, <1>10, <2>2 DEF Service!Ask, Service!Tell
  <2> QED  BY <1>2, <2>1, <2>2
<1> QED  BY <1>11 DEF Service!Next

\* A call that an answer may settle, and whose traces end with it, is
\* delivered, refused or lost.
LEMMA AnswerRefines ==
  ASSUME CallsInv, CallsInv', NEW i \in Ids, NEW st \in {"served", "502", "503"},
         UNCHANGED route, ~Nowhere(i), Nowhere(i)',
         \A j \in Ids : j # i => FramesOf(j)' = FramesOf(j) /\ HandlersOf(j)' = HandlersOf(j),
         future' \in {future, Resolve(i, st)},
         IF st = "served" THEN StageOf(i) \in {"running", "finished"}
                          ELSE StageOf(i) \in {"offered", "refused"}
  PROVE  [Service!Next]_(Service!serviceVars)
<1>0. /\ CallSound(i) /\ CallSound(i)'
      /\ future \in [Ids -> {"unused", "waiting", "gaveup", "raised"} \cup Outcome]
  BY DEF CallsInv, CallsTypeOK
<1>1. route'[i] # Unset /\ future[i] # "served"
  BY <1>0 DEF CallSound, UnusedIsUnknown, AnsweredIsOver
<1>2. StageOf(i)' = IF future'[i] = "served" THEN "delivered" ELSE "dropped"
  BY <1>0, <1>1, StageIsNext
<1>3. \A j \in Ids : j # i => StageOf(j)' = StageOf(j)
  <2>1. \A j \in Ids : j # i => future'[j] = future[j]
    BY <1>0 DEF Resolve
  <2> QED  BY <2>1, SameStage
<1>4. CASE future' = future
  BY <1>1, <1>2, <1>3, <1>4, LossRefines
<1>5. CASE future' # future
  <2>1. future[i] = "waiting" /\ future' = [future EXCEPT ![i] = st] /\ future'[i] = st
    BY <1>0, <1>5 DEF Resolve
  <2>2. Service!To(i, StageOf(i)') /\ Service!Tell(i, st)
    BY <1>3, <2>1, StageMoves DEF Service!Tell
  <2>3. CASE st = "served"
    <3>1. Service!Deliver(i)
      BY <1>2, <2>1, <2>2, <2>3 DEF Service!Deliver
    <3> QED  BY <3>1 DEF Service!Next
  <2>4. CASE st \in {"502", "503"}
    <3>1. Service!Refuse(i)
      BY <1>2, <2>1, <2>2, <2>4 DEF Service!Refuse, Service!Refusal
    <3> QED  BY <3>1 DEF Service!Next
  <2> QED  BY <2>3, <2>4
<1> QED  BY <1>4, <1>5

\* A request is read: it reaches a handler, is refused, or is lost.
LEMMA RequestRefines ==
  ASSUME CallsInv, CallsInv', NEW f \in outbox, RouteRequest(f)
  PROVE  [Service!Next]_(Service!serviceVars)
<1> DEFINE i == f.id
<1>0. /\ CallsTypeOK /\ \A j \in Ids : CallSound(j) /\ CallSound(j)'
      /\ i \in Ids /\ f = Request(i) /\ FramesOf(i) = {f}
      /\ UNCHANGED route
  BY OutboxFacts DEF CallsInv, RouteRequest
<1>1. StageOf(i) = "offered" /\ HandlersOf(i) = {} /\ route'[i] # Unset
      /\ future[i] \in {"waiting", "gaveup"}
  BY <1>0, StageIs DEF CallSound, OnePlace, UnusedIsUnknown, UnreadIsOpen, Nowhere
<1>2. \A j : {g \in outbox \ {f} : g.id = j} = IF j = i THEN {} ELSE FramesOf(j)
  BY <1>0 DEF FramesOf
<1>3. CASE outbox' = outbox \ {f} /\ UNCHANGED serving
           /\ future' \in {future, Resolve(i, "502"), Resolve(i, "503")}
  <2>1. /\ \A j \in Ids : j # i => FramesOf(j)' = FramesOf(j) /\ HandlersOf(j)' = HandlersOf(j)
        /\ Nowhere(i)' /\ ~Nowhere(i)
    BY <1>0, <1>1, <1>3, FramesMove, HandlersMove DEF Nowhere
  <2> HIDE DEF i
  <2>2. PICK st \in {"502", "503"} : future' \in {future, Resolve(i, st)}
    BY <1>3
  <2> QED  BY <1>0, <1>1, <2>1, <2>2, AnswerRefines
<1>4. ASSUME UNCHANGED future,
             \A j \in Ids : j # i => FramesOf(j)' = FramesOf(j) /\ HandlersOf(j)' = HandlersOf(j),
             \/ Nowhere(i)'
             \/ FramesOf(i)' = {Response(i, "503")} \/ HandlersOf(i)' # {}
      PROVE  [Service!Next]_(Service!serviceVars)
  <2>1. \A j \in Ids : j # i => StageOf(j)' = StageOf(j)
    BY <1>0, <1>4, SameStage
  <2>2. StageOf(i)' \in {"dropped", "refused", "running"}
    BY <1>0, <1>1, <1>4, StageIsNext
  <2>3. CASE StageOf(i)' = "dropped"
    BY <1>0, <1>1, <1>4, <2>1, <2>3, LossRefines
  <2>4. CASE StageOf(i)' # "dropped"
    <3>1. Service!To(i, StageOf(i)')
      BY <1>0, <2>1, StageMoves
    <3>2. Service!Reach(i)
      BY <1>0, <1>1, <1>4, <2>2, <2>4, <3>1 DEF Service!Reach
    <3> QED  BY <1>0, <3>2 DEF Service!Next
  <2> QED  BY <2>3, <2>4
<1>5. CASE /\ serving' = [serving EXCEPT ![Broker] = @ \cup {i}]
           /\ outbox' = outbox \ {f} /\ UNCHANGED future
  <2>1. \A j \in Ids : FramesOf(j)' = IF j = i THEN {} ELSE FramesOf(j)
    BY <1>0, <1>5, FramesMove
  <2>2. \A j \in Ids : HandlersOf(j)' = IF j = i THEN HandlersOf(j) \cup {Broker} ELSE HandlersOf(j)
    <3> SUFFICES ASSUME NEW j \in Ids
                 PROVE  HandlersOf(j)' = IF j = i THEN HandlersOf(j) \cup {Broker} ELSE HandlersOf(j)
      OBVIOUS
    <3>1. Broker \in Parties /\ serving' = [serving EXCEPT ![Broker] = @ \cup {i}]
      BY <1>5
    <3> HIDE DEF i
    <3> QED  BY <1>0, <3>1, HandlersMove
  <2> QED  BY <1>0, <1>4, <1>5, <2>1, <2>2
<1>6. CASE /\ Dst(i) \in Ends /\ ToCallee(i, Dst(i), outbox \ {f})
           /\ UNCHANGED future
  <2> HIDE DEF i
  <2>1. \A j \in Ids : j # i => FramesOf(j)' = FramesOf(j) /\ HandlersOf(j)' = HandlersOf(j)
    <3>1. \A j \in Ids : j # i => /\ HandlersOf(j)' = HandlersOf(j)
                                  /\ FramesOf(j)' = {g \in outbox \ {f} : g.id = j}
      BY <1>0, <1>6, Delivery
    <3> QED  BY <1>2, <3>1
  <2>2. \/ /\ HandlersOf(i)' = HandlersOf(i)
           /\ FramesOf(i)' = {g \in outbox \ {f} : g.id = i}
        \/ /\ HandlersOf(i)' = HandlersOf(i)
           /\ FramesOf(i)' = {g \in outbox \ {f} : g.id = i} \cup {Response(i, "503")}
        \/ /\ HandlersOf(i)' = HandlersOf(i) \cup {Dst(i)}
           /\ FramesOf(i)' = {g \in outbox \ {f} : g.id = i}
    BY <1>0, <1>6, Delivery
  <2>3. Nowhere(i)' \/ FramesOf(i)' = {Response(i, "503")} \/ HandlersOf(i)' # {}
    BY <1>1, <1>2, <2>2 DEF Nowhere
  <2> QED  BY <1>4, <1>6, <2>1, <2>3
<1> QED  BY <1>3, <1>5, <1>6 DEF RouteRequest, ToCaller, known

\* A response is read: delivered, or lost on the way to its caller.
LEMMA ResponseRefines ==
  ASSUME CallsInv, CallsInv', NEW f \in outbox, RouteResponse(f)
  PROVE  [Service!Next]_(Service!serviceVars)
<1>0. /\ CallsTypeOK /\ CallSound(f.id) /\ f.id \in Ids /\ FramesOf(f.id) = {f}
      /\ f = Response(f.id, f.status) /\ f.status \in {"503", "served"}
  BY OutboxFacts DEF CallsInv, RouteResponse
<1>1. /\ UNCHANGED <<route, serving>> /\ outbox' = outbox \ {f}
      /\ future' \in {future, Resolve(f.id, f.status)}
  BY DEF RouteResponse, ToCaller
<1>2. PICK i \in Ids : i = f.id
  BY <1>0
<1>3. PICK st \in {"503", "served"} : st = f.status
  BY <1>0
<1>4. CallSound(i) /\ FramesOf(i) = {Response(i, st)} /\ HandlersOf(i) = {}
  BY <1>0, <1>2, <1>3 DEF CallSound, OnePlace
<1>5. /\ \A j \in Ids : j # i => FramesOf(j)' = FramesOf(j) /\ HandlersOf(j)' = HandlersOf(j)
      /\ Nowhere(i)' /\ ~Nowhere(i)
  BY <1>0, <1>1, <1>2, <1>4, FramesMove, HandlersMove DEF Nowhere
<1>6. IF st = "served" THEN StageOf(i) = "finished" ELSE StageOf(i) = "refused"
  BY <1>3, <1>4, StageIs
<1>7. UNCHANGED route /\ future' \in {future, Resolve(i, st)}
  BY <1>1, <1>2, <1>3
<1> QED  BY <1>5, <1>6, <1>7, AnswerRefines

\* A hosted plugin answers: delivered, or lost on the way to its caller.
LEMMA HostReplyRefines ==
  ASSUME CallsInv, CallsInv', NEW i \in Ids, HostReply(i)
  PROVE  [Service!Next]_(Service!serviceVars)
<1>0. CallsTypeOK /\ CallSound(i)
  BY DEF CallsInv
<1>1. /\ i \in serving[Broker] /\ serving' = [serving EXCEPT ![Broker] = @ \ {i}]
      /\ UNCHANGED <<route, outbox>> /\ future' \in {future, Resolve(i, "served")}
      /\ Broker \in Parties
  BY DEF HostReply, ToCaller
<1>2. HandlersOf(i) = {Broker} /\ FramesOf(i) = {}
  <2>1. Broker \in HandlersOf(i)
    BY <1>1 DEF HandlersOf
  <2> QED  BY <1>0, <2>1 DEF CallSound, OnePlace
<1>3. \A j \in Ids : HandlersOf(j)' = IF j = i THEN HandlersOf(j) \ {Broker} ELSE HandlersOf(j)
  BY <1>0, <1>1, HandlersMove
<1>4. \A j \in Ids : FramesOf(j)' = FramesOf(j)
  BY <1>1, FramesMove
<1>5. Nowhere(i)' /\ ~Nowhere(i) /\ StageOf(i) = "running"
  BY <1>0, <1>2, <1>3, <1>4, StageIs DEF Nowhere
<1> QED  BY <1>1, <1>3, <1>4, <1>5, AnswerRefines

\* A handler ends.
LEMMA ServeRefines ==
  ASSUME CallsInv, CallsInv', NEW i \in Ids, NEW n \in Ends, Serve(n, i)
  PROVE  [Service!Next]_(Service!serviceVars)
<1>0. CallsTypeOK /\ CallSound(i) /\ CallSound(i)'
  BY DEF CallsInv
<1>1. /\ i \in serving[n] /\ serving' = [serving EXCEPT ![n] = @ \ {i}]
      /\ outbox' = outbox \cup {Response(i, "served")} /\ UNCHANGED <<route, future>>
  BY DEF Serve
<1>2. HandlersOf(i) = {n} /\ FramesOf(i) = {}
  <2>1. n \in HandlersOf(i)
    BY <1>1 DEF HandlersOf
  <2> QED  BY <1>0, <2>1 DEF CallSound, OnePlace
<1>3. \A j \in Ids : HandlersOf(j)' = IF j = i THEN HandlersOf(j) \ {n} ELSE HandlersOf(j)
  BY <1>0, <1>1, HandlersMove
<1>4. \A j \in Ids : FramesOf(j)' = IF j = i THEN {Response(i, "served")} ELSE FramesOf(j)
  BY <1>1, <1>2, FramesMove, FrameFacts
<1>5. \A j \in Ids : j # i => StageOf(j)' = StageOf(j)
  BY <1>1, <1>3, <1>4, SameStage
<1>6. StageOf(i) = "running" /\ StageOf(i)' = "finished"
  BY <1>0, <1>2, <1>4, StageIs, StageIsNext
<1>7. Service!Finish(i)
  BY <1>1, <1>5, <1>6, StageMoves DEF Service!Finish
<1> QED  BY <1>7 DEF Service!Next

\* Every step of the tables, frames and sweeps is one of the service or none.
LEMMA StepRefines ==
  ASSUME CallsInv, CallsInv', [CallsNext]_callsVars
  PROVE  [Service!Next]_(Service!serviceVars)
<1>0. CallsTypeOK
  BY DEF CallsInv
<1>1. CASE Network \/ Reap \/ \E i \in Ids : Expire(i)
  BY <1>1, QuietRefines
<1>2. CASE Callers
  <2>1. ASSUME NEW i \in Ids, GiveUp(i) \/ CancelCall(i)
        PROVE  [Service!Next]_(Service!serviceVars)
    BY <2>1, GiveUpRefines DEF GiveUp, CancelCall
  <2> QED  BY <1>2, <2>1, AskRefines DEF Callers
<1>3. CASE Routing
  BY <1>3, RequestRefines, ResponseRefines DEF Routing
<1>4. CASE Handlers
  BY <1>4, HostReplyRefines, ServeRefines DEF Handlers
<1>5. ASSUME NEW w \in sweeps, NEW i \in w.todo, SweepEntry(w, i)
      PROVE  [Service!Next]_(Service!serviceVars)
  <2>1. i \in Ids /\ UNCHANGED <<route, outbox, serving>> /\ future' \in {future, Resolve(i, "504")}
    BY <1>0, <1>5 DEF CallsTypeOK, Sweep, SweepEntry, FailCall, ToCaller
  <2> QED  BY <2>1, GiveUpRefines DEF Resolve
<1>6. CASE UNCHANGED callsVars
  <2>1. ASSUME NEW j \in Ids
        PROVE  StageOf(j)' = StageOf(j)
    <3>1. FramesOf(j)' = FramesOf(j) /\ HandlersOf(j)' = HandlersOf(j)
      BY <1>6 DEF callsVars, FramesOf, HandlersOf
    <3> QED  BY <1>6, <3>1, SameStage DEF callsVars
  <2> QED  BY <1>6, <2>1, StageStays DEF callsVars, Service!serviceVars
<1> QED  BY <1>1, <1>2, <1>3, <1>4, <1>5, <1>6 DEF CallsNext, Sweeping

\* The tables, frames and sweeps of broker.py and runtime.py implement the
\* service: at most one execution and one outcome per call, "served" only
\* after an execution, and no execution after a refusal.
THEOREM CallsImplementService == CallsSpec => ImplementsService
<1>1. CallsInit => Service!Init
  <2> SUFFICES ASSUME CallsInit
               PROVE  Service!Init
    OBVIOUS
  <2>1. ASSUME NEW i \in Ids
        PROVE  StageOf(i) = "none"
    <3>1. FramesOf(i) = {} /\ HandlersOf(i) = {} /\ ~Swept(i)
      BY DEF CallsInit, FramesOf, HandlersOf, Swept
    <3>2. CallSound(i) /\ route[i] = Unset
      BY <3>1 DEF CallsInit, CallSound, OnePlace, UnusedIsUnknown, UnreadIsOpen, AnsweredIsOver,
           Nowhere
    <3> QED  BY <3>2, StageIs
  <2> QED  BY <2>1 DEF CallsInit, Service!Init
<1>2. CallsInv /\ CallsInv' /\ [CallsNext]_callsVars => [Service!Next]_(Service!serviceVars)
  BY StepRefines
<1> QED  BY <1>1, <1>2, CallsInductive, PTL DEF CallsSpec, ImplementsService, Service!Spec
=============================================================================
