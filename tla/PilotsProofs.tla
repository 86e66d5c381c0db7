---------------------------- MODULE PilotsProofs ----------------------------
(***************************************************************************)
(* The safety properties of Pilots for every set of members, every finite  *)
(* set of pilots and any bounds of the policy.  Every handler changes      *)
(* records only along StepOf; one lemma says what such a change keeps      *)
(* (types, the failures held against members, the soundness of records),   *)
(* and one lemma per action follows who knows of a job.                    *)
(***************************************************************************)
EXTENDS Pilots, SeqFacts, FiniteSetTheorems

USE PilotNames, PilotBounds, FiniteAssumption

-----------------------------------------------------------------------------
(* Changes of a record. *)

States == {"NONE"} \cup LiveStates \cup Terminal

\* The states a pilot may go to from state a.
Goes(a, b) == \/ b = a \/ b = "FAILED" \/ a = "NONE"
              \/ b = "DONE" /\ a \notin Terminal
              \/ a = "PENDING" /\ b \in {"STARTING", "ACTIVE"}
              \/ a = "STARTING" /\ b = "ACTIVE"

\* A change of pilot p's record from r to s that some handler may make.
StepOf(p, r, s) ==
  /\ s \in PilotRec /\ RecordSound(p, s)
  /\ Goes(r.state, s.state)
  /\ r.state # "NONE" => s.member = r.member /\ s.adopted = r.adopted
  /\ s.active = r.active \/ s.state = "ACTIVE"

\* States go forward.
LEMMA GoesForward ==
  ASSUME NEW a \in States, NEW b \in States, Goes(a, b)
  PROVE  Rank(b) >= Rank(a)
<1>1. Rank("NONE") = 0 /\ Rank("PENDING") = 1 /\ Rank("STARTING") = 2 /\ Rank("ACTIVE") = 3
  BY DEF Rank, Terminal
<1>2. Rank("DONE") = 4 /\ Rank("FAILED") = 4
  BY DEF Rank, Terminal
<1>3. a \in {"NONE", "PENDING", "STARTING", "ACTIVE", "DONE", "FAILED"}
  BY DEF States, LiveStates, PreActive, Terminal
<1>4. b \in {"NONE", "PENDING", "STARTING", "ACTIVE", "DONE", "FAILED"}
  BY DEF States, LiveStates, PreActive, Terminal
<1> QED  BY <1>1, <1>2, <1>3, <1>4 DEF Goes, Terminal

\* The fields of a record.
LEMMA Fields ==
  ASSUME NEW r \in PilotRec
  PROVE  /\ r.state \in States /\ r.member \in Members \cup {None} /\ r.adopted \in BOOLEAN
         /\ r.job \in BOOLEAN /\ r.child \in Endpoints \cup {None} /\ r.active \in BOOLEAN
BY DEF PilotRec, States

\* A record with another state.
LEMMA WithState ==
  ASSUME NEW r \in PilotRec, NEW st \in States
  PROVE  LET s == [r EXCEPT !.state = st] IN
         /\ s \in PilotRec /\ s.state = st /\ s.member = r.member /\ s.adopted = r.adopted
         /\ s.job = r.job /\ s.child = r.child /\ s.active = r.active
BY DEF PilotRec, States

\* Finalizing is a step of the record.
LEMMA FinalStep ==
  ASSUME NEW p \in Pids, NEW r \in PilotRec, RecordSound(p, r), NEW st \in Terminal,
         st = "FAILED" \/ r.state \notin Terminal
  PROVE  StepOf(p, r, [r EXCEPT !.state = st])
<1>1. PICK s : s = [r EXCEPT !.state = st]
  OBVIOUS
<1>2. st \in States /\ st \notin PreActive \cup {"NONE"}
  BY DEF States, Terminal, PreActive
<1>3. /\ s \in PilotRec /\ s.state = st /\ s.member = r.member /\ s.adopted = r.adopted
      /\ s.job = r.job /\ s.child = r.child /\ s.active = r.active
  BY <1>1, <1>2, WithState
<1>4. RecordSound(p, s)
  BY <1>2, <1>3 DEF RecordSound
<1>5. Goes(r.state, s.state)
  BY <1>3 DEF Goes, Terminal
<1> QED  BY <1>1, <1>3, <1>4, <1>5 DEF StepOf

\* What a topology does to a record.
ReconcileStep(p, r, s, v) ==
  /\ StepOf(p, r, s)
  /\ s.member = r.member /\ s.adopted = r.adopted /\ s.child = r.child /\ s.job = r.job
  /\ s.state \in LiveStates => r.state \in LiveStates
  /\ s.state \in Terminal => r.state \in Terminal \/ r.adopted \/ (v = "lost" /\ r.child # None)
  /\ s.state \in PreActive \cup {"NONE"} => s.state = r.state
  /\ r.state = "NONE" => s = r
LEMMA ReconciledFacts ==
  ASSUME NEW p \in Pids, NEW r \in PilotRec, RecordSound(p, r), NEW v, NEW st \in Terminal
  PROVE  ReconcileStep(p, r, Reconciled(r, v, st), v)
<1>0. Terminal \subseteq States /\ "ACTIVE" \in States /\ r.active \in BOOLEAN
  BY DEF States, LiveStates, PilotRec
<1>a. PICK s : s = Reconciled(r, v, st)
  OBVIOUS
<1>b. SUFFICES ReconcileStep(p, r, s, v)
  BY <1>a
<1>1. CASE s = r
  BY <1>1 DEF ReconcileStep, StepOf, Goes, LiveStates, Terminal
<1>2. ASSUME NEW b \in Terminal, r.state \in LiveStates, s = [r EXCEPT !.state = b],
             r.adopted \/ (v = "lost" /\ r.child # None)
      PROVE  ReconcileStep(p, r, s, v)
  <2>1. r.state \notin Terminal /\ b \notin LiveStates \cup {"NONE"} /\ r.state # "NONE"
    BY <1>2 DEF LiveStates, Terminal, PreActive
  <2>2. /\ s \in PilotRec /\ s.state = b /\ s.member = r.member /\ s.adopted = r.adopted
        /\ s.job = r.job /\ s.child = r.child /\ s.active = r.active
    BY <1>0, <1>2, WithState
  <2>3. StepOf(p, r, s)
    BY <1>2, <2>1, FinalStep
  <2> QED  BY <1>2, <2>1, <2>2, <2>3 DEF ReconcileStep, LiveStates
<1>3. ASSUME r.state \in PreActive, s = [r EXCEPT !.state = "ACTIVE", !.active = TRUE]
      PROVE  ReconcileStep(p, r, s, v)
  <2>1. /\ s \in PilotRec /\ s.state = "ACTIVE" /\ s.member = r.member /\ s.adopted = r.adopted
        /\ s.job = r.job /\ s.child = r.child /\ s.active = TRUE
    BY <1>3 DEF PilotRec, LiveStates
  <2>2. "ACTIVE" \notin PreActive \cup {"NONE"} \cup Terminal
    BY DEF PreActive, Terminal
  <2>3. RecordSound(p, s)
    BY <2>1, <2>2 DEF RecordSound
  <2>4. Goes(r.state, s.state)
    BY <1>3, <2>1 DEF Goes, PreActive
  <2>5. r.state \in LiveStates /\ r.state # "NONE"
    BY <1>3 DEF LiveStates, PreActive
  <2>6. StepOf(p, r, s)
    BY <2>1, <2>3, <2>4 DEF StepOf
  <2> QED  BY <2>1, <2>2, <2>5, <2>6 DEF ReconcileStep
<1>4. CASE r.state \notin LiveStates \/ r.child = None
  BY <1>a, <1>1, <1>4 DEF Reconciled
<1>5. CASE ~(r.state \notin LiveStates \/ r.child = None) /\ v = "present" /\ r.state \in PreActive
  <2>1. s = Activate(r)
    BY <1>a, <1>5 DEF Reconciled
  <2>2. CASE r.adopted /\ r.child \in Bare
    BY <1>2, <1>5, <2>1, <2>2 DEF Activate, Terminal
  <2>3. CASE ~(r.adopted /\ r.child \in Bare)
    BY <1>3, <1>5, <2>1, <2>3 DEF Activate
  <2> QED  BY <2>2, <2>3
<1>6. CASE /\ ~(r.state \notin LiveStates \/ r.child = None)
           /\ ~(v = "present" /\ r.state \in PreActive) /\ v = "lost"
  <2>1. s = [r EXCEPT !.state = IF r.adopted THEN "DONE" ELSE st]
    BY <1>a, <1>6 DEF Reconciled
  <2>2. (IF r.adopted THEN "DONE" ELSE st) \in Terminal
    BY DEF Terminal
  <2> QED  BY <1>2, <1>6, <2>1, <2>2
<1>7. CASE /\ ~(r.state \notin LiveStates \/ r.child = None)
           /\ ~(v = "present" /\ r.state \in PreActive) /\ v # "lost"
  BY <1>a, <1>1, <1>7 DEF Reconciled
<1> QED  BY <1>4, <1>5, <1>6, <1>7

-----------------------------------------------------------------------------
(* What the changes of all records keep. *)

\* The records of q are reached from the present ones.
AllStep(q) == q \in [Pids -> PilotRec] /\ \A p \in Pids : StepOf(p, pilot[p], q[p])

\* The types of what a handler may change in the records and in the policy.
RecordTypes == /\ pilot \in [Pids -> PilotRec] /\ unsaved \subseteq Pids
               /\ fails \in [Members -> 0..MaxFailures] /\ paused \subseteq Members

\* The types that TypeOK states, by variable.
LEMMA RecordsTyped ==
  ASSUME TypeOK
  PROVE  RecordTypes
BY DEF TypeOK, RecordTypes

\* Pilots of m that failed without ever being active.
FailedOf(q, m) == {p \in Pids : q[p].member = m /\ q[p].state = "FAILED" /\ ~q[p].active}

\* There are finitely many pilots.
LEMMA PilotsFinite ==
  ASSUME NEW S \in SUBSET Pids
  PROVE  IsFiniteSet(S) /\ Cardinality(S) \in Nat
<1>1. IsFiniteSet(S)
  BY FS_Subset
<1> QED  BY <1>1, FS_CardinalityType

\* The failures that a step charges to a member are new ones of its pilots.
LEMMA ChargedAreNew ==
  ASSUME RecordTypes, RecordsSound, NEW q, AllStep(q), NEW m \in Members
  PROVE  Cardinality(FailedOf(q, m)) >= Cardinality(FailedOf(pilot, m)) + Cardinality(Charged(q, m))
<1> DEFINE F == FailedOf(pilot, m)
<1> DEFINE G == FailedOf(q, m)
<1> DEFINE C == Charged(q, m)
<1>1. ASSUME NEW p \in Pids
      PROVE  /\ StepOf(p, pilot[p], q[p]) /\ RecordSound(p, pilot[p])
             /\ pilot[p] \in PilotRec /\ q[p] \in PilotRec
  BY DEF RecordTypes, RecordsSound, AllStep
<1>2. ASSUME NEW p \in F
      PROVE  p \in G
  <2>1. p \in Pids /\ pilot[p].member = m /\ pilot[p].state = "FAILED" /\ ~pilot[p].active
    BY DEF FailedOf
  <2>2. q[p].state = "FAILED"
    BY <1>1, <2>1 DEF StepOf, Goes, Terminal
  <2>3. q[p].member = m /\ ~q[p].active
    BY <1>1, <2>1, <2>2 DEF StepOf
  <2> QED  BY <2>1, <2>2, <2>3 DEF FailedOf
<1>3. ASSUME NEW p \in C
      PROVE  p \in G /\ p \notin F
  <2>1. p \in Pids /\ q[p].member = m /\ q[p].state = "FAILED" /\ pilot[p].state \in PreActive \cup {"NONE"}
    BY DEF Charged
  <2>2. ~pilot[p].active /\ pilot[p].state # "FAILED"
    BY <1>1, <2>1 DEF RecordSound, PreActive
  <2>3. ~q[p].active
    BY <1>1, <2>1, <2>2 DEF StepOf
  <2> QED  BY <2>1, <2>2, <2>3 DEF FailedOf
<1>4. F \in SUBSET Pids /\ G \in SUBSET Pids /\ C \in SUBSET Pids
  BY DEF FailedOf, Charged
<1> HIDE DEF F, G, C
<1>5. IsFiniteSet(F) /\ IsFiniteSet(G) /\ IsFiniteSet(C)
  BY <1>4, PilotsFinite
<1>6. Cardinality(F) \in Nat /\ Cardinality(G) \in Nat /\ Cardinality(C) \in Nat
  BY <1>4, PilotsFinite
<1>7. F \cap C = {} /\ F \cup C \in SUBSET G
  BY <1>2, <1>3
<1>8. Cardinality(F \cup C) = Cardinality(F) + Cardinality(C)
  <2>1. Cardinality(F \cup C) = Cardinality(F) + Cardinality(C) - Cardinality(F \cap C)
    BY <1>5, FS_Union
  <2>2. Cardinality(F \cap C) = 0
    BY <1>7, FS_EmptySet
  <2> QED  BY <1>6, <2>1, <2>2
<1>9. Cardinality(F \cup C) <= Cardinality(G)
  BY <1>5, <1>7, FS_Subset
<1>10. Cardinality(G) >= Cardinality(F) + Cardinality(C)
  BY <1>6, <1>8, <1>9
<1> QED  BY <1>10 DEF F, G, C

\* ChargedOnce by member.
LEMMA ChargedBy ==
  ChargedOnce <=> \A m \in Members : fails[m] <= Cardinality(FailedOf(pilot, m))
BY DEF ChargedOnce, FailedOf

\* Writing the records keeps types, soundness and the counts.
LEMMA WriteKeeps ==
  ASSUME RecordTypes, RecordsSound, ChargedOnce, NEW q, AllStep(q), Write(q)
  PROVE  RecordTypes' /\ RecordsSound' /\ ChargedOnce' /\ pilot' = q
<1>1. pilot' = q /\ unsaved' = {} /\ Signal(q)
  BY DEF Write
<1>2. RecordsSound'
  BY <1>1 DEF RecordsSound, AllStep, StepOf
<1>3. ASSUME NEW m \in Members
      PROVE  fails'[m] \in 0..MaxFailures /\ fails'[m] <= Cardinality(FailedOf(q, m))
  <2> DEFINE c == Cardinality(Charged(q, m))
  <2> DEFINE g == Cardinality(FailedOf(q, m))
  <2> DEFINE f == Cardinality(FailedOf(pilot, m))
  <2>1. Charged(q, m) \in SUBSET Pids /\ FailedOf(q, m) \in SUBSET Pids /\ FailedOf(pilot, m) \in SUBSET Pids
    BY DEF Charged, FailedOf
  <2>2. c \in Nat /\ g \in Nat /\ f \in Nat
    BY <2>1, PilotsFinite
  <2>3. g >= f + c
    BY ChargedAreNew
  <2>4. fails[m] \in 0..MaxFailures
    BY DEF RecordTypes
  <2>5. fails[m] <= f
    BY ChargedBy
  <2>6. fails'[m] = IF NewlyActive(q, m) THEN 0 ELSE Least(MaxFailures, fails[m] + c)
    BY <1>1 DEF Signal
  <2> HIDE DEF c, g, f
  <2>7. fails'[m] \in 0..MaxFailures /\ fails'[m] <= g
    BY <2>2, <2>3, <2>4, <2>5, <2>6 DEF Least
  <2> QED  BY <2>7 DEF g
<1>4. fails' = [m \in Members |-> fails'[m]]
  BY <1>1 DEF Signal
<1>5. fails' \in [Members -> 0..MaxFailures]
  BY <1>3, <1>4
<1>6. paused' \subseteq Members
  BY <1>1 DEF Signal
<1>7. RecordTypes'
  BY <1>1, <1>5, <1>6 DEF RecordTypes, AllStep
<1>8. ChargedOnce'
  <2>1. ASSUME NEW m \in Members
        PROVE  FailedOf(pilot, m)' = FailedOf(q, m)
    BY <1>1 DEF FailedOf
  <2>2. \A m \in Members : fails'[m] <= Cardinality(FailedOf(pilot, m)')
    BY <1>3, <2>1
  <2> QED  BY <2>2 DEF ChargedOnce, FailedOf
<1> QED  BY <1>1, <1>2, <1>7, <1>8

-----------------------------------------------------------------------------
(* The invariant in two parts: what is said of the records, and what is    *)
(* said of a pilot's job and of those who wait for it.                     *)

RecordPart == RecordTypes /\ RecordsSound /\ ChargedOnce /\ OneEndpointOnePilot

OtherTypes ==
  /\ open \in BOOLEAN /\ owner \in BOOLEAN /\ order \in Seq(Members)
  /\ mode \in [Members -> {"submit", "endpoint"}]
  /\ co \subseteq [pid: Pids, pc: {"client", "submitting", "undo", "start", "cancelling"}]
  /\ sweep \in {None} \cup [pid: Pids, said: {"nothing", "ended", "alive"}]
  /\ jobs \in [Pids -> {"none", "queued", "running", "ended"}]
  /\ net \subseteq Endpoints /\ stray \subseteq Pids

PidSound(p) == JobOf(p) /\ \A c \in co : c.pid = p => CoSound(c)

SweepSound == sweep # None /\ sweep.said = "ended" => jobs[sweep.pid] = "ended"

Rest == OtherTypes /\ SweepSound /\ \A p \in Pids : PidSound(p)

\* No pilot goes back.
Grows == \A p \in Pids : Goes(pilot[p].state, pilot'[p].state)

\* The parts make up the invariant.
LEMMA InvParts == IndInv <=> RecordPart /\ Rest
<1>1. TypeOK <=> RecordTypes /\ OtherTypes
  BY DEF TypeOK, RecordTypes, OtherTypes
<1>2. OtherTypes => (WaitersSound <=> SweepSound /\ \A p \in Pids : \A c \in co : c.pid = p => CoSound(c))
  BY DEF OtherTypes, WaitersSound, SweepSound
<1> QED  BY <1>1, <1>2, Zenon DEF IndInv, RecordPart, Rest, PidSound

\* The parts make up the invariant of the next state.
LEMMA InvPartsNext == RecordPart' /\ Rest' => IndInv'
BY InvParts, PTL

\* What a step that leaves the records and the policy alone keeps.
LEMMA RecordsUnchanged ==
  ASSUME RecordPart, UNCHANGED <<pilot, unsaved, policy>>
  PROVE  RecordPart' /\ Grows
<1>1. pilot' = pilot /\ unsaved' = unsaved /\ fails' = fails /\ paused' = paused
  BY DEF policy
<1>2. RecordTypes' /\ RecordsSound' /\ ChargedOnce'
  BY <1>1 DEF RecordPart, RecordTypes, RecordsSound, ChargedOnce
<1>3. OneEndpointOnePilot'
  BY <1>1 DEF RecordPart, OneEndpointOnePilot, LivePilots
<1>4. Grows
  BY <1>1 DEF Grows, Goes
<1> QED  BY <1>2, <1>3, <1>4 DEF RecordPart

\* Pilots stand for different endpoints when those that have adopted one are
\* those that had, each of the member it had.
LEMMA EndpointsKept ==
  ASSUME RecordPart, RecordTypes', RecordsSound',
         \A p \in Pids : pilot'[p].state \in LiveStates /\ pilot'[p].adopted
                           => /\ pilot[p].state \in LiveStates /\ pilot[p].adopted
                              /\ pilot'[p].member = pilot[p].member
  PROVE  OneEndpointOnePilot'
<1>1. SUFFICES ASSUME NEW p \in Pids, NEW q \in Pids, p # q,
                      pilot'[p].state \in LiveStates, pilot'[q].state \in LiveStates,
                      pilot'[p].child # None, pilot'[p].child = pilot'[q].child
               PROVE  FALSE
  BY DEF OneEndpointOnePilot, LivePilots
<1>2. RecordSound(p, pilot'[p]) /\ RecordSound(q, pilot'[q])
  BY DEF RecordsSound
<1>3. RecordSound(p, pilot[p]) /\ RecordSound(q, pilot[q])
  BY DEF RecordPart, RecordsSound
<1>4. pilot'[p].adopted /\ pilot'[q].adopted
  <2>1. pilot'[p].adopted => pilot'[p].child \in Members
    BY <1>2 DEF RecordSound
  <2>2. pilot'[q].adopted => pilot'[q].child \in Members
    BY <1>2 DEF RecordSound
  <2>3. ~pilot'[p].adopted => pilot'[p].child = p
    BY <1>1, <1>2 DEF RecordSound
  <2>4. ~pilot'[q].adopted => pilot'[q].child = q
    BY <1>1, <1>2 DEF RecordSound
  <2> QED  BY <1>1, <2>1, <2>2, <2>3, <2>4
<1>5. /\ pilot[p].state \in LiveStates /\ pilot[p].adopted /\ pilot'[p].member = pilot[p].member
      /\ pilot[q].state \in LiveStates /\ pilot[q].adopted /\ pilot'[q].member = pilot[q].member
  BY <1>1, <1>4
<1>6. pilot[p].child = pilot[q].child /\ pilot[p].child # None
  BY <1>1, <1>2, <1>3, <1>4, <1>5 DEF RecordSound
<1> QED  BY <1>1, <1>5, <1>6 DEF RecordPart, OneEndpointOnePilot, LivePilots

\* A written change of one record: only adopting an endpoint needs more.
LEMMA WriteOne ==
  ASSUME RecordPart, NEW p \in Pids, NEW s, StepOf(p, pilot[p], s),
         Write([pilot EXCEPT ![p] = s]),
         s.state \in LiveStates /\ s.adopted => pilot[p].state \in LiveStates
  PROVE  /\ RecordPart' /\ Grows /\ unsaved' = {}
         /\ pilot'[p] = s /\ \A q \in Pids \ {p} : pilot'[q] = pilot[q]
<1>1. PICK q : q = [pilot EXCEPT ![p] = s]
  OBVIOUS
<1>2. RecordTypes /\ RecordsSound /\ ChargedOnce
  BY DEF RecordPart
<1>3. q \in [Pids -> PilotRec] /\ q[p] = s /\ \A r \in Pids \ {p} : q[r] = pilot[r]
  BY <1>1, <1>2 DEF RecordTypes, StepOf
<1>4. AllStep(q)
  <2>1. ASSUME NEW r \in Pids \ {p}
        PROVE  StepOf(r, pilot[r], q[r])
    BY <1>2, <1>3 DEF StepOf, Goes, RecordTypes, RecordsSound
  <2> QED  BY <1>3, <2>1 DEF AllStep
<1>5. RecordTypes' /\ RecordsSound' /\ ChargedOnce' /\ pilot' = q
  BY <1>1, <1>2, <1>4, WriteKeeps
<1>6. OneEndpointOnePilot'
  <2>1. ASSUME NEW r \in Pids, pilot'[r].state \in LiveStates, pilot'[r].adopted
        PROVE  /\ pilot[r].state \in LiveStates /\ pilot[r].adopted
               /\ pilot'[r].member = pilot[r].member
    <3>1. CASE r = p
      BY <1>3, <1>5, <2>1, <3>1 DEF StepOf, LiveStates, PreActive
    <3>2. CASE r # p
      BY <1>3, <1>5, <2>1, <3>2
    <3> QED  BY <3>1, <3>2
  <2> QED  BY <1>5, <2>1, EndpointsKept
<1>7. Grows
  BY <1>4, <1>5 DEF Grows, AllStep, StepOf
<1>8. unsaved' = {}
  BY DEF Write
<1> QED  BY <1>3, <1>5, <1>6, <1>7, <1>8 DEF RecordPart

\* _finalize_pilot
LEMMA FinalizeKeeps ==
  ASSUME RecordPart, NEW p \in Pids, NEW st \in Terminal, st = "FAILED" \/ ~Ended(p),
         Finalize(p, st)
  PROVE  /\ RecordPart' /\ Grows
         /\ \A q \in Pids \ {p} : pilot'[q] = pilot[q]
         /\ pilot'[p].state = st /\ pilot'[p].adopted = pilot[p].adopted
         /\ pilot'[p].job = pilot[p].job
<1>1. pilot \in [Pids -> PilotRec] /\ RecordSound(p, pilot[p])
  BY DEF RecordPart, RecordTypes, RecordsSound
<1>2. PICK r \in PilotRec : r = pilot[p]
  BY <1>1
<1>3. PICK s : s = [r EXCEPT !.state = st]
  OBVIOUS
<1>4. st \in States /\ st \notin LiveStates
  BY DEF States, Terminal, LiveStates, PreActive
<1>5. s.state = st /\ s.adopted = r.adopted /\ s.job = r.job
  BY <1>3, <1>4, WithState
<1>6. StepOf(p, r, s)
  BY <1>1, <1>2, <1>3, FinalStep DEF Ended
<1>7. [pilot EXCEPT ![p].state = st] = [pilot EXCEPT ![p] = s]
  BY <1>1, <1>2, <1>3
<1>8. Write([pilot EXCEPT ![p] = s])
  BY <1>7 DEF Finalize
<1>9. s.state \notin LiveStates
  BY <1>4, <1>5
<1>10. /\ RecordPart' /\ Grows
       /\ pilot'[p] = s /\ \A q \in Pids \ {p} : pilot'[q] = pilot[q]
  BY <1>2, <1>6, <1>8, <1>9, WriteOne
<1> QED  BY <1>2, <1>5, <1>10

-----------------------------------------------------------------------------
(* Jobs and those who wait for them, one pilot at a time. *)

\* What a step does not touch of pilot p stays sound.
LEMMA PidKept ==
  ASSUME NEW p \in Pids, PidSound(p), pilot'[p] = pilot[p], jobs'[p] = jobs[p],
         p \in stray => p \in stray', \A c : c.pid = p => (c \in co' <=> c \in co)
  PROVE  PidSound(p)'
<1>1. JobOf(p)'
  BY DEF PidSound, JobOf, Ended
<1>2. ASSUME NEW c \in co', c.pid = p
      PROVE  CoSound(c)'
  <2>1. CoSound(c)
    BY <1>2 DEF PidSound
  <2> QED  BY <1>2, <2>1 DEF CoSound, Ended
<1> QED  BY <1>1, <1>2 DEF PidSound

\* A step at pilot p only.
LEMMA OnlyAt ==
  ASSUME NEW p \in Pids, \A q \in Pids : PidSound(q), PidSound(p)',
         \A q \in Pids \ {p} : pilot'[q] = pilot[q] /\ jobs'[q] = jobs[q],
         stray \subseteq stray', \A c : c.pid # p => (c \in co' <=> c \in co)
  PROVE  \A q \in Pids : PidSound(q)'
<1> TAKE q \in Pids
<1>1. CASE q = p
  BY <1>1
<1>2. CASE q # p
  <2>1. PidSound(q) /\ pilot'[q] = pilot[q] /\ jobs'[q] = jobs[q] /\ (q \in stray => q \in stray')
    BY <1>2
  <2>2. \A c : c.pid = q => (c \in co' <=> c \in co)
    BY <1>2
  <2> QED  BY <2>1, <2>2, PidKept
<1> QED  BY <1>1, <1>2

\* A change of p's record that nobody has to know of.
LEMMA PidRecord ==
  ASSUME NEW p \in Pids, PidSound(p), jobs' = jobs, co' = co, stray \subseteq stray',
         Goes(pilot[p].state, pilot'[p].state), pilot[p].state # "NONE",
         pilot'[p].adopted = pilot[p].adopted, pilot'[p].job = pilot[p].job,
         pilot'[p].state # "NONE",
         pilot'[p].state \in PreActive => pilot'[p].state = pilot[p].state,
         Ended(p)' => Ended(p) \/ pilot[p].adopted \/ p \in stray' \/ jobs[p] = "ended"
  PROVE  PidSound(p)'
<1>1. JobOf(p)'
  <2>1. (pilot[p].state = "NONE" \/ pilot[p].adopted => jobs[p] = "none")'
    BY DEF PidSound, JobOf
  <2>2. (jobs[p] \in {"queued", "running"} /\ p \notin stray /\ (Ended(p) \/ ~pilot[p].job)
           => \E c \in co : c.pid = p /\ c.pc \in {"submitting", "undo", "cancelling"})'
    BY DEF PidSound, JobOf, Ended
  <2>3. (pilot[p].state = "PENDING" /\ ~pilot[p].adopted /\ p \notin stray
           => \E c \in co : c.pid = p)'
    BY DEF PidSound, JobOf, PreActive
  <2> QED  BY <2>1, <2>2, <2>3 DEF JobOf
<1>2. ASSUME NEW c \in co', c.pid = p
      PROVE  CoSound(c)'
  <2>1. CoSound(c)
    BY <1>2 DEF PidSound
  <2>2. Ended(p) => Ended(p)'
    BY DEF Ended, Goes, Terminal
  <2> QED  BY <1>2, <2>1, <2>2 DEF CoSound
<1> QED  BY <1>1, <1>2 DEF PidSound

\* A coroutine by its parts.
LEMMA CoParts ==
  ASSUME Rest, NEW c \in co
  PROVE  /\ c.pid \in Pids /\ c = [pid |-> c.pid, pc |-> c.pc] /\ CoSound(c) /\ PidSound(c.pid)
         /\ jobs[c.pid] \in {"none", "queued", "running", "ended"}
         /\ \A s : [c EXCEPT !.pc = s] = [pid |-> c.pid, pc |-> s]
         /\ \A d \in co : d.pid = c.pid /\ d.pc = c.pc => d = c
<1>1. co \subseteq [pid: Pids, pc: {"client", "submitting", "undo", "start", "cancelling"}]
  BY DEF Rest, OtherTypes
<1>2. c.pid \in Pids /\ c = [pid |-> c.pid, pc |-> c.pc]
  BY <1>1
<1>3. \A d \in co : d = [pid |-> d.pid, pc |-> d.pc]
  BY <1>1
<1>4. \A d \in co : d.pid = c.pid /\ d.pc = c.pc => d = c
  BY <1>2, <1>3
<1>5. PidSound(c.pid) /\ jobs[c.pid] \in {"none", "queued", "running", "ended"}
  BY <1>2 DEF Rest, OtherTypes
<1>6. CoSound(c)
  BY <1>5 DEF PidSound
<1>7. \A s : [c EXCEPT !.pc = s] = [pid |-> c.pid, pc |-> s]
  BY <1>1
<1> QED  BY <1>2, <1>4, <1>5, <1>6, <1>7

\* A coroutine ends: its pilot's other coroutines stay.
LEMMA CoEnds ==
  ASSUME Rest, NEW c \in co, co' = co \ {c}, UNCHANGED <<pool, sweep, net>>,
         jobs' \in [Pids -> {"none", "queued", "running", "ended"}],
         stray' \subseteq Pids, stray \subseteq stray', SweepSound',
         \A q \in Pids \ {c.pid} : pilot'[q] = pilot[q] /\ jobs'[q] = jobs[q],
         PidSound(c.pid)'
  PROVE  Rest'
<1>1. OtherTypes'
  BY DEF Rest, OtherTypes, pool
<1>2. c.pid \in Pids
  BY CoParts
<1>3. \A d : d.pid # c.pid => (d \in co' <=> d \in co)
  OBVIOUS
<1>4. \A q \in Pids : PidSound(q)
  BY DEF Rest
<1>5. \A q \in Pids : PidSound(q)'
  BY <1>2, <1>3, <1>4, OnlyAt
<1> QED  BY <1>1, <1>5 DEF Rest

\* A coroutine goes on to its next await.
LEMMA CoMoves ==
  ASSUME Rest, NEW c \in co, NEW s \in {"submitting", "undo", "cancelling"}, Move(c, s),
         UNCHANGED <<pool, sweep, world, stray>>,
         \A q \in Pids \ {c.pid} : pilot'[q] = pilot[q],
         PidSound(c.pid)'
  PROVE  Rest'
<1>1. c.pid \in Pids /\ co' = (co \ {c}) \cup {[pid |-> c.pid, pc |-> s]}
  BY CoParts DEF Move
<1>2. jobs' = jobs /\ net' = net
  BY DEF world
<1>3. OtherTypes'
  <2>1. OtherTypes
    BY DEF Rest
  <2>2. co' \subseteq [pid: Pids, pc: {"client", "submitting", "undo", "start", "cancelling"}]
    <3>1. co \subseteq [pid: Pids, pc: {"client", "submitting", "undo", "start", "cancelling"}]
      BY <2>1 DEF OtherTypes
    <3>2. [pid |-> c.pid, pc |-> s] \in [pid: Pids, pc: {"client", "submitting", "undo", "start", "cancelling"}]
      BY <1>1
    <3> QED  BY <1>1, <3>1, <3>2
  <2> QED  BY <1>2, <2>1, <2>2 DEF OtherTypes, pool
<1>4. \A d : d.pid # c.pid => (d \in co' <=> d \in co)
  BY <1>1
<1>5. \A q \in Pids : PidSound(q)
  BY DEF Rest
<1>6. \A q \in Pids : PidSound(q)'
  BY <1>1, <1>2, <1>4, <1>5, OnlyAt
<1>7. SweepSound'
  BY <1>2 DEF Rest, SweepSound
<1> QED  BY <1>3, <1>6, <1>7 DEF Rest

-----------------------------------------------------------------------------
(* _do_pilot_submit and _do_pilot_cancel. *)

Kept == RecordPart' /\ Rest' /\ Grows

\* A pilot that has failed asks for nobody when its job has ended or was let
\* go, or others that know of it stay.
LEMMA EndedPid ==
  ASSUME NEW p \in Pids, PidSound(p), co' \subseteq co, stray \subseteq stray',
         pilot[p].state # "NONE", Ended(p)', pilot'[p].adopted = pilot[p].adopted,
         pilot'[p].job = pilot[p].job,
         jobs'[p] = jobs[p] \/ (jobs'[p] = "ended" /\ ~pilot[p].adopted
                                /\ \A c \in co' : c.pid = p => c.pc # "client"),
         \/ p \in stray' \/ jobs'[p] \in {"none", "ended"}
         \/ \E c \in co' : c.pid = p /\ c.pc \in {"submitting", "undo", "cancelling"}
  PROVE  PidSound(p)'
<1>0. pilot'[p].state \notin {"NONE", "PENDING"}
  BY DEF Ended, Terminal
<1>1. JobOf(p)'
  BY <1>0 DEF PidSound, JobOf
<1>2. ASSUME NEW c \in co', c.pid = p
      PROVE  CoSound(c)'
  <2>1. c \in co /\ CoSound(c)
    BY <1>2 DEF PidSound
  <2>2. CoSound(c)' <=> /\ c.pc # "start" => ~pilot[p].adopted
                        /\ c.pc = "client" => /\ jobs'[p] = "none" /\ ~pilot[p].job
                                              /\ \A d \in co' : d.pid = p => d.pc \in {"client", "start"}
    BY <1>0, <1>2 DEF CoSound
  <2> QED  BY <1>2, <2>1, <2>2 DEF CoSound
<1> QED  BY <1>1, <1>2 DEF PidSound

\* _get_psij_client returned.
LEMMA ClientReadyKeeps ==
  ASSUME RecordPart, Rest, NEW c \in co, ClientReady(c)
  PROVE  Kept
<1>1. PICK p \in Pids : p = c.pid /\ CoSound(c) /\ PidSound(p)
  BY CoParts
<1>2. /\ c.pc = "client" /\ pilot' = [pilot EXCEPT ![p].child = p] /\ unsaved' = unsaved \cup {p}
      /\ Move(c, "submitting") /\ UNCHANGED <<pool, policy, sweep, world, stray>>
  BY <1>1 DEF ClientReady
<1>3. RecordTypes /\ RecordsSound /\ ChargedOnce
  BY DEF RecordPart
<1>4. PICK r \in PilotRec : r = pilot[p] /\ RecordSound(p, r)
  BY <1>3 DEF RecordTypes, RecordsSound
<1>5. PICK s : s = [r EXCEPT !.child = p]
  OBVIOUS
<1>6. /\ s \in PilotRec /\ s.state = r.state /\ s.member = r.member /\ s.adopted = r.adopted
      /\ s.job = r.job /\ s.child = p /\ s.active = r.active
  BY <1>5 DEF PilotRec, Endpoints
<1>7. pilot' \in [Pids -> PilotRec] /\ pilot'[p] = s /\ \A q \in Pids \ {p} : pilot'[q] = pilot[q]
  BY <1>2, <1>3, <1>4, <1>5, <1>6 DEF RecordTypes
<1>8. ~r.adopted /\ r.state # "NONE"
  BY <1>1, <1>2, <1>4 DEF CoSound
<1>9. RecordSound(p, s)
  BY <1>4, <1>6, <1>8 DEF RecordSound
<1>10. RecordsSound'
  <2>1. ASSUME NEW q \in Pids
        PROVE  RecordSound(q, pilot'[q])
    BY <1>3, <1>7, <1>9 DEF RecordsSound
  <2>2. ASSUME NEW q \in unsaved'
        PROVE  ~pilot'[q].adopted
    BY <1>2, <1>3, <1>6, <1>7, <1>8 DEF RecordsSound, RecordTypes
  <2> QED  BY <2>1, <2>2 DEF RecordsSound
<1>11. fails' = fails /\ paused' = paused
  BY <1>2 DEF policy
<1>12. RecordTypes'
  BY <1>2, <1>3, <1>7, <1>11 DEF RecordTypes
<1>13. \A q \in Pids : /\ pilot'[q].state = pilot[q].state /\ pilot'[q].member = pilot[q].member
                       /\ pilot'[q].active = pilot[q].active /\ pilot'[q].adopted = pilot[q].adopted
  BY <1>4, <1>6, <1>7
<1>14. ChargedOnce'
  <2>1. \A m \in Members : FailedOf(pilot', m) = FailedOf(pilot, m)
    BY <1>13 DEF FailedOf
  <2>2. \A m \in Members : fails'[m] <= Cardinality(FailedOf(pilot', m))
    BY <1>3, <1>11, <2>1, ChargedBy
  <2> QED  BY <2>2 DEF ChargedOnce, FailedOf
<1>15. OneEndpointOnePilot'
  BY <1>10, <1>12, <1>13, EndpointsKept
<1>16. Grows
  BY <1>13 DEF Grows, Goes
<1>17. co' = (co \ {c}) \cup {[pid |-> p, pc |-> "submitting"]} /\ jobs' = jobs /\ stray' = stray
  BY <1>1, <1>2, CoParts DEF Move, world
<1>18. jobs[p] = "none" /\ \A d \in co : d.pid = p => d.pc \in {"client", "start"}
  BY <1>1, <1>2 DEF CoSound
<1>19. PidSound(p)'
  <2>1. [pid |-> p, pc |-> "submitting"] \in co'
    BY <1>17
  <2>2. JobOf(p)'
    BY <1>17, <1>18, <2>1 DEF JobOf
  <2>3. ASSUME NEW d \in co', d.pid = p
        PROVE  CoSound(d)'
    <3>1. d = [pid |-> p, pc |-> "submitting"] \/ (d \in co /\ d # c)
      BY <1>17
    <3>2. d.pc # "client" /\ d.pc # "undo"
      <4>1. CASE d = [pid |-> p, pc |-> "submitting"]
        BY <4>1
      <4>2. CASE d \in co /\ d # c
        BY <1>1, <1>2, <1>18, <2>3, <4>2, CoParts
      <4> QED  BY <3>1, <4>1, <4>2
    <3>3. pilot'[p].state # "NONE" /\ ~pilot'[p].adopted
      BY <1>4, <1>6, <1>7, <1>8
    <3> QED  BY <2>3, <3>2, <3>3 DEF CoSound
  <2> QED  BY <2>2, <2>3 DEF PidSound
<1>20. Rest'
  BY <1>1, <1>2, <1>7, <1>19, CoMoves
<1> QED  BY <1>3, <1>10, <1>12, <1>14, <1>15, <1>16, <1>20 DEF Kept, RecordPart

\* The submission fails, psij having taken the job or not.
LEMMA FailsKeeps ==
  ASSUME RecordPart, Rest, NEW c \in co, NoClient(c) \/ SubmitRaises(c)
  PROVE  Kept
<1>1. PICK p \in Pids : p = c.pid /\ CoSound(c) /\ PidSound(p)
  BY CoParts
<1>2. /\ Finalize(p, "FAILED") /\ co' = co \ {c} /\ jobs' = jobs /\ net' = net
      /\ UNCHANGED <<pool, sweep>> /\ stray \subseteq stray' /\ stray' \subseteq stray \cup {p}
      /\ c.pc = "client" \/ p \in stray'
  BY <1>1 DEF NoClient, SubmitRaises, world
<1>3. /\ RecordPart' /\ Grows /\ \A q \in Pids \ {p} : pilot'[q] = pilot[q]
      /\ pilot'[p].state = "FAILED" /\ pilot'[p].adopted = pilot[p].adopted
      /\ pilot'[p].job = pilot[p].job
  <2>1. "FAILED" \in Terminal
    BY DEF Terminal
  <2> QED  BY <1>2, <2>1, FinalizeKeeps
<1>4. PidSound(p)'
  <2>1. pilot[p].state # "NONE" /\ (p \in stray' \/ jobs[p] = "none")
    BY <1>1, <1>2 DEF CoSound
  <2>2. Ended(p)'
    BY <1>3 DEF Ended, Terminal
  <2>3. co' \subseteq co
    BY <1>2
  <2> QED  BY <1>1, <1>2, <1>3, <2>1, <2>2, <2>3, EndedPid
<1>5. Rest'
  <2>1. SweepSound'
    BY <1>2 DEF Rest, SweepSound
  <2>2. jobs' \in [Pids -> {"none", "queued", "running", "ended"}] /\ stray' \subseteq Pids
    BY <1>2 DEF Rest, OtherTypes
  <2> QED  BY <1>1, <1>2, <1>3, <1>4, <2>1, <2>2, CoEnds
<1> QED  BY <1>3, <1>5 DEF Kept

\* submit_tunneled returned for a pilot that has ended: the job is cancelled.
LEMMA ReturnsLateKeeps ==
  ASSUME RecordPart, Rest, NEW c \in co, SubmitReturns(c), Ended(c.pid)
  PROVE  Kept
<1>1. PICK p \in Pids : p = c.pid /\ CoSound(c) /\ PidSound(p)
  BY CoParts
<1>2. /\ c.pc = "submitting" /\ Move(c, "undo") /\ UNCHANGED <<pilot, unsaved, policy>>
      /\ UNCHANGED <<pool, sweep, world, stray>>
  BY DEF SubmitReturns
<1>3. RecordPart' /\ Grows
  BY <1>2, RecordsUnchanged
<1>4. /\ pilot' = pilot /\ jobs' = jobs /\ stray' = stray
      /\ co' = (co \ {c}) \cup {[pid |-> p, pc |-> "undo"]}
  BY <1>1, <1>2, CoParts DEF Move, world
<1>5. PidSound(p)'
  <2>1. [pid |-> p, pc |-> "undo"] \in co'
    BY <1>4
  <2>2. JobOf(p)'
    BY <1>1, <1>4, <2>1 DEF JobOf, PidSound, Ended, Terminal
  <2>3. ASSUME NEW d \in co', d.pid = p
        PROVE  CoSound(d)'
    <3>1. CASE d = [pid |-> p, pc |-> "undo"]
      BY <1>1, <1>2, <1>4, <3>1 DEF CoSound, Ended
    <3>2. CASE d \in co
      <4>1. CoSound(d) /\ d.pc # "client"
        BY <1>1, <1>2, <2>3, <3>2 DEF PidSound, CoSound
      <4> QED  BY <1>4, <4>1 DEF CoSound, Ended
    <3> QED  BY <1>4, <3>1, <3>2
  <2> QED  BY <2>2, <2>3 DEF PidSound
<1>6. Rest'
  BY <1>1, <1>2, <1>4, <1>5, CoMoves
<1> QED  BY <1>3, <1>6 DEF Kept

\* submit_tunneled returned for a pilot that waits, or whose child was faster.
LEMMA ReturnsKeeps ==
  ASSUME RecordPart, Rest, NEW c \in co, SubmitReturns(c), ~Ended(c.pid)
  PROVE  Kept
<1>1. PICK p \in Pids : p = c.pid /\ CoSound(c) /\ PidSound(p)
  BY CoParts
<1>2. RecordTypes /\ RecordsSound
  BY DEF RecordPart
<1>3. PICK r \in PilotRec : r = pilot[p] /\ RecordSound(p, r)
  BY <1>2 DEF RecordTypes, RecordsSound
<1>4. PICK st : st = IF r.state = "PENDING" THEN "STARTING" ELSE r.state
  OBVIOUS
<1>5. PICK s : s = [r EXCEPT !.job = TRUE, !.state = st]
  OBVIOUS
<1>6. /\ c.pc = "submitting" /\ co' = co \ {c} /\ UNCHANGED <<pool, sweep, world, stray>>
      /\ Write([pilot EXCEPT ![p] = s]) /\ jobs[p] # "none"
  <2>1. Write([pilot EXCEPT ![p].job = TRUE, ![p].state = IF @ = "PENDING" THEN "STARTING" ELSE @])
    BY <1>1 DEF SubmitReturns
  <2>2. [pilot EXCEPT ![p].job = TRUE, ![p].state = IF @ = "PENDING" THEN "STARTING" ELSE @]
          = [pilot EXCEPT ![p] = s]
    BY <1>2, <1>3, <1>4, <1>5 DEF RecordTypes, PilotRec
  <2> QED  BY <1>1, <2>1, <2>2 DEF SubmitReturns
<1>7. ~r.adopted /\ r.state \in LiveStates /\ st \in LiveStates
  <2>1. ~r.adopted /\ r.state # "NONE" /\ r.state \notin Terminal
    BY <1>1, <1>3, <1>6 DEF CoSound, Ended
  <2>2. r.state \in LiveStates
    BY <2>1, Fields DEF States
  <2> QED  BY <1>4, <2>1, <2>2 DEF LiveStates, PreActive
<1>8. /\ s \in PilotRec /\ s.state = st /\ s.member = r.member /\ s.adopted = r.adopted
      /\ s.job = TRUE /\ s.child = r.child /\ s.active = r.active
  BY <1>5, <1>7 DEF PilotRec
<1>9. StepOf(p, r, s)
  <2>1. st \in PreActive => r.state \in PreActive
    BY <1>4 DEF PreActive
  <2>2. st # "NONE"
    BY <1>7 DEF LiveStates, PreActive
  <2>3. RecordSound(p, s)
    BY <1>3, <1>7, <1>8, <2>1, <2>2 DEF RecordSound
  <2>4. Goes(r.state, st)
    BY <1>4 DEF Goes
  <2> QED  BY <1>8, <2>3, <2>4 DEF StepOf
<1>10. /\ RecordPart' /\ Grows /\ pilot'[p] = s /\ \A q \in Pids \ {p} : pilot'[q] = pilot[q]
  BY <1>3, <1>6, <1>7, <1>9, WriteOne
<1>11. jobs' = jobs /\ stray' = stray /\ net' = net
  BY <1>6 DEF world
<1>12. PidSound(p)'
  <2>1. st \notin Terminal /\ st # "NONE" /\ st # "PENDING"
    BY <1>4, <1>7 DEF LiveStates, PreActive, Terminal
  <2>2. JobOf(p)'
    BY <1>7, <1>8, <1>10, <2>1 DEF JobOf, Ended
  <2>3. ASSUME NEW d \in co', d.pid = p
        PROVE  CoSound(d)'
    <3>1. CoSound(d) /\ d \in co
      BY <1>1, <1>6, <2>3 DEF PidSound
    <3>2. d.pc # "client"
      BY <1>1, <1>6, <2>3, <3>1 DEF CoSound
    <3>3. d.pc # "undo"
      BY <1>1, <2>3, <3>1 DEF CoSound
    <3> QED  BY <1>7, <1>8, <1>10, <2>1, <2>3, <3>2, <3>3 DEF CoSound
  <2> QED  BY <2>2, <2>3 DEF PidSound
<1>13. Rest'
  <2>1. SweepSound'
    BY <1>6, <1>11 DEF Rest, SweepSound
  <2>2. jobs' \in [Pids -> {"none", "queued", "running", "ended"}] /\ stray' \subseteq Pids
    BY <1>11 DEF Rest, OtherTypes
  <2> QED  BY <1>1, <1>6, <1>10, <1>11, <1>12, <2>1, <2>2, CoEnds
<1> QED  BY <1>10, <1>13 DEF Kept

\* psij was asked to cancel: the job has ended, or it is let go.
LEMMA LetGo ==
  ASSUME Rest, NEW c \in co, NEW ok \in BOOLEAN, c.pc \in {"undo", "cancelling"},
         co' = co \ {c}, UNCHANGED <<pool, sweep, net>>,
         jobs' = [jobs EXCEPT ![c.pid] = IF ok THEN "ended" ELSE @],
         stray' = (IF ok THEN stray ELSE stray \cup {c.pid}),
         Ended(c.pid)', pilot'[c.pid].adopted = pilot[c.pid].adopted,
         pilot'[c.pid].job = pilot[c.pid].job,
         \A q \in Pids \ {c.pid} : pilot'[q] = pilot[q]
  PROVE  Rest'
<1>1. PICK p \in Pids : p = c.pid /\ CoSound(c) /\ PidSound(p)
  BY CoParts
<1>2. jobs \in [Pids -> {"none", "queued", "running", "ended"}] /\ stray \subseteq Pids
  BY DEF Rest, OtherTypes
<1>3. /\ jobs' \in [Pids -> {"none", "queued", "running", "ended"}]
      /\ \A q \in Pids \ {p} : jobs'[q] = jobs[q]
      /\ jobs'[p] = IF ok THEN "ended" ELSE jobs[p]
  BY <1>1, <1>2
<1>4. stray' \subseteq Pids /\ stray \subseteq stray' /\ (ok \/ p \in stray')
  BY <1>1, <1>2
<1>5. ~pilot[p].adopted /\ pilot[p].state # "NONE"
  BY <1>1 DEF CoSound
<1>6. \A d \in co : d.pid = p => d.pc # "client"
  BY <1>1 DEF PidSound, CoSound
<1>7. PidSound(p)'
  <2>1. /\ jobs'[p] = jobs[p] \/ (jobs'[p] = "ended" /\ ~pilot[p].adopted
                                  /\ \A d \in co' : d.pid = p => d.pc # "client")
        /\ p \in stray' \/ jobs'[p] \in {"none", "ended"}
    BY <1>3, <1>4, <1>5, <1>6
  <2>2. /\ co' \subseteq co /\ Ended(p)' /\ pilot'[p].adopted = pilot[p].adopted
        /\ pilot'[p].job = pilot[p].job
    BY <1>1
  <2> QED  BY <1>1, <1>4, <1>5, <2>1, <2>2, EndedPid
<1>8. SweepSound'
  <2>1. sweep' = sweep /\ sweep \in {None} \cup [pid: Pids, said: {"nothing", "ended", "alive"}]
    BY DEF Rest, OtherTypes
  <2>2. \A q \in Pids : jobs[q] = "ended" => jobs'[q] = "ended"
    BY <1>3
  <2>3. sweep # None => sweep.pid \in Pids
    BY <2>1
  <2> QED  BY <2>1, <2>2, <2>3 DEF Rest, SweepSound
<1> QED  BY <1>1, <1>3, <1>4, <1>7, <1>8, CoEnds

\* psij_c.cancel_job for a job that came too late.
LEMMA UndoKeeps ==
  ASSUME RecordPart, Rest, NEW c \in co, NEW ok \in BOOLEAN, Undo(c, ok)
  PROVE  Kept
<1>1. c.pc = "undo" /\ UNCHANGED <<pilot, unsaved, policy>>
  BY DEF Undo
<1>2. RecordPart' /\ Grows
  BY <1>1, RecordsUnchanged
<1>3. Ended(c.pid)'
  BY <1>1, CoParts DEF CoSound, Ended
<1>4. Rest'
  BY <1>1, <1>3, LetGo DEF Undo
<1> QED  BY <1>2, <1>4 DEF Kept

\* psij_c.cancel_job for a pilot that is cancelled.
LEMMA CancelReturnsKeeps ==
  ASSUME RecordPart, Rest, NEW c \in co, NEW ok \in BOOLEAN, CancelReturns(c, ok)
  PROVE  Kept
<1>1. PICK p \in Pids : p = c.pid
  BY CoParts
<1>2. Finalize(p, "FAILED") /\ "FAILED" \in Terminal
  BY <1>1 DEF CancelReturns, Terminal
<1>3. /\ RecordPart' /\ Grows /\ \A q \in Pids \ {p} : pilot'[q] = pilot[q]
      /\ pilot'[p].state = "FAILED" /\ pilot'[p].adopted = pilot[p].adopted
      /\ pilot'[p].job = pilot[p].job
  BY <1>2, FinalizeKeeps
<1>4. Ended(p)'
  BY <1>2, <1>3 DEF Ended
<1>5. Rest'
  BY <1>1, <1>3, <1>4, LetGo DEF CancelReturns
<1> QED  BY <1>3, <1>5 DEF Kept

\* _do_pilot_cancel up to its first await.
LEMMA CancelStartKeeps ==
  ASSUME RecordPart, Rest, NEW c \in co, CancelStart(c)
  PROVE  Kept
<1>1. PICK p \in Pids : p = c.pid /\ CoSound(c) /\ PidSound(p)
  BY CoParts
<1>2. c.pc = "start" /\ UNCHANGED <<pool, sweep, world>>
  BY DEF CancelStart
<1>3. jobs' = jobs /\ net' = net
  BY <1>2 DEF world
<1>4. SweepSound'
  BY <1>2, <1>3 DEF Rest, SweepSound
<1>5. jobs' \in [Pids -> {"none", "queued", "running", "ended"}] /\ stray \subseteq Pids
  BY <1>3 DEF Rest, OtherTypes
<1>6. CASE Ended(p) /\ co' = co \ {c} /\ UNCHANGED <<pilot, unsaved, policy, stray>>
  <2>1. RecordPart' /\ Grows /\ pilot' = pilot /\ stray' = stray
    BY <1>6, RecordsUnchanged
  <2>2. PidSound(p)'
    <3>1. Ended(p)' /\ co' \subseteq co
      BY <1>6, <2>1 DEF Ended
    <3>2. \/ p \in stray' \/ jobs'[p] \in {"none", "ended"}
          \/ \E d \in co' : d.pid = p /\ d.pc \in {"submitting", "undo", "cancelling"}
      BY <1>1, <1>2, <1>3, <1>5, <1>6, <2>1 DEF PidSound, JobOf
    <3>3. pilot[p].state # "NONE"
      BY <1>1 DEF CoSound
    <3> QED  BY <1>1, <1>3, <2>1, <3>1, <3>2, <3>3, EndedPid
  <2>3. Rest'
    BY <1>1, <1>2, <1>3, <1>4, <1>5, <1>6, <2>1, <2>2, CoEnds
  <2> QED  BY <2>1, <2>3 DEF Kept
<1>7. CASE /\ ~Ended(p) /\ (pilot[p].adopted \/ ~pilot[p].job)
           /\ Finalize(p, EndOnCancel(p)) /\ co' = co \ {c} /\ UNCHANGED stray
  <2>1. EndOnCancel(p) \in Terminal
    BY DEF EndOnCancel, Terminal
  <2>2. /\ RecordPart' /\ Grows /\ \A q \in Pids \ {p} : pilot'[q] = pilot[q]
        /\ pilot'[p].state \in Terminal /\ pilot'[p].adopted = pilot[p].adopted
        /\ pilot'[p].job = pilot[p].job
    BY <1>7, <2>1, FinalizeKeeps
  <2>3. PidSound(p)'
    <3>1. Ended(p)' /\ co' \subseteq co
      BY <1>7, <2>2 DEF Ended
    <3>2. \/ p \in stray' \/ jobs'[p] \in {"none", "ended"}
          \/ \E d \in co' : d.pid = p /\ d.pc \in {"submitting", "undo", "cancelling"}
      BY <1>1, <1>2, <1>3, <1>5, <1>7 DEF PidSound, JobOf
    <3>3. pilot[p].state # "NONE"
      BY <1>1 DEF CoSound
    <3> QED  BY <1>1, <1>3, <1>7, <2>2, <3>1, <3>2, <3>3, EndedPid
  <2>4. Rest'
    BY <1>1, <1>2, <1>3, <1>4, <1>5, <1>7, <2>2, <2>3, CoEnds
  <2> QED  BY <2>2, <2>4 DEF Kept
<1>8. CASE /\ ~Ended(p) /\ pilot[p].job /\ Move(c, "cancelling")
           /\ UNCHANGED <<pilot, unsaved, policy, stray>>
  <2>1. RecordPart' /\ Grows /\ pilot' = pilot /\ stray' = stray
    BY <1>8, RecordsUnchanged
  <2>2. co' = (co \ {c}) \cup {[pid |-> p, pc |-> "cancelling"]}
    BY <1>1, <1>8, CoParts DEF Move
  <2>3. PidSound(p)'
    <3>1. [pid |-> p, pc |-> "cancelling"] \in co'
      BY <2>2
    <3>2. JobOf(p)'
      BY <1>1, <1>3, <2>1, <3>1 DEF JobOf, PidSound, Ended
    <3>3. ~pilot[p].adopted /\ pilot[p].state # "NONE"
      BY <1>1, <1>8 DEF CoSound, RecordPart, RecordsSound, RecordSound
    <3>4. ASSUME NEW d \in co', d.pid = p
          PROVE  CoSound(d)'
      <4>1. CASE d = [pid |-> p, pc |-> "cancelling"]
        BY <2>1, <3>3, <4>1 DEF CoSound
      <4>2. CASE d \in co
        <5>1. CoSound(d) /\ d.pc # "client"
          BY <1>1, <1>8, <3>4, <4>2 DEF PidSound, CoSound
        <5> QED  BY <1>3, <2>1, <5>1 DEF CoSound, Ended
      <4> QED  BY <2>2, <4>1, <4>2
    <3> QED  BY <3>2, <3>4 DEF PidSound
  <2>4. Rest'
    BY <1>1, <1>2, <1>8, <2>1, <2>3, CoMoves
  <2> QED  BY <2>1, <2>4 DEF Kept
<1> QED  BY <1>1, <1>6, <1>7, <1>8 DEF CancelStart

-----------------------------------------------------------------------------
(* The topology and the policy's tick. *)

\* One delivery of a topology to all records: from q, in which p's record may
\* be a new one, to t.
Applied(q, t, x, v, st) ==
  t \in [Pids -> PilotRec] /\ \A p \in Pids : ReconcileStep(p, q[p], t[p], Seen(q[p], x, v))

\* ReconcileAll changes every record as Reconciled does.
LEMMA ReconcileAllFacts ==
  ASSUME NEW q \in [Pids -> PilotRec], \A p \in Pids : RecordSound(p, q[p]),
         NEW x, NEW v, NEW st \in Terminal
  PROVE  Applied(q, ReconcileAll(q, x, v, st), x, v, st)
<1>1. ASSUME NEW p \in Pids
      PROVE  ReconcileStep(p, q[p], Reconciled(q[p], Seen(q[p], x, v), st), Seen(q[p], x, v))
  BY ReconciledFacts
<1>2. ASSUME NEW p \in Pids
      PROVE  Reconciled(q[p], Seen(q[p], x, v), st) \in PilotRec
  BY <1>1 DEF ReconcileStep, StepOf
<1> QED  BY <1>1, <1>2, Zenon DEF Applied, ReconcileAll

\* A delivery asks for nobody: what ends is adopted, or its job is let go.
LEMMA DeliveredPid ==
  ASSUME RecordPart, NEW p \in Pids, PidSound(p), NEW v,
         ReconcileStep(p, pilot[p], pilot'[p], v),
         jobs' = jobs, co' = co, stray \subseteq stray',
         v = "lost" /\ pilot[p].child = p => p \in stray'
  PROVE  PidSound(p)'
<1>1. RecordSound(p, pilot[p])
  BY DEF RecordPart, RecordsSound
<1>2. CASE pilot[p].state = "NONE"
  <2>1. pilot'[p] = pilot[p]
    BY <1>2 DEF ReconcileStep
  <2> QED  BY <2>1, PidKept
<1>3. CASE pilot[p].state # "NONE"
  <2>1. Goes(pilot[p].state, pilot'[p].state) /\ pilot'[p].state # "NONE"
    BY <1>3 DEF ReconcileStep, StepOf
  <2>2. pilot'[p].adopted = pilot[p].adopted /\ pilot'[p].job = pilot[p].job
    BY DEF ReconcileStep
  <2>3. pilot'[p].state \in PreActive => pilot'[p].state = pilot[p].state
    BY DEF ReconcileStep
  <2>4. Ended(p)' => Ended(p) \/ pilot[p].adopted \/ p \in stray'
    BY <1>1 DEF ReconcileStep, Ended, RecordSound
  <2> QED  BY <1>3, <2>1, <2>2, <2>3, <2>4, PidRecord
<1> QED  BY <1>2, <1>3

\* on_topology_change
LEMMA DeliverKeeps ==
  ASSUME RecordPart, Rest, NEW x \in Endpoints, NEW v \in {"present", "lost"},
         NEW st \in Terminal, Deliver(x, v, st)
  PROVE  Kept
<1>1. PICK q : q = ReconcileAll(pilot, x, v, st)
  OBVIOUS
<1>2. /\ net' = (IF v = "lost" THEN net \ {x} ELSE net \cup {x})
      /\ stray' = stray \cup {p \in Pids : v = "lost" /\ p = x}
      /\ UNCHANGED <<pool, co, sweep, jobs>>
      /\ Write(q) \/ UNCHANGED <<pilot, unsaved, policy>>
  BY <1>1 DEF Deliver
<1>3. pilot \in [Pids -> PilotRec] /\ \A p \in Pids : RecordSound(p, pilot[p])
  BY DEF RecordPart, RecordTypes, RecordsSound
<1>4. Applied(pilot, q, x, v, st)
  BY <1>1, <1>3, ReconcileAllFacts
<1>5. AllStep(q)
  BY <1>4 DEF Applied, ReconcileStep, AllStep
<1>6. /\ RecordPart' /\ Grows
      /\ (\A p \in Pids : ReconcileStep(p, pilot[p], pilot'[p], Seen(pilot[p], x, v))) \/ pilot' = pilot
  <2>1. CASE UNCHANGED <<pilot, unsaved, policy>>
    BY <2>1, RecordsUnchanged
  <2>2. CASE Write(q)
    <3>1. RecordTypes' /\ RecordsSound' /\ ChargedOnce' /\ pilot' = q
      BY <1>5, <2>2, WriteKeeps DEF RecordPart
    <3>2. \A p \in Pids : ReconcileStep(p, pilot[p], pilot'[p], Seen(pilot[p], x, v))
      BY <1>4, <3>1 DEF Applied
    <3>3. OneEndpointOnePilot'
      <4>1. \A p \in Pids : pilot'[p].state \in LiveStates /\ pilot'[p].adopted
                              => /\ pilot[p].state \in LiveStates /\ pilot[p].adopted
                                 /\ pilot'[p].member = pilot[p].member
        BY <3>2 DEF ReconcileStep
      <4> QED  BY <3>1, <4>1, EndpointsKept
    <3>4. Grows
      BY <3>2 DEF Grows, ReconcileStep, StepOf
    <3> QED  BY <3>1, <3>2, <3>3, <3>4 DEF RecordPart
  <2> QED  BY <1>2, <2>1, <2>2
<1>7. OtherTypes'
  BY <1>2 DEF Rest, OtherTypes, pool
<1>8. SweepSound'
  BY <1>2 DEF Rest, SweepSound
<1>9. ASSUME NEW p \in Pids
      PROVE  PidSound(p)'
  <2>1. PidSound(p) /\ jobs' = jobs /\ co' = co /\ stray \subseteq stray'
    BY <1>2 DEF Rest
  <2>2. CASE pilot' = pilot
    BY <2>1, <2>2, PidKept
  <2>3. CASE ReconcileStep(p, pilot[p], pilot'[p], Seen(pilot[p], x, v))
    <3>1. Seen(pilot[p], x, v) = "lost" /\ pilot[p].child = p => p \in stray'
      BY <1>2 DEF Seen
    <3> QED  BY <2>1, <2>3, <3>1, DeliveredPid
  <2> QED  BY <1>6, <2>2, <2>3
<1> QED  BY <1>6, <1>7, <1>8, <1>9 DEF Kept, Rest

\* A new record.
LEMMA NewPilotFacts ==
  ASSUME NEW p \in Pids, NEW m \in Members, mode[m] \in {"submit", "endpoint"}
  PROVE  LET n == NewPilot(m) IN
         /\ n \in PilotRec /\ RecordSound(p, n) /\ n.state = "PENDING" /\ n.member = m
         /\ n.adopted = (mode[m] = "endpoint") /\ ~n.active /\ ~n.job
<1>1. PICK a \in BOOLEAN : a = (mode[m] = "endpoint")
  OBVIOUS
<1>2. PICK k : k = IF mode[m] = "endpoint" THEN m ELSE None
  OBVIOUS
<1>3. NewPilot(m) = [NoPilot EXCEPT !.state = "PENDING", !.member = m, !.adopted = a, !.child = k]
  BY <1>1, <1>2, Zenon DEF NewPilot
<1>4. NewPilot(m) = [state |-> "PENDING", member |-> m, adopted |-> a, job |-> FALSE, child |-> k,
                     active |-> FALSE]
  BY <1>3 DEF NoPilot
<1>5. PICK n : n = NewPilot(m)
  OBVIOUS
<1>6. /\ n.state = "PENDING" /\ n.member = m /\ n.adopted = a /\ n.job = FALSE
      /\ n.child = k /\ n.active = FALSE
  BY <1>4, <1>5
<1>7. n \in PilotRec
  <2>1. k \in Endpoints \cup {None}
    BY <1>2 DEF Endpoints
  <2> QED  BY <1>4, <1>5, <2>1 DEF PilotRec, LiveStates, PreActive
<1>8. RecordSound(p, n)
  BY <1>1, <1>2, <1>6 DEF RecordSound, PreActive
<1> QED  BY <1>1, <1>5, <1>6, <1>7, <1>8

\* A record that nobody had becomes one of a new pilot, whatever its state.
LEMMA FirstStep ==
  ASSUME NEW p \in Pids, NEW r \in PilotRec, RecordSound(p, r), r.state = "NONE",
         NEW s \in PilotRec, RecordSound(p, s), s.active => s.state = "ACTIVE"
  PROVE  StepOf(p, r, s)
<1>1. ~r.active /\ s.active \in BOOLEAN /\ r.active \in BOOLEAN
  BY Fields DEF RecordSound
<1> QED  BY <1>1 DEF StepOf, Goes

\* Nobody waits for a pilot that is not there, and it has no job.
LEMMA NoneYet ==
  ASSUME Rest, NEW p \in Pids, pilot[p].state = "NONE"
  PROVE  jobs[p] = "none" /\ \A c \in co : c.pid # p
BY DEF Rest, PidSound, JobOf, CoSound

\* _submit_pilot for a member with batch jobs.
LEMMA TickSubmitKeeps ==
  ASSUME RecordPart, Rest, NEW m \in Members, NEW p \in Pids, Tick(m, p), mode[m] = "submit"
  PROVE  Kept
<1>1. PICK n : n = NewPilot(m)
  OBVIOUS
<1>2. /\ pilot[p].state = "NONE" /\ Write([pilot EXCEPT ![p] = n])
      /\ co' = co \cup {[pid |-> p, pc |-> "client"]} /\ UNCHANGED <<pool, sweep, world, stray>>
  BY <1>1 DEF Tick
<1>3. n \in PilotRec /\ RecordSound(p, n) /\ n.state = "PENDING" /\ ~n.adopted /\ ~n.active /\ ~n.job
  BY <1>1, NewPilotFacts
<1>4. pilot[p] \in PilotRec /\ RecordSound(p, pilot[p])
  BY DEF RecordPart, RecordTypes, RecordsSound
<1>5. StepOf(p, pilot[p], n)
  BY <1>2, <1>3, <1>4, FirstStep
<1>6. RecordPart' /\ Grows /\ pilot'[p] = n /\ \A q \in Pids \ {p} : pilot'[q] = pilot[q]
  BY <1>2, <1>3, <1>5, WriteOne
<1>7. jobs[p] = "none" /\ \A c \in co : c.pid # p
  BY <1>2, NoneYet
<1>8. jobs' = jobs /\ net' = net /\ stray' = stray
  BY <1>2 DEF world
<1>9. OtherTypes'
  <2>1. [pid |-> p, pc |-> "client"] \in [pid: Pids, pc: {"client", "submitting", "undo", "start", "cancelling"}]
    OBVIOUS
  <2> QED  BY <1>2, <1>8, <2>1 DEF Rest, OtherTypes, pool
<1>10. PidSound(p)'
  <2>1. \A c \in co' : c.pid = p => c.pc = "client"
    BY <1>2, <1>7
  <2>2. [pid |-> p, pc |-> "client"] \in co'
    BY <1>2
  <2>3. JobOf(p)'
    BY <1>7, <1>8, <2>2 DEF JobOf
  <2>4. ASSUME NEW c \in co', c.pid = p
        PROVE  CoSound(c)'
    BY <1>3, <1>6, <1>7, <1>8, <2>1, <2>4 DEF CoSound
  <2> QED  BY <2>3, <2>4 DEF PidSound
<1>11. \A q \in Pids : PidSound(q)'
  <2>1. \A c : c.pid # p => (c \in co' <=> c \in co)
    BY <1>2
  <2>2. \A q \in Pids : PidSound(q)
    BY DEF Rest
  <2> QED  BY <1>6, <1>8, <1>10, <2>1, <2>2, OnlyAt
<1>12. SweepSound'
  BY <1>2, <1>8 DEF Rest, SweepSound
<1> QED  BY <1>6, <1>9, <1>11, <1>12 DEF Kept, Rest

\* Pilots stand for different endpoints when no two have adopted that of the
\* same member.
LEMMA EndpointsApart ==
  ASSUME RecordTypes', RecordsSound',
         \A p, q \in Pids : (/\ p # q /\ pilot'[p].state \in LiveStates /\ pilot'[p].adopted
                             /\ pilot'[q].state \in LiveStates /\ pilot'[q].adopted)
                              => pilot'[p].member # pilot'[q].member
  PROVE  OneEndpointOnePilot'
<1>1. SUFFICES ASSUME NEW p \in Pids, NEW q \in Pids, p # q,
                      pilot'[p].state \in LiveStates, pilot'[q].state \in LiveStates,
                      pilot'[p].child # None, pilot'[p].child = pilot'[q].child
               PROVE  FALSE
  BY DEF OneEndpointOnePilot, LivePilots
<1>2. RecordSound(p, pilot'[p]) /\ RecordSound(q, pilot'[q])
  BY DEF RecordsSound
<1>3. pilot'[p].adopted /\ pilot'[q].adopted
  <2>1. pilot'[p].adopted => pilot'[p].child \in Members
    BY <1>2 DEF RecordSound
  <2>2. pilot'[q].adopted => pilot'[q].child \in Members
    BY <1>2 DEF RecordSound
  <2>3. ~pilot'[p].adopted => pilot'[p].child = p
    BY <1>1, <1>2 DEF RecordSound
  <2>4. ~pilot'[q].adopted => pilot'[q].child = q
    BY <1>1, <1>2 DEF RecordSound
  <2> QED  BY <1>1, <2>1, <2>2, <2>3, <2>4
<1> QED  BY <1>1, <1>2, <1>3 DEF RecordSound

\* The policy adopts an endpoint only when no live pilot of the member is left.
LEMMA NoneLive ==
  ASSUME RecordPart, NEW m \in Members, NEW p \in Pids, Tick(m, p), mode[m] = "endpoint"
  PROVE  LiveFor(m) = {}
<1>1. PassGuards(m)
  BY DEF Tick, Chosen
<1>2. Cardinality(LiveFor(m)) < 1
  BY <1>1 DEF PassGuards, BelowCap, CeilingOf
<1>3. LiveFor(m) \in SUBSET Pids
  BY DEF LiveFor, LivePilots
<1>4. IsFiniteSet(LiveFor(m)) /\ Cardinality(LiveFor(m)) \in Nat
  BY <1>3, PilotsFinite
<1>5. Cardinality(LiveFor(m)) = 0
  BY <1>2, <1>4
<1> QED  BY <1>4, <1>5, FS_EmptySet

\* _submit_pilot for an endpoint, with the topology that it applies.
LEMMA TickAdoptKeeps ==
  ASSUME RecordPart, Rest, NEW m \in Members, NEW p \in Pids, Tick(m, p), mode[m] = "endpoint"
  PROVE  Kept
<1>1. PICK n : n = NewPilot(m)
  OBVIOUS
<1>2. PICK q : q = [pilot EXCEPT ![p] = n]
  OBVIOUS
<1>3. PICK t : t = ReconcileAll(q, None, "absent", "FAILED")
  OBVIOUS
<1>4. /\ pilot[p].state = "NONE" /\ Write(t) /\ co' = co /\ UNCHANGED <<pool, sweep, world, stray>>
  BY <1>1, <1>2, <1>3 DEF Tick
<1>5. /\ n \in PilotRec /\ RecordSound(p, n) /\ n.state = "PENDING" /\ n.adopted /\ ~n.active /\ ~n.job
      /\ n.member = m
  BY <1>1, NewPilotFacts
<1>6. pilot \in [Pids -> PilotRec] /\ \A r \in Pids : RecordSound(r, pilot[r])
  BY DEF RecordPart, RecordTypes, RecordsSound
<1>7. q \in [Pids -> PilotRec] /\ q[p] = n /\ \A r \in Pids \ {p} : q[r] = pilot[r]
  BY <1>2, <1>5, <1>6
<1>8. Applied(q, t, None, "absent", "FAILED")
  <2>1. "FAILED" \in Terminal
    BY DEF Terminal
  <2>2. \A r \in Pids : RecordSound(r, q[r])
    BY <1>5, <1>6, <1>7
  <2> QED  BY <1>3, <1>7, <2>1, <2>2, ReconcileAllFacts
<1>9. \A r \in Pids : ReconcileStep(r, q[r], t[r], Seen(q[r], None, "absent"))
  BY <1>8 DEF Applied
<1>10. /\ t[p].member = m /\ t[p].adopted /\ ~t[p].job /\ t[p].state # "NONE"
       /\ t[p] \in PilotRec /\ RecordSound(p, t[p]) /\ (t[p].active => t[p].state = "ACTIVE")
  BY <1>5, <1>7, <1>9 DEF ReconcileStep, StepOf
<1>11. StepOf(p, pilot[p], t[p])
  BY <1>4, <1>6, <1>10, FirstStep
<1>12. AllStep(t)
  <2>1. \A r \in Pids \ {p} : StepOf(r, pilot[r], t[r])
    BY <1>7, <1>9 DEF ReconcileStep
  <2> QED  BY <1>8, <1>11, <2>1 DEF AllStep, Applied
<1>13. RecordTypes' /\ RecordsSound' /\ ChargedOnce' /\ pilot' = t
  BY <1>4, <1>12, WriteKeeps DEF RecordPart
<1>14. \A r \in Pids \ {p} : ReconcileStep(r, pilot[r], pilot'[r], Seen(pilot[r], None, "absent"))
  BY <1>7, <1>9, <1>13
<1>15. OneEndpointOnePilot'
  <2>1. ASSUME NEW r \in Pids \ {p}, pilot'[r].state \in LiveStates, pilot'[r].adopted
        PROVE  /\ pilot[r].state \in LiveStates /\ pilot[r].adopted
               /\ pilot'[r].member = pilot[r].member /\ pilot[r].member # m
    <3>1. /\ pilot[r].state \in LiveStates /\ pilot[r].adopted
          /\ pilot'[r].member = pilot[r].member
      BY <1>14, <2>1 DEF ReconcileStep
    <3>2. pilot[r].member # m
      BY <3>1, NoneLive DEF LiveFor, LivePilots
    <3> QED  BY <3>1, <3>2
  <2>2. pilot'[p].member = m
    BY <1>10, <1>13
  <2>3. ASSUME NEW r \in Pids, NEW s \in Pids, r # s,
               pilot'[r].state \in LiveStates, pilot'[r].adopted,
               pilot'[s].state \in LiveStates, pilot'[s].adopted
        PROVE  pilot'[r].member # pilot'[s].member
    <3>1. CASE r = p \/ s = p
      BY <2>1, <2>2, <2>3, <3>1
    <3>2. CASE r # p /\ s # p
      <4>1. /\ pilot[r].state \in LiveStates /\ pilot[r].adopted /\ pilot'[r].member = pilot[r].member
            /\ pilot[s].state \in LiveStates /\ pilot[s].adopted /\ pilot'[s].member = pilot[s].member
        BY <2>1, <2>3, <3>2
      <4>2. pilot[r].child = pilot[r].member /\ pilot[s].child = pilot[s].member /\ pilot[r].child # None
        BY <1>6, <4>1 DEF RecordSound
      <4>3. pilot[r].child # pilot[s].child
        BY <2>3, <4>1, <4>2 DEF RecordPart, OneEndpointOnePilot, LivePilots
      <4> QED  BY <4>1, <4>2, <4>3
    <3> QED  BY <3>1, <3>2
  <2> QED  BY <1>13, <2>3, EndpointsApart
<1>16. Grows
  BY <1>12, <1>13 DEF Grows, AllStep, StepOf
<1>17. jobs' = jobs /\ net' = net /\ stray' = stray
  BY <1>4 DEF world
<1>18. OtherTypes'
  BY <1>4, <1>17 DEF Rest, OtherTypes, pool
<1>19. SweepSound'
  BY <1>4, <1>17 DEF Rest, SweepSound
<1>20. PidSound(p)'
  <2>1. jobs[p] = "none" /\ \A c \in co : c.pid # p
    BY <1>4, NoneYet
  <2>2. JobOf(p)'
    BY <1>10, <1>13, <1>17, <2>1 DEF JobOf
  <2> QED  BY <1>4, <2>1, <2>2 DEF PidSound
<1>21. ASSUME NEW r \in Pids \ {p}
       PROVE  PidSound(r)'
  <2>1. Seen(pilot[r], None, "absent") # "lost"
    BY DEF Seen
  <2>2. PidSound(r) /\ stray \subseteq stray'
    BY <1>17 DEF Rest
  <2> QED  BY <1>4, <1>14, <1>17, <2>1, <2>2, DeliveredPid
<1>22. \A r \in Pids : PidSound(r)'
  BY <1>20, <1>21
<1> QED  BY <1>13, <1>15, <1>16, <1>18, <1>19, <1>22 DEF Kept, Rest, RecordPart

-----------------------------------------------------------------------------
(* The sweep, members, sessions, restarts and jobs. *)

\* _reconcile_overdue_pilots
LEMMA SweepStartKeeps ==
  ASSUME RecordPart, Rest, NEW p \in Pids, SweepStart(p)
  PROVE  Kept
<1>1. UNCHANGED <<pool, co, world, stray>> /\ pilot[p].state \in PreActive
  BY DEF SweepStart
<1>2. jobs' = jobs /\ net' = net /\ co' = co /\ stray' = stray
  BY <1>1 DEF world
<1>3. PidSound(p) /\ \A q \in Pids : PidSound(q)
  BY DEF Rest
<1>4. CASE pilot[p].adopted /\ Finalize(p, "FAILED") /\ UNCHANGED sweep
  <2>1. "FAILED" \in Terminal
    BY DEF Terminal
  <2>2. /\ RecordPart' /\ Grows /\ \A q \in Pids \ {p} : pilot'[q] = pilot[q]
        /\ pilot'[p].state = "FAILED" /\ pilot'[p].adopted = pilot[p].adopted
        /\ pilot'[p].job = pilot[p].job
    BY <1>4, <2>1, FinalizeKeeps
  <2>3. OtherTypes'
    BY <1>1, <1>2, <1>4 DEF Rest, OtherTypes, pool
  <2>4. PidSound(p)'
    <3>1. pilot[p].state # "NONE" /\ pilot'[p].state \notin PreActive /\ pilot'[p].state # "NONE"
      BY <1>1, <2>2 DEF PreActive
    <3>2. Goes(pilot[p].state, pilot'[p].state)
      BY <2>2 DEF Goes
    <3> QED  BY <1>2, <1>3, <1>4, <2>2, <3>1, <3>2, PidRecord
  <2>5. \A q \in Pids : PidSound(q)'
    BY <1>2, <1>3, <2>2, <2>4, OnlyAt
  <2>6. SweepSound'
    BY <1>2, <1>4 DEF Rest, SweepSound
  <2> QED  BY <2>2, <2>3, <2>5, <2>6 DEF Kept, Rest
<1>5. CASE sweep' = [pid |-> p, said |-> "nothing"] /\ UNCHANGED <<pilot, unsaved, policy>>
  <2>1. RecordPart' /\ Grows /\ pilot' = pilot
    BY <1>5, RecordsUnchanged
  <2>2. OtherTypes'
    BY <1>1, <1>2, <1>5 DEF Rest, OtherTypes, pool
  <2>3. \A q \in Pids : PidSound(q)'
    BY <1>2, <1>3, <2>1, PidKept
  <2>4. SweepSound'
    <3>1. sweep'.said = "nothing"
      BY <1>5
    <3> QED  BY <3>1 DEF SweepSound
  <2> QED  BY <2>1, <2>2, <2>3, <2>4 DEF Kept, Rest
<1> QED  BY <1>4, <1>5 DEF SweepStart

\* psij looks at the job.
LEMMA SweepAnsweredKeeps ==
  ASSUME RecordPart, Rest, SweepAnswered
  PROVE  Kept
<1>1. UNCHANGED <<pool, pilot, unsaved, policy, co, world, stray>>
  BY DEF SweepAnswered
<1>2. jobs' = jobs /\ net' = net /\ co' = co /\ stray' = stray /\ pilot' = pilot
  BY <1>1 DEF world
<1>3. RecordPart' /\ Grows
  BY <1>1, RecordsUnchanged
<1>4. PICK s : s = IF jobs[sweep.pid] = "ended" THEN "ended" ELSE "alive"
  OBVIOUS
<1>5. sweep \in [pid: Pids, said: {"nothing", "ended", "alive"}]
  BY DEF Rest, OtherTypes, SweepAnswered
<1>6. sweep' = [pid |-> sweep.pid, said |-> s]
  BY <1>4, <1>5 DEF SweepAnswered
<1>7. sweep' \in [pid: Pids, said: {"nothing", "ended", "alive"}]
  BY <1>4, <1>5, <1>6
<1>8. OtherTypes'
  BY <1>1, <1>2, <1>7 DEF Rest, OtherTypes, pool
<1>9. SweepSound'
  BY <1>2, <1>4, <1>6 DEF SweepSound
<1>10. \A q \in Pids : PidSound(q)'
  BY <1>2, PidKept DEF Rest
<1> QED  BY <1>3, <1>8, <1>9, <1>10 DEF Kept, Rest

\* The answer of the sweep.
LEMMA SweepEndsKeeps ==
  ASSUME RecordPart, Rest, SweepEnds
  PROVE  Kept
<1>1. sweep # None /\ sweep' = None /\ UNCHANGED <<pool, co, world, stray>>
  BY DEF SweepEnds
<1>2. jobs' = jobs /\ net' = net /\ co' = co /\ stray' = stray
  BY <1>1 DEF world
<1>3. OtherTypes'
  BY <1>1, <1>2 DEF Rest, OtherTypes, pool
<1>4. SweepSound'
  BY <1>1 DEF SweepSound
<1>5. \A q \in Pids : PidSound(q)
  BY DEF Rest
<1>6. PICK p \in Pids : p = sweep.pid
  BY <1>1 DEF Rest, OtherTypes
<1>7. CASE sweep.said = "ended" /\ Finalize(p, "FAILED")
  <2>1. jobs[p] = "ended"
    BY <1>1, <1>6, <1>7 DEF Rest, SweepSound
  <2>2. "FAILED" \in Terminal
    BY DEF Terminal
  <2>3. /\ RecordPart' /\ Grows /\ \A q \in Pids \ {p} : pilot'[q] = pilot[q]
        /\ pilot'[p].state = "FAILED" /\ pilot'[p].adopted = pilot[p].adopted
        /\ pilot'[p].job = pilot[p].job
    BY <1>7, <2>2, FinalizeKeeps
  <2>4. PidSound(p)'
    <3>1. pilot[p].state # "NONE"
      BY <1>5, <2>1 DEF PidSound, JobOf
    <3>2. Goes(pilot[p].state, pilot'[p].state)
      BY <2>3 DEF Goes
    <3>3. pilot'[p].state \notin PreActive /\ pilot'[p].state # "NONE"
      BY <2>3 DEF PreActive
    <3> QED  BY <1>2, <1>5, <2>1, <2>3, <3>1, <3>2, <3>3, PidRecord
  <2>5. \A q \in Pids : PidSound(q)'
    BY <1>2, <1>5, <2>3, <2>4, OnlyAt
  <2> QED  BY <1>3, <1>4, <2>3, <2>5 DEF Kept, Rest
<1>8. CASE UNCHANGED <<pilot, unsaved, policy>>
  <2>1. RecordPart' /\ Grows /\ pilot' = pilot
    BY <1>8, RecordsUnchanged
  <2>2. \A q \in Pids : PidSound(q)'
    BY <1>2, <1>5, <2>1, PidKept
  <2> QED  BY <1>3, <1>4, <2>1, <2>2 DEF Kept, Rest
<1> QED  BY <1>6, <1>7, <1>8 DEF SweepEnds

\* Fewer failures are held against members, or more of the file is saved.
LEMMA PolicyEased ==
  ASSUME RecordPart, pilot' = pilot, unsaved' \subseteq unsaved,
         fails' \in [Members -> 0..MaxFailures], \A m \in Members : fails'[m] <= fails[m],
         paused' \subseteq paused
  PROVE  RecordPart' /\ Grows
<1>1. RecordTypes' /\ RecordsSound'
  BY DEF RecordPart, RecordTypes, RecordsSound
<1>2. ChargedOnce'
  <2>1. ASSUME NEW m \in Members
        PROVE  fails'[m] <= Cardinality(FailedOf(pilot', m))
    <3>1. FailedOf(pilot, m) \in SUBSET Pids
      BY DEF FailedOf
    <3>2. Cardinality(FailedOf(pilot, m)) \in Nat
      BY <3>1, PilotsFinite
    <3>3. fails[m] <= Cardinality(FailedOf(pilot, m))
      BY ChargedBy DEF RecordPart
    <3>4. fails[m] \in Nat /\ fails'[m] \in Nat /\ fails'[m] <= fails[m]
      BY DEF RecordPart, RecordTypes
    <3>5. FailedOf(pilot', m) = FailedOf(pilot, m)
      OBVIOUS
    <3> QED  BY <3>2, <3>3, <3>4, <3>5
  <2> QED  BY <2>1 DEF ChargedOnce, FailedOf
<1>3. OneEndpointOnePilot'
  BY DEF RecordPart, OneEndpointOnePilot, LivePilots
<1>4. Grows
  BY DEF Grows, Goes
<1> QED  BY <1>1, <1>2, <1>3, <1>4 DEF RecordPart

\* Cancellations are started for live pilots.
LEMMA CancelsStarted ==
  ASSUME Rest, pilot' = pilot, UNCHANGED <<sweep, world, stray>>,
         NEW S, S \subseteq LivePilots, co' = co \cup {[pid |-> p, pc |-> "start"] : p \in S}
  PROVE  SweepSound' /\ (\A p \in Pids : PidSound(p)')
         /\ co' \subseteq [pid: Pids, pc: {"client", "submitting", "undo", "start", "cancelling"}]
<1>1. jobs' = jobs /\ stray' = stray
  BY DEF world
<1>2. SweepSound'
  BY <1>1 DEF Rest, SweepSound
<1>3. ASSUME NEW c \in co', c \notin co
      PROVE  \E p \in S : c = [pid |-> p, pc |-> "start"]
  BY <1>3
<1>4. \A p \in S : p \in Pids /\ pilot[p].state # "NONE"
  BY DEF LivePilots, LiveStates, PreActive
<1>5. ASSUME NEW c \in co'
      PROVE  c \in [pid: Pids, pc: {"client", "submitting", "undo", "start", "cancelling"}]
  <2>1. CASE c \in co
    BY <2>1 DEF Rest, OtherTypes
  <2>2. CASE c \notin co
    BY <1>3, <1>4, <2>2
  <2> QED  BY <2>1, <2>2
<1>6. ASSUME NEW p \in Pids
      PROVE  PidSound(p)'
  <2>1. PidSound(p)
    BY DEF Rest
  <2>2. JobOf(p)'
    <3>1. co \subseteq co'
      OBVIOUS
    <3>2. Ended(p)' <=> Ended(p)
      BY DEF Ended
    <3> QED  BY <1>1, <2>1, <3>1, <3>2 DEF PidSound, JobOf
  <2>3. ASSUME NEW c \in co', c.pid = p
        PROVE  CoSound(c)'
    <3>1. CASE c \in co
      <4>1. CoSound(c)
        BY <2>1, <2>3, <3>1 DEF PidSound
      <4>2. ASSUME c.pc = "client", NEW d \in co', d.pid = c.pid
            PROVE  d.pc \in {"client", "start"}
        <5>1. CASE d \in co
          BY <4>1, <4>2, <5>1 DEF CoSound
        <5>2. CASE d \notin co
          BY <1>3, <5>2
        <5> QED  BY <5>1, <5>2
      <4> QED  BY <1>1, <4>1, <4>2 DEF CoSound, Ended
    <3>2. CASE c \notin co
      <4>1. PICK q \in S : c = [pid |-> q, pc |-> "start"]
        BY <1>3, <3>2
      <4>2. c.pid = q /\ c.pc = "start"
        BY <4>1
      <4>3. pilot'[c.pid].state # "NONE"
        BY <1>4, <4>2
      <4> QED  BY <4>2, <4>3 DEF CoSound
    <3> QED  BY <3>1, <3>2
  <2> QED  BY <2>2, <2>3 DEF PidSound
<1>7. co' \subseteq [pid: Pids, pc: {"client", "submitting", "undo", "start", "cancelling"}]
  BY <1>5
<1> QED  BY <1>2, <1>6, <1>7

\* A step that leaves records, coroutines, jobs and what was let go alone.
LEMMA WaitersUntouched ==
  ASSUME Rest, pilot' = pilot, UNCHANGED <<co, sweep, world, stray>>
  PROVE  SweepSound' /\ \A p \in Pids : PidSound(p)'
<1>1. jobs' = jobs /\ stray' = stray /\ co' = co
  BY DEF world
<1>2. SweepSound'
  BY <1>1 DEF Rest, SweepSound
<1>3. \A p \in Pids : PidSound(p)'
  BY <1>1, PidKept DEF Rest
<1> QED  BY <1>2, <1>3

\* _route_add_member
LEMMA AddMemberKeeps ==
  ASSUME RecordPart, Rest, NEW m \in Members, NEW how \in {"submit", "endpoint"}, AddMember(m, how)
  PROVE  Kept
<1>1. /\ order' = (IF m \in Declared THEN order ELSE Append(order, m))
      /\ mode' = [mode EXCEPT ![m] = how] /\ unsaved' = {}
      /\ UNCHANGED <<open, owner, pilot, policy, co, sweep, world, stray>>
  BY DEF AddMember
<1>2. RecordPart' /\ Grows
  <2>1. fails' = fails /\ paused' = paused /\ pilot' = pilot
    BY <1>1 DEF policy
  <2>2. fails \in [Members -> 0..MaxFailures] /\ \A n \in Members : fails[n] <= fails[n]
    BY DEF RecordPart, RecordTypes
  <2> QED  BY <1>1, <2>1, <2>2, PolicyEased
<1>3. SweepSound' /\ \A p \in Pids : PidSound(p)'
  BY <1>1, WaitersUntouched
<1>4. OtherTypes'
  <2>1. order \in Seq(Members) /\ mode \in [Members -> {"submit", "endpoint"}]
    BY DEF Rest, OtherTypes
  <2>2. order' \in Seq(Members)
    BY <1>1, <2>1, AppendFacts
  <2>3. mode' \in [Members -> {"submit", "endpoint"}]
    BY <1>1, <2>1
  <2> QED  BY <1>1, <2>2, <2>3 DEF Rest, OtherTypes, world
<1> QED  BY <1>2, <1>3, <1>4 DEF Kept, Rest

\* _route_remove_member
LEMMA RemoveMemberKeeps ==
  ASSUME RecordPart, Rest, NEW m \in Members, RemoveMember(m)
  PROVE  Kept
<1>1. /\ order' = RemoveFirst(order, m) /\ fails' = [fails EXCEPT ![m] = 0]
      /\ paused' = paused \ {m} /\ unsaved' = {}
      /\ co' = co \cup {[pid |-> p, pc |-> "start"] : p \in LiveFor(m)}
      /\ UNCHANGED <<open, owner, mode, pilot, sweep, world, stray>>
  BY DEF RemoveMember
<1>2. RecordPart' /\ Grows
  <2>1. fails \in [Members -> 0..MaxFailures]
    BY DEF RecordPart, RecordTypes
  <2>2. fails' \in [Members -> 0..MaxFailures] /\ \A n \in Members : fails'[n] <= fails[n]
    BY <1>1, <2>1
  <2> QED  BY <1>1, <2>2, PolicyEased
<1>3. LiveFor(m) \subseteq LivePilots
  BY DEF LiveFor
<1>4. /\ SweepSound' /\ \A p \in Pids : PidSound(p)'
      /\ co' \subseteq [pid: Pids, pc: {"client", "submitting", "undo", "start", "cancelling"}]
  BY <1>1, <1>3, CancelsStarted
<1>5. OtherTypes'
  <2>1. order' \in Seq(Members)
    BY <1>1, RemoveFirstType DEF Rest, OtherTypes
  <2> QED  BY <1>1, <1>4, <2>1 DEF Rest, OtherTypes, world
<1> QED  BY <1>2, <1>4, <1>5 DEF Kept, Rest

\* _teardown_session_pools
LEMMA CloseSessionKeeps ==
  ASSUME RecordPart, Rest, CloseSession
  PROVE  Kept
<1>1. /\ open' = FALSE /\ owner' = FALSE
      /\ co' = co \cup {[pid |-> p, pc |-> "start"] : p \in LivePilots}
      /\ UNCHANGED <<order, mode, pilot, unsaved, policy, sweep, world, stray>>
  BY DEF CloseSession
<1>2. RecordPart' /\ Grows
  BY <1>1, RecordsUnchanged
<1>3. /\ SweepSound' /\ \A p \in Pids : PidSound(p)'
      /\ co' \subseteq [pid: Pids, pc: {"client", "submitting", "undo", "start", "cancelling"}]
  BY <1>1, CancelsStarted
<1>4. OtherTypes'
  BY <1>1, <1>3 DEF Rest, OtherTypes, world
<1> QED  BY <1>2, <1>3, <1>4 DEF Kept, Rest

\* The owner comes back, or a backoff is over.
LEMMA QuietKeeps ==
  ASSUME RecordPart, Rest, RegisterSession \/ (\E m \in Members : BackoffOver(m))
  PROVE  Kept
<1>1. /\ open' = open /\ owner' \in BOOLEAN /\ order' = order /\ mode' = mode /\ pilot' = pilot
      /\ unsaved' = unsaved /\ fails' = fails /\ paused' \subseteq paused
      /\ UNCHANGED <<co, sweep, world, stray>>
  BY DEF RegisterSession, BackoffOver, pool, policy, Rest, OtherTypes
<1>2. RecordPart' /\ Grows
  <2>1. fails \in [Members -> 0..MaxFailures] /\ \A n \in Members : fails[n] <= fails[n]
    BY DEF RecordPart, RecordTypes
  <2> QED  BY <1>1, <2>1, PolicyEased
<1>3. SweepSound' /\ \A p \in Pids : PidSound(p)'
  BY <1>1, WaitersUntouched
<1>4. OtherTypes'
  BY <1>1 DEF Rest, OtherTypes, world
<1> QED  BY <1>2, <1>3, <1>4 DEF Kept, Rest

\* _replay_state: nobody waits any more, what was under way is let go.
LEMMA RestartKeeps ==
  ASSUME RecordPart, Rest, Restart
  PROVE  Kept
<1>1. /\ open' = TRUE /\ owner' = FALSE /\ order' = order /\ mode' = mode /\ jobs' = jobs
      /\ pilot' = [p \in Pids |-> IF p \in unsaved THEN [pilot[p] EXCEPT !.child = None] ELSE pilot[p]]
      /\ unsaved' = {} /\ fails' = [m \in Members |-> 0] /\ paused' = {}
      /\ stray' = stray \cup {c.pid : c \in co} /\ co' = {} /\ sweep' = None /\ net' = {}
  BY DEF Restart
<1>2. ASSUME NEW p \in Pids
      PROVE  /\ pilot'[p] \in PilotRec /\ RecordSound(p, pilot'[p])
             /\ pilot'[p].state = pilot[p].state /\ pilot'[p].member = pilot[p].member
             /\ pilot'[p].adopted = pilot[p].adopted /\ pilot'[p].job = pilot[p].job
  <2>1. PICK r \in PilotRec : r = pilot[p] /\ RecordSound(p, r)
    BY DEF RecordPart, RecordTypes, RecordsSound
  <2>2. CASE p \in unsaved
    <3>1. ~r.adopted
      BY <2>1, <2>2 DEF RecordPart, RecordsSound
    <3>2. PICK s : s = [r EXCEPT !.child = None]
      OBVIOUS
    <3>3. /\ s \in PilotRec /\ s.state = r.state /\ s.member = r.member /\ s.adopted = r.adopted
          /\ s.job = r.job /\ s.child = None /\ s.active = r.active
      BY <3>2 DEF PilotRec
    <3>4. RecordSound(p, s)
      BY <2>1, <3>1, <3>3 DEF RecordSound
    <3>5. pilot'[p] = s
      BY <1>1, <2>1, <2>2, <3>2
    <3> QED  BY <2>1, <3>3, <3>4, <3>5
  <2>3. CASE p \notin unsaved
    BY <1>1, <2>1, <2>3
  <2> QED  BY <2>2, <2>3
<1>3. RecordTypes' /\ RecordsSound'
  <2>1. pilot' \in [Pids -> PilotRec]
    BY <1>1, <1>2
  <2>2. fails' \in [Members -> 0..MaxFailures]
    BY <1>1
  <2> QED  BY <1>1, <1>2, <2>1, <2>2 DEF RecordTypes, RecordsSound
<1>4. ChargedOnce'
  <2>1. ASSUME NEW m \in Members
        PROVE  fails'[m] <= Cardinality(FailedOf(pilot', m))
    <3>1. FailedOf(pilot', m) \in SUBSET Pids
      BY DEF FailedOf
    <3>2. Cardinality(FailedOf(pilot', m)) \in Nat
      BY <3>1, PilotsFinite
    <3> QED  BY <1>1, <3>2
  <2> QED  BY <2>1 DEF ChargedOnce, FailedOf
<1>5. OneEndpointOnePilot'
  BY <1>2, <1>3, EndpointsKept
<1>6. Grows
  BY <1>2 DEF Grows, Goes
<1>7. OtherTypes'
  <2>1. {c.pid : c \in co} \subseteq Pids
    BY DEF Rest, OtherTypes
  <2> QED  BY <1>1, <2>1 DEF Rest, OtherTypes
<1>8. SweepSound'
  BY <1>1 DEF SweepSound
<1>9. ASSUME NEW p \in Pids
      PROVE  PidSound(p)'
  <2>1. PidSound(p)
    BY DEF Rest
  <2>2. (\E c \in co : c.pid = p) => p \in stray'
    BY <1>1
  <2>3. Ended(p)' <=> Ended(p)
    BY <1>2 DEF Ended
  <2>4. JobOf(p)'
    BY <1>1, <1>2, <2>1, <2>2, <2>3 DEF PidSound, JobOf
  <2> QED  BY <1>1, <2>4 DEF PidSound
<1> QED  BY <1>3, <1>4, <1>5, <1>6, <1>7, <1>8, <1>9 DEF Kept, Rest, RecordPart

\* psij takes a job that somebody waits for; jobs start and end.
LEMMA JobStepKeeps ==
  ASSUME RecordPart, Rest, NEW p \in Pids, NEW to \in {"queued", "running", "ended"}, JobStep(p, to)
  PROVE  Kept
<1>1. /\ jobs' = [jobs EXCEPT ![p] = to]
      /\ UNCHANGED <<pool, pilot, unsaved, policy, co, sweep, net, stray>>
  BY DEF JobStep
<1>2. \/ to = "queued" /\ jobs[p] = "none" /\ [pid |-> p, pc |-> "submitting"] \in co
      \/ to = "running" /\ jobs[p] = "queued"
      \/ to = "ended" /\ jobs[p] \in {"queued", "running"}
  BY DEF JobStep
<1>3. RecordPart' /\ Grows
  BY <1>1, RecordsUnchanged
<1>4. /\ jobs' \in [Pids -> {"none", "queued", "running", "ended"}] /\ jobs'[p] = to
      /\ \A q \in Pids \ {p} : jobs'[q] = jobs[q]
  BY <1>1 DEF Rest, OtherTypes
<1>5. OtherTypes'
  BY <1>1, <1>4 DEF Rest, OtherTypes, pool
<1>6. SweepSound'
  <2>1. \A q \in Pids : jobs[q] = "ended" => jobs'[q] = "ended"
    BY <1>2, <1>4
  <2>2. sweep # None => sweep.pid \in Pids
    BY DEF Rest, OtherTypes
  <2> QED  BY <1>1, <2>1, <2>2 DEF Rest, SweepSound
<1>7. PidSound(p)
  BY DEF Rest
<1>8. \A c \in co : c.pid = p => c.pc # "client"
  <2>1. CASE jobs[p] # "none"
    BY <1>7, <2>1 DEF PidSound, CoSound
  <2>2. CASE [pid |-> p, pc |-> "submitting"] \in co
    <3>1. PICK d \in co : d.pid = p /\ d.pc = "submitting"
      BY <2>2
    <3> QED  BY <1>7, <3>1 DEF PidSound, CoSound
  <2> QED  BY <1>2, <2>1, <2>2
<1>9. PidSound(p)'
  <2>1. JobOf(p)'
    <3>1. CASE to = "queued" /\ [pid |-> p, pc |-> "submitting"] \in co
      <4>1. PICK d \in co : d.pid = p /\ d.pc = "submitting"
        BY <3>1
      <4>2. pilot[p].state # "NONE" /\ ~pilot[p].adopted
        BY <1>7, <4>1 DEF PidSound, CoSound
      <4> QED  BY <1>1, <4>1, <4>2 DEF JobOf
    <3>2. CASE jobs[p] \in {"queued", "running"} /\ to \in {"running", "ended"}
      BY <1>1, <1>4, <1>7, <3>2 DEF PidSound, JobOf, Ended
    <3> QED  BY <1>2, <3>1, <3>2
  <2>2. ASSUME NEW c \in co', c.pid = p
        PROVE  CoSound(c)'
    <3>1. CoSound(c) /\ c.pc # "client"
      BY <1>1, <1>7, <1>8, <2>2 DEF PidSound
    <3> QED  BY <1>1, <3>1 DEF CoSound, Ended
  <2> QED  BY <2>1, <2>2 DEF PidSound
<1>10. \A q \in Pids : PidSound(q)'
  <2>1. \A q \in Pids : PidSound(q)
    BY DEF Rest
  <2> QED  BY <1>1, <1>4, <1>9, <2>1, OnlyAt
<1> QED  BY <1>3, <1>5, <1>6, <1>10 DEF Kept, Rest

-----------------------------------------------------------------------------
(* The theorems. *)

\* The invariant holds at the start: there are no pilots.
LEMMA InitInv == Init => IndInv
<1> SUFFICES ASSUME Init
             PROVE  IndInv
  OBVIOUS
<1>1. NoPilot \in PilotRec /\ NoPilot.state = "NONE" /\ ~NoPilot.adopted /\ ~NoPilot.active
      /\ NoPilot.child = None
  BY DEF NoPilot, PilotRec
<1>2. \A p \in Pids : pilot[p] = NoPilot
  BY DEF Init
<1>3. RecordTypes
  BY <1>1 DEF Init, RecordTypes
<1>4. RecordsSound
  BY <1>1, <1>2 DEF Init, RecordsSound, RecordSound
<1>5. ChargedOnce
  <2>1. ASSUME NEW m \in Members
        PROVE  fails[m] <= Cardinality(FailedOf(pilot, m))
    <3>1. FailedOf(pilot, m) \in SUBSET Pids
      BY DEF FailedOf
    <3>2. Cardinality(FailedOf(pilot, m)) \in Nat
      BY <3>1, PilotsFinite
    <3> QED  BY <3>2 DEF Init
  <2> QED  BY <2>1, ChargedBy
<1>6. OneEndpointOnePilot
  BY <1>1, <1>2 DEF OneEndpointOnePilot, LivePilots
<1>7. OtherTypes
  BY DEF Init, OtherTypes
<1>8. SweepSound
  BY DEF Init, SweepSound
<1>9. ASSUME NEW p \in Pids
      PROVE  PidSound(p)
  BY <1>1, <1>2 DEF Init, PidSound, JobOf
<1>10. RecordPart /\ Rest
  BY <1>3, <1>4, <1>5, <1>6, <1>7, <1>8, <1>9 DEF RecordPart, Rest
<1> QED  BY <1>10, InvParts

\* Every step keeps the invariant, and no pilot goes back in it.
LEMMA StepInv == IndInv /\ [Next]_vars => IndInv' /\ Grows
<1> SUFFICES ASSUME IndInv, [Next]_vars
             PROVE  Kept
  BY InvPartsNext DEF Kept
<1>0. RecordPart /\ Rest
  BY InvParts
<1>1. ASSUME Coroutines
      PROVE  Kept
  <2>1. PICK c \in co : \/ ClientReady(c) \/ NoClient(c)
                        \/ SubmitReturns(c) \/ SubmitRaises(c)
                        \/ CancelStart(c)
                        \/ \E ok \in BOOLEAN : Undo(c, ok) \/ CancelReturns(c, ok)
    BY <1>1 DEF Coroutines
  <2>2. CASE ClientReady(c)
    BY <1>0, <2>2, ClientReadyKeeps
  <2>3. CASE NoClient(c) \/ SubmitRaises(c)
    BY <1>0, <2>3, FailsKeeps
  <2>4. CASE SubmitReturns(c)
    BY <1>0, <2>4, ReturnsKeeps, ReturnsLateKeeps
  <2>5. CASE CancelStart(c)
    BY <1>0, <2>5, CancelStartKeeps
  <2>6. CASE \E ok \in BOOLEAN : Undo(c, ok) \/ CancelReturns(c, ok)
    BY <1>0, <2>6, UndoKeeps, CancelReturnsKeeps
  <2> QED  BY <2>1, <2>2, <2>3, <2>4, <2>5, <2>6
<1>2. ASSUME Housekeeping
      PROVE  Kept
  <2>1. ASSUME NEW m \in Members, NEW p \in Pids, Tick(m, p)
        PROVE  Kept
    <3>1. mode[m] = "submit" \/ mode[m] = "endpoint"
      BY <2>1 DEF Tick
    <3> QED  BY <1>0, <2>1, <3>1, TickSubmitKeeps, TickAdoptKeeps
  <2>2. ASSUME NEW p \in Pids, SweepStart(p)
        PROVE  Kept
    BY <1>0, <2>2, SweepStartKeeps
  <2>3. CASE SweepAnswered \/ SweepEnds
    BY <1>0, <2>3, SweepAnsweredKeeps, SweepEndsKeeps
  <2>4. CASE \E m \in Members : BackoffOver(m)
    BY <1>0, <2>4, QuietKeeps
  <2> QED  BY <1>2, <2>1, <2>2, <2>3, <2>4 DEF Housekeeping
<1>3. ASSUME Requests
      PROVE  Kept
  BY <1>0, <1>3, RemoveMemberKeeps, AddMemberKeeps, CloseSessionKeeps, QuietKeeps DEF Requests
<1>4. ASSUME Topology
      PROVE  Kept
  BY <1>0, <1>4, DeliverKeeps DEF Topology
<1>5. ASSUME Jobs
      PROVE  Kept
  BY <1>0, <1>5, JobStepKeeps DEF Jobs
<1>6. ASSUME UNCHANGED vars
      PROVE  Kept
  <2>1. /\ UNCHANGED <<pilot, unsaved, policy>> /\ UNCHANGED <<co, sweep, world, stray>>
        /\ UNCHANGED pool
    BY <1>6 DEF vars
  <2>2. RecordPart' /\ Grows
    BY <1>0, <2>1, RecordsUnchanged
  <2>3. SweepSound' /\ \A p \in Pids : PidSound(p)'
    BY <1>0, <2>1, WaitersUntouched
  <2>4. OtherTypes'
    BY <1>0, <2>1 DEF Rest, OtherTypes, world, pool
  <2> QED  BY <2>2, <2>3, <2>4 DEF Kept, Rest
<1> QED  BY <1>0, <1>1, <1>2, <1>3, <1>4, <1>5, <1>6, RestartKeeps DEF Next

\* The inductive invariant holds in every reachable state.
THEOREM Invariance == Spec => []IndInv
BY InitInv, StepInv, PTL DEF Spec

\* The pilots of a pool are sound: typed, charged at most once to their member
\* however often they are finalized, and one to an endpoint although endpoints
\* are adopted, left, declared anew and adopted again (_submit_pilot,
\* _finalize_pilot, on_pilot_state).
THEOREM PilotsAreSound == Spec => []PilotsSound
<1>1. IndInv => PilotsSound
  BY DEF IndInv, PilotsSound
<1> QED  BY <1>1, Invariance, PTL

\* No batch job is forgotten: one that is queued or runs has a live pilot or a
\* coroutine that is about to cancel it, and a pilot that waits for its job has
\* a submission under way (_do_pilot_submit, _do_pilot_cancel).
THEOREM JobsAreKnown == Spec => []JobsSound
<1>1. IndInv => JobsSound
  BY DEF IndInv, JobOf, JobsSound, JobsAreOwned, PendingIsAttended
<1> QED  BY <1>1, Invariance, PTL

\* A pilot's state only goes forward: no late answer of psij revives or demotes
\* a pilot, and a restart loses no transition (_do_pilot_submit, _replay_state).
THEOREM PilotsGoForward == Spec => PilotForward
<1>1. IndInv /\ [Next]_vars
        => [\A p \in Pids : Rank(pilot'[p].state) >= Rank(pilot[p].state)]_vars
  <2> SUFFICES ASSUME IndInv, [Next]_vars, NEW p \in Pids
               PROVE  Rank(pilot'[p].state) >= Rank(pilot[p].state)
    OBVIOUS
  <2>1. IndInv' /\ Goes(pilot[p].state, pilot'[p].state)
    BY StepInv DEF Grows
  <2>2. pilot[p] \in PilotRec
    BY DEF IndInv, TypeOK
  <2>3. pilot'[p] \in PilotRec
    BY <2>1 DEF IndInv, TypeOK
  <2>4. pilot[p].state \in States /\ pilot'[p].state \in States
    BY <2>2, <2>3, Fields
  <2> QED  BY <2>1, <2>4, GoesForward
<1> QED  BY <1>1, Invariance, PTL DEF Spec, PilotForward
=============================================================================
