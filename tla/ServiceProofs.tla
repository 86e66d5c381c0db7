-------------------------- MODULE ServiceProofs --------------------------
(***************************************************************************)
(* Proofs about the services of an endpoint: cached clients of child       *)
(* endpoints, workflows of XGFabric and of Lucid, credentials, waits and   *)
(* calls of Globus and of a facility's API, cached answers about queues,   *)
(* the gateway's stream of events and the replay of a stream; for every    *)
(* set of sessions, calls, simulations, wells, clients and events and      *)
(* every bound.                                                            *)
(*                                                                         *)
(* Each part has an inductive invariant of its own: CcInv, XgInv, LuInv,   *)
(* GcInv, GwInv, FcInv, QcInv, GtInv and RpInv.                            *)
(***************************************************************************)
EXTENDS MCServices, SeqFacts, FiniteSetTheorems, TLAPS

(***************************************************************************)
(* Cached clients of child endpoints (ChildClients).                       *)
(***************************************************************************)

CcInv == CcTypeOK /\ SkippedIsPersistent

CcRec    == [session : {"none", "live", "ended"}, ttl : BOOLEAN]
AskerRec == [pc : {"idle", "probe", "register"}, probe : {"yes", "no", "unknown"}]

\* A coroutine moves.
LEMMA AskerMoves ==
  ASSUME CcInv, NEW u \in Users, NEW y \in AskerRec, asker' = [asker EXCEPT ![u] = y]
  PROVE  asker' \in [Users -> AskerRec]
  BY DEF CcInv, CcTypeOK, AskerRec

\* _get_child_client.
LEMMA AskersKeep ==
  ASSUME CcInv, NEW u \in Users, Ask(u) \/ Probe(u) \/ CcRegistered(u) \/ RegistrationFails(u)
  PROVE  CcInv'
<1>0. MaxClients \in Nat \ {0} /\ asker \in [Users -> AskerRec] /\ ccMade \in Nat
  BY ChildConstants DEF CcInv, CcTypeOK, AskerRec
<1>1. PICK m \in AskerRec : m = asker[u]
  BY <1>0
<1>2. m.probe \in {"yes", "no", "unknown"}
  BY DEF AskerRec
<1>3. CASE Ask(u) \/ Probe(u) \/ RegistrationFails(u)
  <2>1. UNCHANGED <<cached, ccFlagged, touchable, ccClient, ccMade, touching, knows, restarts>>
    BY <1>3 DEF Ask, Probe, RegistrationFails
  <2>2. \E y \in AskerRec : asker' = [asker EXCEPT ![u] = y]
    <3>1. CASE Ask(u)
      <4>1. touchable \in {"yes", "no", "unknown"}
        BY DEF CcInv, CcTypeOK
      <4>2. PICK y : y = [pc |-> IF touchable = "unknown" THEN "probe" ELSE "register", probe |-> touchable]
        OBVIOUS
      <4>3. y \in AskerRec
        BY <4>1, <4>2 DEF AskerRec
      <4> QED  BY <3>1, <4>2, <4>3 DEF Ask
    <3>2. CASE Probe(u)
      <4>1. PICK found \in {"yes", "no", "unknown"} :
              asker' = [asker EXCEPT ![u] = [pc |-> "register", probe |-> found]]
        BY <3>2 DEF Probe
      <4>2. [pc |-> "register", probe |-> found] \in AskerRec
        BY DEF AskerRec
      <4> QED  BY <4>1, <4>2
    <3>3. CASE RegistrationFails(u)
      <4>1. PICK y : y = [m EXCEPT !.pc = "idle"]
        OBVIOUS
      <4>2. y \in AskerRec
        BY <4>1 DEF AskerRec
      <4> QED  BY <1>1, <3>3, <4>1, <4>2 DEF RegistrationFails
    <3> QED  BY <1>3, <3>1, <3>2, <3>3
  <2>3. asker' \in [Users -> AskerRec]
    BY <2>2, AskerMoves
  <2> QED  BY <2>1, <2>3 DEF CcInv, CcTypeOK, SkippedIsPersistent, AskerRec
<1>4. CASE CcRegistered(u)
  <2>1. PICK ttl \in BOOLEAN : ttl = (m.probe = "yes")
    OBVIOUS
  <2>2. PICK c : c = ccMade + 1
    OBVIOUS
  <2>3. c \in CcClients /\ c \in 0..MaxClients /\ c # 0
    BY <1>0, <1>4, <2>2 DEF CcRegistered, CcClients
  <2>4. PICK y : y = [session |-> "live", ttl |-> ttl]
    OBVIOUS
  <2>5. y \in CcRec /\ y.ttl = ttl
    BY <2>4 DEF CcRec
  <2>6. ccClient' = [ccClient EXCEPT ![c] = y] /\ ccMade' = c /\ cached' = c
    BY <1>1, <1>4, <2>1, <2>2, <2>4 DEF CcRegistered
  <2>7. ccFlagged' = ~ttl
    BY <1>1, <1>4, <2>1 DEF CcRegistered, FlagsAnew
  <2>8. ccClient' \in [CcClients -> CcRec] /\ ccClient'[c] = y
    BY <2>3, <2>5, <2>6 DEF CcInv, CcTypeOK, CcRec
  <2>9. touchable' \in {"yes", "no", "unknown"} /\ UNCHANGED <<touching, knows, restarts>>
    BY <1>1, <1>2, <1>4 DEF CcRegistered, CcInv, CcTypeOK
  <2>10. asker' \in [Users -> AskerRec]
    <3>1. PICK z : z = [m EXCEPT !.pc = "idle"]
      OBVIOUS
    <3>2. z \in AskerRec
      BY <3>1 DEF AskerRec
    <3>3. asker' = [asker EXCEPT ![u] = z]
      BY <1>1, <1>4, <3>1 DEF CcRegistered
    <3> QED  BY <3>2, <3>3, AskerMoves
  <2>11. ccFlagged' \in BOOLEAN
    BY <2>7
  <2>12. CcTypeOK'
    BY <2>3, <2>6, <2>8, <2>9, <2>10, <2>11 DEF CcInv, CcTypeOK, CcRec, AskerRec
  <2>13. SkippedIsPersistent'
    BY <2>5, <2>6, <2>7, <2>8 DEF SkippedIsPersistent
  <2> QED  BY <2>12, <2>13 DEF CcInv
<1> QED  BY <1>3, <1>4

\* Every step of the cache keeps the invariant.
LEMMA CcNextKeeps == CcInv /\ [CcNext]_ccVars => CcInv'
<1> SUFFICES ASSUME CcInv, [CcNext]_ccVars
             PROVE  CcInv'
  OBVIOUS
<1>1. CASE \E u \in Users : Ask(u) \/ Probe(u) \/ CcRegistered(u) \/ RegistrationFails(u)
  BY <1>1, AskersKeep
<1>2. CASE TouchBegins \/ TouchKeeps \/ UNCHANGED ccVars
  <2>1. 0 \in 0..MaxClients
    BY ChildConstants
  <2>2. touching' \in 0..MaxClients
    BY <1>2, <2>1 DEF TouchBegins, TouchKeeps, ccVars, CcInv, CcTypeOK
  <2>3. UNCHANGED <<cached, ccFlagged, touchable, ccClient, ccMade, asker, knows, restarts>>
    BY <1>2 DEF TouchBegins, TouchKeeps, ccVars
  <2> QED  BY <2>2, <2>3 DEF CcInv, CcTypeOK, SkippedIsPersistent
<1>3. CASE TouchFindsEnded \/ EndpointLost
  <2>1. /\ cached' \in {0, cached} /\ touching' \in {0, touching} /\ touchable' \in {touchable, "unknown"}
        /\ UNCHANGED <<ccClient, ccMade, asker, knows, restarts>>
        /\ cached' # 0 => ccFlagged' = ccFlagged
    BY <1>3 DEF TouchFindsEnded, EndpointLost, DropsSame
  <2>2. ccFlagged' \in BOOLEAN
    BY <1>3 DEF TouchFindsEnded, EndpointLost, CcInv, CcTypeOK
  <2>3. 0 \in 0..MaxClients
    BY ChildConstants
  <2>4. CcTypeOK'
    BY <2>1, <2>2, <2>3 DEF CcInv, CcTypeOK
  <2> QED  BY <2>1, <2>4 DEF CcInv, SkippedIsPersistent
<1>4. CASE EndpointRestarts
  <2>1. /\ UNCHANGED <<cached, ccFlagged, touchable, ccMade, asker, touching>> /\ knows' \in BOOLEAN
        /\ ccClient' = [c \in CcClients |->
                        IF ccClient[c].session = "live" THEN [ccClient[c] EXCEPT !.session = "ended"]
                        ELSE ccClient[c]]
    BY <1>4 DEF EndpointRestarts
  <2>2. restarts' \in 0..MaxRestarts
    BY <1>4, ChildConstants DEF EndpointRestarts, CcInv, CcTypeOK
  <2>3. ASSUME NEW c \in CcClients
        PROVE  ccClient'[c] \in CcRec /\ ccClient'[c].ttl = ccClient[c].ttl
    <3>1. PICK m \in CcRec : m = ccClient[c]
      BY DEF CcInv, CcTypeOK, CcRec
    <3>2. PICK y : y = [m EXCEPT !.session = "ended"]
      OBVIOUS
    <3>3. y \in CcRec /\ y.ttl = m.ttl
      BY <3>2 DEF CcRec
    <3>4. ccClient'[c] \in {m, y}
      BY <2>1, <3>1, <3>2
    <3> QED  BY <3>1, <3>3, <3>4
  <2>4. ccClient' \in [CcClients -> CcRec]
    BY <2>1, <2>3
  <2>5. CcTypeOK'
    BY <2>1, <2>2, <2>4 DEF CcInv, CcTypeOK, CcRec
  <2>6. cached # 0 => cached \in CcClients
    BY ChildConstants DEF CcInv, CcTypeOK, CcClients
  <2>7. SkippedIsPersistent'
    BY <2>1, <2>3, <2>6 DEF CcInv, SkippedIsPersistent
  <2> QED  BY <2>5, <2>7 DEF CcInv
<1> QED  BY <1>1, <1>2, <1>3, <1>4 DEF CcNext

\* The invariant of the cache.
LEMMA CcInvHolds == CcSpec => []CcInv
<1>1. CcInit => CcInv
  <2>1. 0 \in 0..MaxClients /\ 0 \in 0..MaxRestarts
    BY ChildConstants
  <2> SUFFICES ASSUME CcInit
               PROVE  CcInv
    OBVIOUS
  <2>2. PICK y : y = [session |-> "none", ttl |-> FALSE]
    OBVIOUS
  <2>3. y \in [session : {"none", "live", "ended"}, ttl : BOOLEAN]
    BY <2>2
  <2>4. ccClient = [c \in CcClients |-> y]
    BY <2>2 DEF CcInit
  <2>5. ccClient \in [CcClients -> [session : {"none", "live", "ended"}, ttl : BOOLEAN]]
    BY <2>3, <2>4
  <2>6. asker \in [Users -> [pc : {"idle", "probe", "register"}, probe : {"yes", "no", "unknown"}]]
    BY DEF CcInit
  <2>7. CcTypeOK
    BY <2>1, <2>5, <2>6 DEF CcInit, CcTypeOK
  <2>8. SkippedIsPersistent
    BY DEF CcInit, SkippedIsPersistent
  <2> QED  BY <2>7, <2>8 DEF CcInv
<1> QED  BY <1>1, CcNextKeeps, PTL DEF CcSpec

\* The touch passes skip exactly the sessions registered persistent
\* (_get_child_client, _touch_child_sessions).
THEOREM ClientsAreTouched == CcSpec => [](CcTypeOK /\ SkippedIsPersistent)
<1>1. CcInv => CcTypeOK /\ SkippedIsPersistent
  BY DEF CcInv
<1> QED  BY <1>1, CcInvHolds, PTL

\* A touch pass drops only the entry of a session that ended, never one that was
\* registered meanwhile (_touch_child_sessions).
THEOREM LiveClientsStay == CcSpec => DropsOnlyEnded
<1>1. CcInv /\ [CcNext]_ccVars
        => [cached # 0 /\ cached' = 0 /\ touching # 0 /\ touching' = 0
              => ccClient[cached].session = "ended"]_ccVars
  <2> SUFFICES ASSUME CcInv, CcNext, cached # 0, cached' = 0, touching # 0, touching' = 0
               PROVE  ccClient[cached].session = "ended"
    BY DEF ccVars
  <2>1. ccMade + 1 # 0
    BY DEF CcInv, CcTypeOK
  <2>2. ~\E u \in Users : Ask(u) \/ Probe(u) \/ CcRegistered(u) \/ RegistrationFails(u)
    BY <2>1 DEF Ask, Probe, CcRegistered, RegistrationFails
  <2>3. ~(TouchBegins \/ TouchKeeps \/ EndpointLost \/ EndpointRestarts)
    BY DEF TouchBegins, TouchKeeps, EndpointLost, EndpointRestarts
  <2>4. TouchFindsEnded
    BY <2>2, <2>3 DEF CcNext
  <2> QED  BY <2>4 DEF TouchFindsEnded, DropsSame
<1> QED  BY <1>1, CcInvHolds, PTL DEF CcSpec, DropsOnlyEnded

-----------------------------------------------------------------------------
(***************************************************************************)
(* Workflows of XGFabric (XgWorkflow).                                     *)
(***************************************************************************)

LocalRec == [left : SUBSET Sims, batch : SUBSET Sims, results : SUBSET Sims, allocate : BOOLEAN]
XgPcs    == {"none", "done"} \cup Executing \cup Cleaning
SimStates == {"no", "run", "end", "fail", "canceled", "deaf", "stray"}

\* What is known of one run: it was started, its clean-up is aimed at itself or
\* a later run, and it holds what its phase needs.
RunSound(r) ==
  /\ xpc[r] # "none" => r <= xrun
  /\ xpc[r] = "pilots" => aim[r] \in r..xrun
  /\ queue[r] # {} => xpc[r] = "tasks"
  /\ ready[r] => xpc[r] \in {"pilot", "submit"}

\* Only the run that waits has simulations pending.
PendSound == \A x \in pend : x[1] = xrun /\ xpc[x[1]] = "wait"

\* A submission under way is that of the batch its run waits for, or its run
\* has ended.
AirSound ==
  \A c \in air : /\ xpc[c[1]] # "none"
                 /\ c[2] = "submit" /\ xpc[c[1]] \in Executing
                      => xpc[c[1]] = "submit" /\ ~ready[c[1]] /\ c[3] = local[c[1]].batch

XgInv == XgTypeOK /\ OneWorkflow /\ SimsAreAnsweredFor /\ PendSound /\ AirSound
         /\ \A r \in XRuns : RunSound(r)

\* The types, function by function.
LEMMA XgTypes ==
  ASSUME XgInv
  PROVE  /\ xpc \in [XRuns -> XgPcs] /\ local \in [XRuns -> LocalRec]
         /\ cancelling \in [XRuns -> BOOLEAN] /\ ready \in [XRuns -> BOOLEAN]
         /\ queue \in [XRuns -> SUBSET (XRuns \X Sims)] /\ aim \in [XRuns -> 0..MaxRuns]
         /\ xsim \in [XRuns -> [Sims -> SimStates]]
         /\ xpilot \in [XRuns -> {"no", "up", "canceled", "deaf"}]
         /\ pend \subseteq XRuns \X Sims /\ air \subseteq XRuns \X {"pilot", "submit"} \X SUBSET Sims
         /\ xrun \in Nat /\ xrun <= MaxRuns /\ MaxRuns \in Nat /\ XRuns = 1..MaxRuns
  BY XgConstants DEF XgInv, XgTypeOK, XgPcs, LocalRec, SimStates, XRuns

\* A batch is a part of what is left.
LEMMA BatchIsPart == \A left \in SUBSET Sims : NextBatch(left) \subseteq left
<1> SUFFICES ASSUME NEW left \in SUBSET Sims
             PROVE  NextBatch(left) \in SUBSET left
  OBVIOUS
<1>1. IsFiniteSet(left) /\ Cardinality(left) \in Nat
  BY XgConstants, FS_Subset, FS_CardinalityType
<1>2. PICK k \in Nat : k = (IF Cardinality(left) < XgBatch THEN Cardinality(left) ELSE XgBatch)
                       /\ k <= Cardinality(left)
  BY <1>1, XgConstants
<1>3. PICK f \in Bijection(1..Cardinality(left), left) : TRUE
  BY <1>1, FS_CardinalityType DEF ExistsBijection
<1>4. /\ f \in [1..Cardinality(left) -> left] /\ 1..k \subseteq 1..Cardinality(left)
      /\ \A i, j \in 1..Cardinality(left) : f[i] = f[j] => i = j
  BY <1>1, <1>2, <1>3 DEF Bijection, Injection, IsInjective
<1>5. PICK b : b = {f[i] : i \in 1..k}
  OBVIOUS
<1>6. b \subseteq left
  BY <1>4, <1>5
<1>7. PICK g : g = [i \in 1..k |-> f[i]]
  OBVIOUS
<1>8. g \in [1..k -> b] /\ \A i \in 1..k : g[i] = f[i]
  BY <1>5, <1>7
<1>9. g \in Injection(1..k, b)
  <2>1. \A i, j \in 1..k : g[i] = g[j] => i = j
    BY <1>4, <1>8
  <2> QED  BY <1>8, <2>1 DEF Injection, IsInjective
<1>10. g \in Surjection(1..k, b)
  BY <1>5, <1>8 DEF Surjection
<1>11. Cardinality(b) = k
  <2>1. ExistsBijection(1..k, b)
    BY <1>9, <1>10 DEF ExistsBijection, Bijection
  <2> QED  BY <2>1, FS_CountingElements
<1>12. \E c \in SUBSET left : Cardinality(c) = IF Cardinality(left) < XgBatch THEN Cardinality(left) ELSE XgBatch
  BY <1>2, <1>11, <1>6
<1> QED  BY <1>12 DEF NextBatch

\* A run that executes holds no list to clean up, and only while it waits for a
\* batch, or submits one, does a simulation of it run.
LEMMA ExecutingRun ==
  ASSUME XgInv, NEW r \in XRuns, xpc[r] \in Executing
  PROVE  /\ r = xrun /\ xstatus = "running" /\ queue[r] = {}
         /\ xpc[r] # "wait" => pend = {}
         /\ \A s \in Sims : xsim[r][s] = "run" => \/ xpc[r] = "wait" /\ <<r, s>> \in pend
                                                  \/ xpc[r] = "submit" /\ s \in local[r].batch
<1>1. r = xrun /\ xstatus = "running"
  BY DEF XgInv, OneWorkflow
<1>2. queue[r] = {}
  BY DEF XgInv, RunSound, Executing, Calling
<1>3. xpc[r] # "wait" => pend = {}
  BY <1>1 DEF XgInv, PendSound
<1> QED  BY <1>1, <1>2, <1>3 DEF XgInv, SimsAreAnsweredFor

\* A step of run r, which goes on in phase pc with the locals l and the list qu.
RunGoes(r, pc, l, qu, a) ==
  /\ xpc[r] # "none" /\ pc # "none" /\ pc \in XgPcs /\ xpc' = [xpc EXCEPT ![r] = pc]
  /\ l \in LocalRec /\ local' = [local EXCEPT ![r] = l] /\ Waits(r)
  /\ qu \in SUBSET (XRuns \X Sims) /\ queue' = [queue EXCEPT ![r] = qu]
  /\ a \in 0..MaxRuns /\ aim' = [aim EXCEPT ![r] = a]
  /\ xpc[r] \in Executing \/ xstatus' = xstatus
  /\ pc \in Executing => xpc[r] \in Executing /\ xstatus' = "running"
  /\ pc = "pilots" => a \in r..xrun
  /\ qu # {} => pc = "tasks"
  /\ pc = "submit" => xpc[r] # "submit"
  /\ pc \in Executing => xpc[r] # "submit" \/ ready[r]

\* The calls, the batch waited for and the simulations after it.
SimsGo(r, pc, l, qu) ==
  /\ \A c \in air' : c \in air \/ (c[1] = r /\ c[2] = pc /\ (pc = "submit" => c[3] = l.batch))
  /\ pend' = pend \/ xpc[r] \in Executing
  /\ \A x \in pend' : (x[1] = r /\ pc = "wait") \/ (pend' = pend /\ xpc[r] # "wait")
  /\ \A q \in XRuns, s \in Sims : xsim'[q][s] = "run" => xsim[q][s] = "run"
  /\ \A s \in Sims : xsim'[r][s] = "run" => \/ pc = "wait" /\ <<r, s>> \in pend'
                                            \/ pc = "submit" /\ s \in l.batch
                                            \/ <<r, s>> \in qu

\* What the step leaves has its type, and the session is the same.
StepTyped ==
  /\ cancelling' \in [XRuns -> BOOLEAN] /\ xpilot' \in [XRuns -> {"no", "up", "canceled", "deaf"}]
  /\ xsim' \in [XRuns -> [Sims -> SimStates]] /\ pend' \subseteq XRuns \X Sims
  /\ air' \subseteq XRuns \X {"pilot", "submit"} \X SUBSET Sims
  /\ recorded' \in BOOLEAN /\ listed' \in BOOLEAN /\ UNCHANGED <<xrun, xclosed>>
  /\ xstatus' \in {"running", "completed", "failed"} \cup {xstatus}

\* One run moves.
LEMMA RunMoves ==
  ASSUME XgInv, NEW r \in XRuns, NEW pc, NEW l, NEW qu, NEW a,
         RunGoes(r, pc, l, qu, a), SimsGo(r, pc, l, qu), StepTyped
  PROVE  XgInv'
<1>0. /\ xpc \in [XRuns -> XgPcs] /\ local \in [XRuns -> LocalRec]
      /\ ready \in [XRuns -> BOOLEAN] /\ queue \in [XRuns -> SUBSET (XRuns \X Sims)]
      /\ aim \in [XRuns -> 0..MaxRuns] /\ pend \subseteq XRuns \X Sims
      /\ air \subseteq XRuns \X {"pilot", "submit"} \X SUBSET Sims
  BY XgTypes
<1>1. /\ xpc' \in [XRuns -> XgPcs] /\ local' \in [XRuns -> LocalRec]
      /\ ready' \in [XRuns -> BOOLEAN] /\ queue' \in [XRuns -> SUBSET (XRuns \X Sims)]
      /\ aim' \in [XRuns -> 0..MaxRuns]
  BY <1>0 DEF Waits, RunGoes
<1>2. /\ xpc'[r] = pc /\ local'[r] = l /\ ready'[r] = FALSE /\ queue'[r] = qu /\ aim'[r] = a
      /\ \A q \in XRuns : q # r => /\ xpc'[q] = xpc[q] /\ local'[q] = local[q] /\ ready'[q] = ready[q]
                                   /\ queue'[q] = queue[q] /\ aim'[q] = aim[q]
  BY <1>0 DEF Waits, RunGoes
<1>3. XgTypeOK'
  BY <1>1 DEF StepTyped, XgInv, XgTypeOK, XgPcs, LocalRec, SimStates
<1>4. OneWorkflow'
  <2>1. ASSUME NEW q \in XRuns, xpc'[q] \in Executing
        PROVE  q = xrun' /\ xstatus' = "running"
    <3>1. CASE q = r
      BY <1>2, <2>1, <3>1 DEF XgInv, OneWorkflow, RunGoes, StepTyped
    <3>2. CASE q # r
      BY <1>2, <2>1, <3>2 DEF XgInv, OneWorkflow, RunGoes, StepTyped
    <3> QED  BY <3>1, <3>2
  <2> QED  BY <2>1 DEF OneWorkflow
<1>5. PendSound'
  <2>1. ASSUME NEW x \in pend'
        PROVE  x[1] = xrun' /\ xpc'[x[1]] = "wait"
    <3>0. xrun' = xrun
      BY DEF StepTyped
    <3>1. CASE x[1] = r /\ pc = "wait"
      <4>1. pc \in Executing
        BY <3>1 DEF Executing, Calling
      <4>2. r = xrun
        BY <4>1, ExecutingRun DEF RunGoes
      <4> QED  BY <1>2, <3>0, <3>1, <4>2
    <3>2. CASE pend' = pend /\ xpc[r] # "wait"
      <4>1. x[1] = xrun /\ xpc[x[1]] = "wait" /\ x[1] \in XRuns /\ x[1] # r
        BY <1>0, <2>1, <3>2 DEF XgInv, PendSound
      <4> QED  BY <1>2, <3>0, <4>1
    <3> QED  BY <2>1, <3>1, <3>2 DEF SimsGo
  <2> QED  BY <2>1 DEF PendSound
<1>6. AirSound'
  <2>1. ASSUME NEW c \in air'
        PROVE  /\ xpc'[c[1]] # "none"
               /\ c[2] = "submit" /\ xpc'[c[1]] \in Executing
                    => xpc'[c[1]] = "submit" /\ ~ready'[c[1]] /\ c[3] = local'[c[1]].batch
    <3>0. c[1] \in XRuns
      BY <2>1 DEF StepTyped
    <3>1. CASE c[1] = r
      <4>1. CASE c \in air
        <5>1. c[2] = "submit" /\ xpc[r] \in Executing => xpc[r] = "submit" /\ ~ready[r]
          BY <3>1, <4>1 DEF XgInv, AirSound
        <5>2. c[2] = "submit" => pc \notin Executing
          BY <5>1 DEF RunGoes
        <5> QED  BY <1>2, <3>1, <5>2 DEF RunGoes
      <4>2. CASE c[2] = pc /\ (pc = "submit" => c[3] = l.batch)
        BY <1>2, <3>1, <4>2 DEF RunGoes
      <4> QED  BY <2>1, <4>1, <4>2 DEF SimsGo
    <3>2. CASE c[1] # r
      <4>1. c \in air
        BY <2>1, <3>2 DEF SimsGo
      <4> QED  BY <1>2, <3>0, <3>2, <4>1 DEF XgInv, AirSound
    <3> QED  BY <3>1, <3>2
  <2> QED  BY <2>1 DEF AirSound
<1>7. SimsAreAnsweredFor'
  <2>1. ASSUME NEW q \in XRuns, NEW s \in Sims, xsim'[q][s] = "run"
        PROVE  \/ xpc'[q] = "wait" /\ <<q, s>> \in pend'
               \/ xpc'[q] = "submit" /\ s \in local'[q].batch
               \/ <<q, s>> \in queue'[q]
    <3>1. CASE q = r
      BY <1>2, <2>1, <3>1 DEF SimsGo
    <3>2. CASE q # r
      <4>1. \/ xpc[q] = "wait" /\ <<q, s>> \in pend
            \/ xpc[q] = "submit" /\ s \in local[q].batch
            \/ <<q, s>> \in queue[q]
        BY <2>1 DEF XgInv, SimsAreAnsweredFor, SimsGo
      <4>2. xpc[q] = "wait" => pend' = pend
        BY <3>2 DEF XgInv, OneWorkflow, Executing, Calling, SimsGo
      <4> QED  BY <1>2, <3>2, <4>1, <4>2
    <3> QED  BY <3>1, <3>2
  <2> QED  BY <2>1 DEF SimsAreAnsweredFor
<1>8. ASSUME NEW q \in XRuns
      PROVE  RunSound(q)'
  <2>1. RunSound(q) /\ RunSound(r)
    BY DEF XgInv
  <2>2. CASE q = r
    BY <1>2, <2>1, <2>2 DEF RunSound, RunGoes, StepTyped
  <2>3. CASE q # r
    BY <1>2, <2>1, <2>3 DEF RunSound, StepTyped
  <2> QED  BY <2>2, <2>3
<1> QED  BY <1>3, <1>4, <1>5, <1>6, <1>7, <1>8 DEF XgInv

\* What a run keeps, as an assignment of what it has.
LEMMA RunKeeps ==
  ASSUME XgInv, NEW r \in XRuns
  PROVE  /\ local[r] \in LocalRec /\ local = [local EXCEPT ![r] = local[r]]
         /\ queue[r] \in SUBSET (XRuns \X Sims) /\ queue = [queue EXCEPT ![r] = queue[r]]
         /\ aim[r] \in 0..MaxRuns /\ aim = [aim EXCEPT ![r] = aim[r]]
         /\ xpc[r] \in XgPcs /\ xpc = [xpc EXCEPT ![r] = xpc[r]]
         /\ xpc[r] \notin {"pilot", "submit"} => ready = [ready EXCEPT ![r] = FALSE]
<1>1. /\ local[r] \in LocalRec /\ local = [local EXCEPT ![r] = local[r]]
      /\ queue[r] \in SUBSET (XRuns \X Sims) /\ queue = [queue EXCEPT ![r] = queue[r]]
      /\ aim[r] \in 0..MaxRuns /\ aim = [aim EXCEPT ![r] = aim[r]]
      /\ xpc[r] \in XgPcs /\ xpc = [xpc EXCEPT ![r] = xpc[r]]
  BY XgTypes
<1>2. xpc[r] \notin {"pilot", "submit"} => ready[r] = FALSE
  BY XgTypes DEF XgInv, RunSound
<1>3. ready \in [XRuns -> BOOLEAN]
  BY XgTypes
<1>4. ready[r] = FALSE => ready = [ready EXCEPT ![r] = FALSE]
  BY <1>3
<1> QED  BY <1>1, <1>2, <1>4

\* A run that executes goes on to another phase; no simulation of it runs.
LEMMA PhaseMoves ==
  ASSUME XgInv, NEW r \in XRuns, xpc[r] \in Executing \ {"wait", "submit"},
         NEW pc \in XgPcs, pc \notin {"none", "pilots", "wait"}, xpc' = [xpc EXCEPT ![r] = pc],
         NEW l \in LocalRec, local' = [local EXCEPT ![r] = l],
         Waits(r),
         UNCHANGED <<queue, aim, xpilot, xsim, pend, listed, xrun, xclosed>>,
         cancelling' \in [XRuns -> BOOLEAN], recorded' \in BOOLEAN,
         xstatus' \in {"running", "completed", "failed"} \cup {xstatus},
         pc \in Executing => xstatus' = "running",
         \/ air' = air
         \/ \E b \in SUBSET Sims : /\ air' = air \cup {<<r, pc, b>>} /\ pc \in {"pilot", "submit"}
                                   /\ pc = "submit" => b = l.batch
  PROVE  XgInv'
<1>0. xpc[r] \in Executing /\ xpc[r] # "none"
  BY DEF Executing, Calling
<1>1. /\ queue[r] = {} /\ pend = {} /\ \A s \in Sims : xsim[r][s] # "run"
  BY <1>0, ExecutingRun
<1>2. PICK qu \in SUBSET (XRuns \X Sims) : qu = {} /\ queue' = [queue EXCEPT ![r] = qu]
  BY <1>1, RunKeeps
<1>9. PICK a \in 0..MaxRuns : aim' = [aim EXCEPT ![r] = a]
  BY RunKeeps
<1>3. /\ xpilot' \in [XRuns -> {"no", "up", "canceled", "deaf"}]
      /\ xsim' \in [XRuns -> [Sims -> SimStates]] /\ pend' \subseteq XRuns \X Sims
      /\ listed' \in BOOLEAN
  BY XgTypes DEF XgInv, XgTypeOK
<1>4. /\ air' \subseteq XRuns \X {"pilot", "submit"} \X SUBSET Sims
      /\ \A c \in air' : c \in air \/ (c[1] = r /\ c[2] = pc /\ (pc = "submit" => c[3] = l.batch))
  <2>1. air \subseteq XRuns \X {"pilot", "submit"} \X SUBSET Sims
    BY XgTypes
  <2>2. CASE air' = air
    BY <2>1, <2>2
  <2>3. ASSUME NEW b \in SUBSET Sims,
               air' = air \cup {<<r, pc, b>>} /\ pc \in {"pilot", "submit"} /\ (pc = "submit" => b = l.batch)
        PROVE  /\ air' \subseteq XRuns \X {"pilot", "submit"} \X SUBSET Sims
               /\ \A c \in air' : c \in air \/ (c[1] = r /\ c[2] = pc /\ (pc = "submit" => c[3] = l.batch))
    <3>1. PICK d : d = <<r, pc, b>>
      OBVIOUS
    <3>2. d \in XRuns \X {"pilot", "submit"} \X SUBSET Sims /\ d[1] = r /\ d[2] = pc /\ d[3] = b
      BY <2>3, <3>1
    <3> QED  BY <2>1, <2>3, <3>1, <3>2
  <2> QED  BY <2>2, <2>3
<1>5. /\ \A x \in pend' : (x[1] = r /\ pc = "wait") \/ (pend' = pend /\ xpc[r] # "wait")
      /\ \A q \in XRuns, s \in Sims : xsim'[q][s] = "run" => xsim[q][s] = "run"
      /\ \A s \in Sims : xsim'[r][s] # "run"
  BY <1>1
<1>6. xpc[r] # "submit" /\ xpc[r] # "wait" /\ pend' = pend /\ UNCHANGED <<xrun, xclosed>>
  OBVIOUS
<1>7. pc \in Executing => xpc[r] \in Executing /\ xstatus' = "running"
  BY <1>0
<1>8. xpc[r] \in Executing \/ xstatus' = xstatus
  BY <1>0
<1>10. /\ qu # {} => pc = "tasks"
       /\ pc = "pilots" => a \in r..xrun
       /\ (pc \in Executing => xpc[r] # "submit" \/ ready[r])
       /\ (pc = "submit" => xpc[r] # "submit")
       /\ pc # "none" /\ (pend' = pend \/ xpc[r] \in Executing)
  BY <1>0, <1>2
<1>11. \A s \in Sims : xsim'[r][s] = "run" =>
           \/ pc = "wait" /\ <<r, s>> \in pend'
           \/ pc = "submit" /\ s \in l.batch
           \/ <<r, s>> \in qu
  BY <1>5
<1>12. RunGoes(r, pc, l, qu, a)
  BY <1>0, <1>2, <1>7, <1>8, <1>9, <1>10 DEF RunGoes
<1>13. SimsGo(r, pc, l, qu)
  BY <1>4, <1>5, <1>6, <1>11 DEF SimsGo
<1>14. StepTyped
  BY <1>3, <1>4, <1>6 DEF StepTyped
<1> QED  BY <1>12, <1>13, <1>14, RunMoves

\* The phases without simulations.
LEMMA PhasesKeep ==
  ASSUME XgInv, NEW r \in XRuns,
         Acquired(r) \/ PilotSubmitted(r) \/ Migrated(r) \/ Trained(r) \/ Evaluated(r) \/ CancelEarly(r)
  PROVE  XgInv'
<1>0. PICK l \in LocalRec : l = local[r] /\ local = [local EXCEPT ![r] = l]
  BY RunKeeps
<1>1. /\ xpc[r] \in Executing \ {"wait", "submit"} /\ UNCHANGED <<queue, aim, xpilot, xsim, pend, listed, xrun, xclosed>>
  BY DEF Acquired, PilotSubmitted, Migrated, Trained, Evaluated, CancelEarly, Executing, Calling,
       cleaning, xgRemote
<1>2. xstatus = "running"
  BY <1>1, ExecutingRun
<1>3. cancelling' \in [XRuns -> BOOLEAN]
  BY XgTypes DEF Acquired, PilotSubmitted, Migrated, Trained, Evaluated, CancelEarly
<1>4. recorded' \in BOOLEAN
  BY DEF Acquired, PilotSubmitted, Migrated, Trained, Evaluated, CancelEarly, XgInv, XgTypeOK
<1>5. Waits(r)
  <2>1. xpc[r] # "pilot" => UNCHANGED ready
    BY DEF Acquired, PilotSubmitted, Migrated, Trained, Evaluated, CancelEarly
  <2>2. xpc[r] = "pilot" => Waits(r)
    BY DEF Acquired, PilotSubmitted, Migrated, Trained, Evaluated, CancelEarly
  <2> QED  BY <1>1, <2>1, <2>2, RunKeeps DEF Waits
<1>6. CASE Acquired(r)
  <2>1. PICK pc \in {"pilot", "stage"} :
           /\ xpc' = [xpc EXCEPT ![r] = pc]
           /\ air' = air \/ (pc = "pilot" /\ air' = air \cup {<<r, pc, {}>>})
    BY <1>6 DEF Acquired, Goes
  <2>2. pc \in XgPcs /\ pc \notin {"none", "pilots", "wait", "submit"} /\ UNCHANGED <<local, xstatus>>
    BY <1>6 DEF Acquired, XgPcs, Executing, Calling
  <2>3. \/ air' = air
        \/ \E b \in SUBSET Sims : /\ air' = air \cup {<<r, pc, b>>} /\ pc \in {"pilot", "submit"}
                                  /\ pc = "submit" => b = l.batch
    <3>1. {} \in SUBSET Sims
      OBVIOUS
    <3>2. CASE pc = "pilot" /\ air' = air \cup {<<r, pc, {}>>}
      <4>1. PICK b \in SUBSET Sims : b = {}
        BY <3>1
      <4>2. air' = air \cup {<<r, pc, b>>} /\ pc \in {"pilot", "submit"} /\ pc # "submit"
        BY <3>2, <4>1
      <4> QED  BY <4>2
    <3> QED  BY <2>1, <3>2
  <2>4. local' = [local EXCEPT ![r] = l] /\ xstatus' = "running"
    BY <1>0, <1>2, <2>2
  <2> QED  BY <1>1, <1>3, <1>4, <1>5, <2>1, <2>2, <2>3, <2>4, PhaseMoves
<1>7. CASE PilotSubmitted(r) \/ Migrated(r) \/ Trained(r) \/ CancelEarly(r)
  <2>1. PICK pc \in {"stage", "train", "evaluate", "done"} : xpc' = [xpc EXCEPT ![r] = pc]
    BY <1>7 DEF PilotSubmitted, Migrated, Trained, CancelEarly, Goes
  <2>2. pc \in XgPcs /\ pc \notin {"none", "pilots", "wait"} /\ UNCHANGED <<local, xstatus, air>>
    BY <1>7 DEF PilotSubmitted, Migrated, Trained, CancelEarly, xgRemote, XgPcs, Executing, Calling
  <2>3. local' = [local EXCEPT ![r] = l] /\ xstatus' = "running"
    BY <1>0, <1>2, <2>2
  <2>4. air' = air
    BY <2>2
  <2> QED  BY <1>1, <1>3, <1>4, <1>5, <2>1, <2>2, <2>3, <2>4, PhaseMoves
<1>8. CASE Evaluated(r)
  <2>1. /\ xpc' = [xpc EXCEPT ![r] = "done"] /\ xstatus' = "completed" /\ local' = [local EXCEPT ![r] = Fresh]
        /\ UNCHANGED air
    BY <1>8 DEF Evaluated, Goes, xgRemote
  <2>2. Fresh \in LocalRec /\ "done" \in XgPcs /\ "done" \notin Executing
    BY DEF Fresh, LocalRec, XgPcs, Executing, Calling
  <2>3. air' = air /\ "done" \notin {"none", "pilots", "wait"} /\ xstatus' \in {"running", "completed", "failed"}
    BY <2>1
  <2> QED  BY <1>1, <1>3, <1>4, <1>5, <2>1, <2>2, <2>3, PhaseMoves
<1> QED  BY <1>6, <1>7, <1>8

\* What strays no longer runs, and nothing else changes.
LEMMA StrayIs ==
  ASSUME XgInv, NEW xs
  PROVE  /\ Stray(xs) \in [XRuns -> [Sims -> SimStates]]
         /\ \A q \in XRuns, s \in Sims : Stray(xs)[q][s] = "run" <=> (xsim[q][s] = "run" /\ <<q, s>> \notin xs)
<1>1. xsim \in [XRuns -> [Sims -> SimStates]]
  BY XgTypes
<1> QED  BY <1>1 DEF Stray, SimStates

\* A run that fails hands what is pending to its clean-up.
LEMMA FailKeeps ==
  ASSUME XgInv, NEW r \in XRuns, xpc[r] \in Executing, FailRun(r), UNCHANGED <<air, xpilot>>,
         cancelling' \in [XRuns -> BOOLEAN], xsim' \in [XRuns -> [Sims -> SimStates]],
         \A q \in XRuns, s \in Sims : xsim'[q][s] = "run" => xsim[q][s] = "run",
         xpc[r] = "submit" => \A s \in local[r].batch : xsim'[r][s] # "run"
  PROVE  XgInv'
<1>1. PICK l \in LocalRec : l = Fresh
  BY DEF Fresh, LocalRec
<1>2. pend \in SUBSET (XRuns \X Sims) /\ air \subseteq XRuns \X {"pilot", "submit"} \X SUBSET Sims
  BY XgTypes
<1>3. PICK a \in 0..MaxRuns : aim' = [aim EXCEPT ![r] = a]
  BY RunKeeps DEF FailRun
<1>4. "tasks" \in XgPcs /\ "tasks" \notin Executing /\ xpc[r] # "none"
  BY DEF XgPcs, Executing, Calling, Cleaning
<1>5. \A s \in Sims : xsim'[r][s] = "run" => <<r, s>> \in pend
  <2>1. \A s \in Sims : xsim'[r][s] = "run" => \/ xpc[r] = "wait" /\ <<r, s>> \in pend
                                               \/ xpc[r] = "submit" /\ s \in local[r].batch
    BY ExecutingRun
  <2> QED  BY <2>1
<1>6. RunGoes(r, "tasks", l, pend, a)
  BY <1>1, <1>2, <1>3, <1>4 DEF RunGoes, FailRun, TakesPending, Waits
<1>7. SimsGo(r, "tasks", l, pend)
  BY <1>5 DEF SimsGo, FailRun, TakesPending
<1>8. StepTyped
  BY <1>2, XgTypes DEF StepTyped, FailRun, TakesPending, XgInv, XgTypeOK
<1> QED  BY <1>6, <1>7, <1>8, RunMoves

\* The ends of a run: it finds no endpoint, is cancelled, or a phase of it raises.
LEMMA EndsKeep ==
  ASSUME XgInv, NEW r \in XRuns, CancelRun(r) \/ RaiseRun(r)
  PROVE  XgInv'
<1>1. xpc[r] \in Executing /\ FailRun(r) /\ xsim' = Stray(Unknown(r)) /\ UNCHANGED <<air, xpilot>>
  BY DEF CancelRun, RaiseRun, Executing
<1>2. cancelling' \in [XRuns -> BOOLEAN]
  BY XgTypes DEF CancelRun, RaiseRun
<1>3. /\ xsim' \in [XRuns -> [Sims -> SimStates]]
      /\ \A q \in XRuns, s \in Sims : xsim'[q][s] = "run" => xsim[q][s] = "run" /\ <<q, s>> \notin Unknown(r)
  BY <1>1, StrayIs
<1>4. xpc[r] = "submit" => \A s \in local[r].batch : xsim'[r][s] # "run"
  <2>1. local[r].batch \subseteq Sims
    BY XgTypes DEF LocalRec
  <2>2. xpc[r] = "submit" => \A s \in local[r].batch : <<r, s>> \in Unknown(r)
    BY DEF Unknown
  <2> QED  BY <2>1, <2>2, <1>3
<1> QED  BY <1>1, <1>2, <1>3, <1>4, FailKeeps

\* The first step of a run.
LEMMA BeginKeeps ==
  ASSUME XgInv, NEW r \in XRuns, BeginRun(r)
  PROVE  XgInv'
<1>1. /\ xpc[r] = "made" /\ xpc[r] \in Executing \ {"wait", "submit"}
      /\ UNCHANGED <<cancelling, air, xsim, xpilot>>
  BY DEF BeginRun, Executing, Calling, xgRemote
<1>2. cancelling' \in [XRuns -> BOOLEAN] /\ xsim \in [XRuns -> [Sims -> SimStates]]
  BY <1>1, XgTypes
<1>3. CASE FailRun(r)
  <2>1. \A q \in XRuns, s \in Sims : xsim'[q][s] = "run" => xsim[q][s] = "run"
    BY <1>1
  <2> QED  BY <1>1, <1>2, <1>3, <2>1, FailKeeps
<1>4. ASSUME NEW w \in BOOLEAN, Goes(r, "acquire"), local' = [local EXCEPT ![r].allocate = w],
             UNCHANGED <<xstatus, xrun, recorded, listed, pend, queue, aim, ready, xclosed>>
      PROVE  XgInv'
  <2>1. local \in [XRuns -> LocalRec]
    BY XgTypes
  <2>2. PICK m \in LocalRec : m = local[r]
    BY <2>1
  <2>3. PICK l : l = [m EXCEPT !.allocate = w]
    OBVIOUS
  <2>4. l \in LocalRec
    BY <2>2, <2>3 DEF LocalRec
  <2>5. local' = [local EXCEPT ![r] = l]
    BY <1>4, <2>2, <2>3
  <2>6. Waits(r)
    BY <1>1, <1>4, RunKeeps DEF Waits
  <2>7. "acquire" \in XgPcs /\ xpc' = [xpc EXCEPT ![r] = "acquire"] /\ air' = air
    BY <1>1, <1>4 DEF XgPcs, Executing, Calling, Goes
  <2>8. recorded' \in BOOLEAN /\ xstatus' = "running"
    BY <1>1, <1>4, ExecutingRun DEF XgInv, XgTypeOK
  <2>9. UNCHANGED <<queue, aim, xpilot, xsim, pend, listed, xrun, xclosed>>
    BY <1>1, <1>4
  <2> QED  BY <1>1, <1>2, <2>4, <2>5, <2>6, <2>7, <2>8, <2>9, PhaseMoves
<1>5. PICK s \in SUBSET Classes :
        \/ FailRun(r)
        \/ /\ Goes(r, "acquire") /\ local' = [local EXCEPT ![r].allocate = "allocate" \in s]
           /\ UNCHANGED <<xstatus, xrun, recorded, listed, pend, queue, aim, ready, xclosed>>
  BY DEF BeginRun
<1>6. CASE "allocate" \in s
  <2>1. ("allocate" \in s) = TRUE
    BY <1>6
  <2> QED  BY <1>3, <1>4, <1>5, <2>1
<1>7. CASE "allocate" \notin s
  <2>1. ("allocate" \in s) = FALSE
    BY <1>7
  <2> QED  BY <1>3, <1>4, <1>5, <2>1
<1> QED  BY <1>6, <1>7

\* A batch goes out: its locals name it, and so does the call.
LEMMA SubmitIs ==
  ASSUME XgInv, NEW r \in XRuns, NEW results \in SUBSET Sims, SubmitSims(r, results)
  PROVE  \E l \in LocalRec : /\ local' = [local EXCEPT ![r] = l]
                             /\ air' = air \cup {<<r, "submit", l.batch>>}
                             /\ xpc' = [xpc EXCEPT ![r] = "submit"]
<1>1. local \in [XRuns -> LocalRec]
  BY XgTypes
<1>2. PICK m \in LocalRec : m = local[r]
  BY <1>1
<1>3. PICK b \in SUBSET Sims : b = NextBatch(m.left)
  BY BatchIsPart DEF LocalRec
<1>4. PICK l : l = [m EXCEPT !.batch = b, !.results = results]
  OBVIOUS
<1>5. l \in LocalRec /\ l.batch = b
  BY <1>2, <1>3, <1>4 DEF LocalRec
<1>6. local' = [local EXCEPT ![r] = l]
  BY <1>2, <1>3, <1>4 DEF SubmitSims
<1>7. air' = air \cup {<<r, "submit", b>>} /\ xpc' = [xpc EXCEPT ![r] = "submit"]
  BY <1>2, <1>3 DEF SubmitSims, Goes
<1> QED  BY <1>5, <1>6, <1>7

\* The first batch.
LEMMA StagedKeeps ==
  ASSUME XgInv, NEW r \in XRuns, Staged(r)
  PROVE  XgInv'
<1>1. /\ xpc[r] = "stage" /\ xpc[r] \in Executing \ {"wait", "submit"}
      /\ UNCHANGED <<xstatus, xrun, recorded, listed, pend, cancelling, queue, aim, ready, xclosed, xsim, xpilot>>
  BY DEF Staged, Executing, Calling, cleaning
<1>2. PICK l \in LocalRec : /\ local' = [local EXCEPT ![r] = l]
                            /\ air' = air \cup {<<r, "submit", l.batch>>}
                            /\ xpc' = [xpc EXCEPT ![r] = "submit"]
  BY SubmitIs DEF Staged
<1>3. PICK b \in SUBSET Sims : b = l.batch
  BY DEF LocalRec
<1>4. /\ xstatus' = "running" /\ cancelling' \in [XRuns -> BOOLEAN] /\ recorded' \in BOOLEAN
      /\ Waits(r)
  BY <1>1, XgTypes, ExecutingRun, RunKeeps DEF XgInv, XgTypeOK, Waits
<1>5. "submit" \in XgPcs
  BY DEF XgPcs, Executing, Calling
<1>6. air' = air \cup {<<r, "submit", b>>} /\ b = l.batch
  BY <1>2, <1>3
<1>7. UNCHANGED <<queue, aim, xpilot, xsim, pend, listed, xrun, xclosed>>
  BY <1>1
<1> QED  BY <1>1, <1>2, <1>4, <1>5, <1>6, <1>7, PhaseMoves

\* The submission returns: its batch is what the run waits for.
LEMMA BatchKeeps ==
  ASSUME XgInv, NEW r \in XRuns, BatchSubmitted(r)
  PROVE  XgInv'
<1>1. /\ xpc[r] = "submit" /\ xpc[r] \in Executing /\ ready[r] /\ Waits(r)
      /\ xpc' = [xpc EXCEPT ![r] = "wait"] /\ pend' = {r} \X local[r].batch
      /\ UNCHANGED <<xstatus, xrun, recorded, listed, cancelling, queue, aim, xclosed, air, xsim, xpilot>>
  BY DEF BatchSubmitted, Executing, Calling, Goes, cleaning, xgRemote
<1>2. PICK m \in LocalRec : m = local[r]
  BY XgTypes
<1>3. PICK l : l = [m EXCEPT !.left = @ \ m.batch]
  OBVIOUS
<1>4. l \in LocalRec /\ m.batch \subseteq Sims
  BY <1>2, <1>3 DEF LocalRec
<1>5. local' = [local EXCEPT ![r] = l]
  BY <1>2, <1>3 DEF BatchSubmitted
<1>6. xstatus = "running" /\ queue[r] = {} /\ \A s \in Sims : xsim[r][s] = "run" => s \in m.batch
  BY <1>1, <1>2, ExecutingRun
<1>7. PICK a \in 0..MaxRuns, qu \in SUBSET (XRuns \X Sims) :
        qu = {} /\ aim' = [aim EXCEPT ![r] = a] /\ queue' = [queue EXCEPT ![r] = qu]
  <2>1. PICK a \in 0..MaxRuns : aim' = [aim EXCEPT ![r] = a]
    BY <1>1, RunKeeps
  <2>2. PICK qu \in SUBSET (XRuns \X Sims) : qu = {} /\ queue' = [queue EXCEPT ![r] = qu]
    BY <1>1, <1>6, RunKeeps
  <2> QED  BY <2>1, <2>2
<1>8. "wait" \in XgPcs
  BY DEF XgPcs, Executing, Calling
<1>9. /\ pend' \subseteq XRuns \X Sims /\ \A x \in pend' : x[1] = r
      /\ \A s \in Sims : xsim'[r][s] = "run" => <<r, s>> \in pend'
  BY <1>1, <1>2, <1>4, <1>6
<1>10. RunGoes(r, "wait", l, qu, a)
  <2>1. xpc[r] # "none" /\ "wait" # "none" /\ xstatus' = "running"
    BY <1>1, <1>6
  <2>2. "wait" # "pilots" /\ "wait" # "submit"
    OBVIOUS
  <2> QED  BY <1>1, <1>4, <1>5, <1>7, <1>8, <2>1, <2>2 DEF RunGoes
<1>11. SimsGo(r, "wait", l, qu)
  BY <1>1, <1>9 DEF SimsGo
<1>12. StepTyped
  BY <1>1, <1>9, XgTypes DEF StepTyped, XgInv, XgTypeOK
<1> QED  BY <1>10, <1>11, <1>12, RunMoves

\* A run that waits, and after whose step no simulation of it runs unless it
\* waits for it on.
LEMMA WaitMoves ==
  ASSUME XgInv, NEW r \in XRuns, xpc[r] = "wait",
         NEW pc \in {"wait", "submit", "tasks", "migrate"}, xpc' = [xpc EXCEPT ![r] = pc],
         NEW l \in LocalRec, local' = [local EXCEPT ![r] = l],
         UNCHANGED <<xrun, recorded, listed, cancelling, queue, aim, ready, xclosed, xpilot>>,
         xstatus' = xstatus \/ (xstatus' = "failed" /\ pc = "tasks"),
         air' = air \/ (pc = "submit" /\ air' = air \cup {<<r, pc, l.batch>>}),
         pend' \subseteq pend, pend' # {} => pc = "wait",
         xsim' \in [XRuns -> [Sims -> SimStates]],
         \A q \in XRuns, s \in Sims : xsim'[q][s] = "run" => xsim[q][s] = "run",
         \A s \in Sims : xsim'[r][s] = "run" => <<r, s>> \in pend'
  PROVE  XgInv'
<1>1. xpc[r] \in Executing /\ pc \in XgPcs /\ Waits(r) /\ pc \notin {"none", "pilots"}
  BY RunKeeps DEF XgPcs, Executing, Calling, Cleaning, Waits
<1>2. xstatus = "running" /\ queue[r] = {} /\ r = xrun /\ pend \subseteq XRuns \X Sims
  BY <1>1, ExecutingRun, XgTypes
<1>3. PICK a \in 0..MaxRuns, qu \in SUBSET (XRuns \X Sims) :
        qu = {} /\ aim' = [aim EXCEPT ![r] = a] /\ queue' = [queue EXCEPT ![r] = qu]
  <2>1. PICK a \in 0..MaxRuns : aim' = [aim EXCEPT ![r] = a]
    BY RunKeeps
  <2>2. PICK qu \in SUBSET (XRuns \X Sims) : qu = {} /\ queue' = [queue EXCEPT ![r] = qu]
    BY <1>2, RunKeeps
  <2> QED  BY <2>1, <2>2
<1>4. \A x \in pend' : x[1] = r /\ pc = "wait"
  BY <1>2 DEF XgInv, PendSound
<1>5. pc \in Executing => xpc[r] \in Executing /\ xstatus' = "running"
  BY <1>1, <1>2 DEF Executing, Calling
<1>6. RunGoes(r, pc, l, qu, a)
  BY <1>1, <1>3, <1>5 DEF RunGoes
<1>7. /\ air' \subseteq XRuns \X {"pilot", "submit"} \X SUBSET Sims
      /\ \A c \in air' : c \in air \/ (c[1] = r /\ c[2] = pc /\ (pc = "submit" => c[3] = l.batch))
  <2>1. air \subseteq XRuns \X {"pilot", "submit"} \X SUBSET Sims /\ l.batch \in SUBSET Sims
    BY XgTypes DEF LocalRec
  <2>2. CASE air' = air
    BY <2>1, <2>2
  <2>3. CASE pc = "submit" /\ air' = air \cup {<<r, pc, l.batch>>}
    <3>1. PICK d : d = <<r, pc, l.batch>>
      OBVIOUS
    <3>2. d \in XRuns \X {"pilot", "submit"} \X SUBSET Sims /\ d[1] = r /\ d[2] = pc /\ d[3] = l.batch
      BY <2>1, <2>3, <3>1
    <3> QED  BY <2>1, <2>3, <3>1, <3>2
  <2> QED  BY <2>2, <2>3
<1>8. SimsGo(r, pc, l, qu)
  <2>1. \A s \in Sims : xsim'[r][s] = "run" => pc = "wait" /\ <<r, s>> \in pend'
    OBVIOUS
  <2> QED  BY <1>1, <1>4, <1>7, <2>1 DEF SimsGo
<1>9. StepTyped
  BY <1>2, <1>7, XgTypes DEF StepTyped, XgInv, XgTypeOK
<1> QED  BY <1>6, <1>8, <1>9, RunMoves

\* A poll of the batch, and the pilot that comes online before it is through.
LEMMA PolledKeeps ==
  ASSUME XgInv, NEW r \in XRuns, Polled(r)
  PROVE  XgInv'
<1>1. /\ xpc[r] = "wait" /\ xpc[r] \in Executing
      /\ UNCHANGED <<xrun, recorded, listed, cancelling, queue, aim, ready, xclosed, xsim, xpilot>>
  BY DEF Polled, Executing, Calling, cleaning
<1>2. PICK m \in LocalRec : m = local[r]
  BY XgTypes
<1>3. PICK ended \in SUBSET pend : ended = {x \in pend : xsim[x[1]][x[2]] # "run"}
  OBVIOUS
<1>4. PICK results \in SUBSET Sims :
        results = m.results \cup {x[2] : x \in {y \in ended : xsim[y[1]][y[2]] = "end"}}
  <2>1. \A x \in ended : x[2] \in Sims
    BY <1>3, XgTypes
  <2>2. m.results \subseteq Sims
    BY DEF LocalRec
  <2> QED  BY <2>1, <2>2
<1>5. /\ pend' = pend \ ended
      /\ \/ /\ pend' # {} /\ local' = [local EXCEPT ![r].results = results] /\ UNCHANGED <<xstatus, xpc, air>>
         \/ pend' = {} /\ SubmitSims(r, results) /\ UNCHANGED xstatus
         \/ /\ pend' = {} /\ local' = [local EXCEPT ![r].results = results]
            /\ SimulationsOver(r, results) /\ air' = air
  BY <1>2, <1>3, <1>4 DEF Polled
<1>6. /\ xsim' \in [XRuns -> [Sims -> SimStates]] /\ pend' \subseteq pend
      /\ \A q \in XRuns, s \in Sims : xsim'[q][s] = "run" => xsim[q][s] = "run"
  BY <1>1, <1>5, XgTypes
<1>7. \A s \in Sims : xsim'[r][s] = "run" => <<r, s>> \in pend'
  <2>1. ASSUME NEW s \in Sims, xsim'[r][s] = "run"
        PROVE  <<r, s>> \in pend'
    <3>1. xsim[r][s] = "run" /\ <<r, s>> \in pend
      BY <1>1, <2>1, ExecutingRun
    <3>2. PICK x \in pend : x = <<r, s>>
      BY <3>1
    <3>3. x \notin ended
      BY <1>3, <3>1, <3>2
    <3> QED  BY <1>5, <3>2, <3>3
  <2> QED  BY <2>1
<1>8. PICK l : l = [m EXCEPT !.results = results]
  OBVIOUS
<1>9. l \in LocalRec
  BY <1>8 DEF LocalRec
<1>10. CASE pend' # {} /\ local' = [local EXCEPT ![r].results = results] /\ UNCHANGED <<xstatus, xpc, air>>
  <2>1. local' = [local EXCEPT ![r] = l] /\ xpc' = [xpc EXCEPT ![r] = "wait"] /\ xstatus' = xstatus /\ air' = air
    BY <1>1, <1>2, <1>8, <1>10, RunKeeps
  <2> QED  BY <1>1, <1>6, <1>7, <1>9, <2>1, WaitMoves
<1>11. CASE pend' = {} /\ SubmitSims(r, results) /\ UNCHANGED xstatus
  <2>1. PICK k \in LocalRec : /\ local' = [local EXCEPT ![r] = k]
                              /\ air' = air \cup {<<r, "submit", k.batch>>}
                              /\ xpc' = [xpc EXCEPT ![r] = "submit"]
    BY <1>11, SubmitIs
  <2>2. pend' = {} /\ xstatus' = xstatus
    BY <1>11
  <2> QED  BY <1>1, <1>6, <1>7, <2>1, <2>2, WaitMoves
<1>12. CASE pend' = {} /\ local' = [local EXCEPT ![r].results = results] /\ SimulationsOver(r, results) /\ air' = air
  <2>1. PICK pc \in {"tasks", "migrate"} :
          xpc' = [xpc EXCEPT ![r] = pc] /\ (xstatus' = xstatus \/ (xstatus' = "failed" /\ pc = "tasks"))
    BY <1>12 DEF SimulationsOver, Goes
  <2>2. local' = [local EXCEPT ![r] = l] /\ pend' = {} /\ air' = air
    BY <1>2, <1>8, <1>12
  <2>3. pc \in {"wait", "submit", "tasks", "migrate"}
    OBVIOUS
  <2> QED  BY <1>1, <1>6, <1>7, <1>9, <2>1, <2>2, <2>3, WaitMoves
<1> QED  BY <1>5, <1>10, <1>11, <1>12

LEMMA PilotOnlineKeeps ==
  ASSUME XgInv, NEW r \in XRuns, PilotOnline(r)
  PROVE  XgInv'
<1>1. /\ xpc[r] = "wait" /\ xpc[r] \in Executing /\ pend' = {} /\ xsim' = Stray(pend) /\ air' = air
      /\ UNCHANGED <<xrun, recorded, listed, local, cancelling, queue, aim, ready, xclosed, xpilot>>
  BY DEF PilotOnline, Executing, Calling, cleaning
<1>2. PICK pc \in {"tasks", "migrate"} :
        xpc' = [xpc EXCEPT ![r] = pc] /\ (xstatus' = xstatus \/ (xstatus' = "failed" /\ pc = "tasks"))
  BY DEF PilotOnline, SimulationsOver, Goes
<1>3. PICK l \in LocalRec : local' = [local EXCEPT ![r] = l]
  BY <1>1, RunKeeps
<1>4. /\ xsim' \in [XRuns -> [Sims -> SimStates]]
      /\ \A q \in XRuns, s \in Sims : xsim'[q][s] = "run" => xsim[q][s] = "run" /\ <<q, s>> \notin pend
  BY <1>1, StrayIs
<1>5. \A s \in Sims : xsim'[r][s] = "run" => <<r, s>> \in pend'
  BY <1>1, <1>4, ExecutingRun
<1>6. pc \in {"wait", "submit", "tasks", "migrate"} /\ pend' \subseteq pend
  BY <1>1
<1>7. UNCHANGED <<xrun, recorded, listed, cancelling, queue, aim, ready, xclosed, xpilot>>
  BY <1>1
<1>8. pend' # {} => pc = "wait"
  BY <1>1
<1>9. \A q \in XRuns, s \in Sims : xsim'[q][s] = "run" => xsim[q][s] = "run"
  BY <1>4
<1> QED  BY <1>1, <1>2, <1>3, <1>4, <1>5, <1>6, <1>7, <1>8, <1>9, WaitMoves

\* A task of the clean-up is cancelled.
LEMMA CleanTaskKeeps ==
  ASSUME XgInv, NEW r \in XRuns, CleanTask(r)
  PROVE  XgInv'
<1>1. PICK x \in queue[r] :
        /\ queue' = [queue EXCEPT ![r] = @ \ {x}]
        /\ \E outcome \in {"canceled", "deaf"} :
             xsim' = [xsim EXCEPT ![x[1]][x[2]] = IF @ = "run" THEN outcome ELSE @]
  BY DEF CleanTask
<1>2. /\ xpc[r] = "tasks" /\ xpc[r] \notin Executing
      /\ UNCHANGED <<xstatus, xrun, recorded, listed, pend, xpc, local, aim, cancelling, air, ready, xclosed, xpilot>>
  BY DEF CleanTask, Executing, Calling
<1>3. queue[r] \in SUBSET (XRuns \X Sims)
  BY XgTypes
<1>4. PICK q0 \in XRuns, s0 \in Sims : x = <<q0, s0>>
  BY <1>3
<1>5. PICK outcome \in {"canceled", "deaf"} :
        xsim' = [xsim EXCEPT ![q0][s0] = IF @ = "run" THEN outcome ELSE @]
  BY <1>1, <1>4
<1>6. /\ xsim' \in [XRuns -> [Sims -> SimStates]]
      /\ \A q \in XRuns, s \in Sims : xsim'[q][s] = "run" => xsim[q][s] = "run" /\ ~(q = q0 /\ s = s0)
  BY <1>5, XgTypes DEF SimStates
<1>7. PICK qu \in SUBSET (XRuns \X Sims) : qu = queue[r] \ {x} /\ queue' = [queue EXCEPT ![r] = qu]
  BY <1>1, <1>3
<1>8. PICK l \in LocalRec, a \in 0..MaxRuns : local' = [local EXCEPT ![r] = l] /\ aim' = [aim EXCEPT ![r] = a]
  BY <1>2, RunKeeps
<1>9. Waits(r) /\ xpc' = [xpc EXCEPT ![r] = "tasks"] /\ "tasks" \in XgPcs /\ "tasks" \notin Executing
  BY <1>2, RunKeeps DEF Waits, XgPcs, Cleaning
<1>10. \A s \in Sims : xsim'[r][s] = "run" => <<r, s>> \in qu
  BY <1>2, <1>4, <1>6, <1>7 DEF XgInv, SimsAreAnsweredFor
<1>11. RunGoes(r, "tasks", l, qu, a)
  BY <1>2, <1>7, <1>8, <1>9 DEF RunGoes
<1>12. SimsGo(r, "tasks", l, qu)
  BY <1>2, <1>6, <1>10 DEF SimsGo
<1>13. StepTyped
  BY <1>2, <1>6, XgTypes DEF StepTyped, XgInv, XgTypeOK
<1> QED  BY <1>11, <1>12, <1>13, RunMoves

\* The end of the clean-up: the pilots are looked up, cancelled, or it is cut.
LEMMA CleanKeeps ==
  ASSUME XgInv, NEW r \in XRuns, CleanPilots(r) \/ CleanPilot(r) \/ CleanCut(r)
  PROVE  XgInv'
<1>1. /\ xpc[r] \in Cleaning /\ xpc[r] # "none" /\ xpc[r] \notin Executing /\ xpc[r] \notin {"wait", "submit"}
      /\ UNCHANGED <<xstatus, xrun, recorded, listed, pend, local, ready, xclosed, air>>
  BY DEF CleanPilots, CleanPilot, CleanCut, Cleaning, Executing, Calling, xgRemote
<1>2. PICK pc \in {"pilots", "done"} : xpc' = [xpc EXCEPT ![r] = pc] /\ (pc = "pilots" => CleanPilots(r))
  BY DEF CleanPilots, CleanPilot, CleanCut
<1>3. PICK l \in LocalRec : local' = [local EXCEPT ![r] = l]
  BY <1>1, RunKeeps
<1>4. Waits(r) /\ pc \in XgPcs /\ pc \notin Executing
  BY <1>1, <1>2, RunKeeps DEF Waits, XgPcs, Executing, Calling, Cleaning
<1>5. RunSound(r) /\ r <= xrun /\ xrun \in 0..MaxRuns /\ r \in Nat
  BY <1>1, XgTypes DEF XgInv, RunSound
<1>6. PICK a \in 0..MaxRuns : aim' = [aim EXCEPT ![r] = a] /\ (CleanPilots(r) => a = xrun)
  <2>1. CASE CleanPilots(r)
    BY <1>5, <2>1 DEF CleanPilots
  <2>2. CASE ~CleanPilots(r)
    <3>1. UNCHANGED aim
      BY <2>2 DEF CleanPilot, CleanCut, cleaning
    <3> QED  BY <2>2, <3>1, RunKeeps
  <2> QED  BY <2>1, <2>2
<1>7. PICK qu \in SUBSET (XRuns \X Sims) : qu = {} /\ queue' = [queue EXCEPT ![r] = qu]
  <2>1. CASE CleanCut(r)
    BY <2>1 DEF CleanCut
  <2>2. CASE CleanPilots(r) \/ CleanPilot(r)
    <3>1. UNCHANGED queue /\ queue[r] = {}
      BY <1>5, <2>2 DEF CleanPilots, CleanPilot, cleaning, RunSound
    <3> QED  BY <3>1, RunKeeps
  <2> QED  BY <2>1, <2>2
<1>8. \A s \in Sims : xsim[r][s] = "run" => <<r, s>> \in queue[r]
  BY <1>1 DEF XgInv, SimsAreAnsweredFor
<1>9. /\ xsim' \in [XRuns -> [Sims -> SimStates]]
      /\ \A q \in XRuns, s \in Sims : xsim'[q][s] = "run" => xsim[q][s] = "run"
      /\ \A s \in Sims : xsim'[r][s] # "run"
  <2>1. CASE CleanCut(r)
    <3>1. xsim' = Stray(queue[r])
      BY <2>1 DEF CleanCut
    <3> QED  BY <1>8, <3>1, StrayIs
  <2>2. CASE CleanPilots(r) \/ CleanPilot(r)
    <3>1. UNCHANGED xsim /\ queue[r] = {}
      BY <1>5, <2>2 DEF CleanPilots, CleanPilot, xgRemote, RunSound
    <3> QED  BY <1>8, <3>1, XgTypes
  <2> QED  BY <2>1, <2>2
<1>10. cancelling' \in [XRuns -> BOOLEAN] /\ xpilot' \in [XRuns -> {"no", "up", "canceled", "deaf"}]
  <2>1. CASE CleanPilot(r)
    <3>1. aim[r] \in XRuns /\ UNCHANGED cancelling
      BY <1>5, <2>1, XgTypes DEF RunSound, CleanPilot
    <3>2. PICK outcome \in {"canceled", "deaf"} :
            xpilot' = [xpilot EXCEPT ![aim[r]] = IF @ = "up" THEN outcome ELSE @]
      BY <2>1 DEF CleanPilot
    <3> QED  BY <3>1, <3>2, XgTypes
  <2>2. CASE CleanPilots(r) \/ CleanCut(r)
    BY <2>2, XgTypes DEF CleanPilots, CleanCut, xgRemote
  <2> QED  BY <2>1, <2>2
<1>11. RunGoes(r, pc, l, qu, a)
  <2>1. pc = "pilots" => a \in r..xrun
    BY <1>2, <1>5, <1>6
  <2>2. (qu # {} => pc = "tasks") /\ pc # "none" /\ pc # "submit" /\ xstatus' = xstatus
    BY <1>1, <1>2, <1>7
  <2> QED  BY <1>1, <1>2, <1>3, <1>4, <1>6, <1>7, <2>1, <2>2 DEF RunGoes
<1>12. SimsGo(r, pc, l, qu)
  BY <1>1, <1>9 DEF SimsGo
<1>13. StepTyped
  BY <1>1, <1>9, <1>10, XgTypes DEF StepTyped, XgInv, XgTypeOK
<1> QED  BY <1>11, <1>12, <1>13, RunMoves

\* A workflow starts: nothing executes, so nothing is pending.
LEMMA StartKeeps ==
  ASSUME XgInv, StartWorkflow
  PROVE  XgInv'
<1>1. PICK n \in XRuns : n = xrun + 1
  BY XgTypes DEF StartWorkflow
<1>2. /\ xstatus # "running" /\ xstatus' = "running" /\ xrun' = n /\ recorded' = FALSE
      /\ xpc' = [xpc EXCEPT ![n] = "made"]
      /\ UNCHANGED <<listed, pend, local, cancelling, queue, aim, ready, xclosed, air, xsim, xpilot>>
  BY <1>1 DEF StartWorkflow, cleaning, xgRemote
<1>3. xpc[n] = "none" /\ \A q \in XRuns : xpc[q] \notin Executing
  BY <1>1, <1>2, XgTypes DEF XgInv, RunSound, OneWorkflow
<1>4. /\ xpc' \in [XRuns -> XgPcs] /\ xpc'[n] = "made"
      /\ \A q \in XRuns : q # n => xpc'[q] = xpc[q]
  BY <1>2, XgTypes DEF XgPcs, Executing
<1>5. XgTypeOK'
  <2>1. recorded' \in BOOLEAN /\ listed' \in BOOLEAN /\ xclosed' \in BOOLEAN
    BY <1>2 DEF XgInv, XgTypeOK
  <2>2. xstatus' \in {"idle", "running", "completed", "failed"} /\ xrun' \in 0..MaxRuns
    BY <1>1, <1>2, XgTypes
  <2> QED  BY <1>2, <1>4, <2>1, <2>2, XgTypes DEF XgTypeOK, XgPcs, LocalRec, SimStates
<1>6. OneWorkflow'
  BY <1>2, <1>3, <1>4 DEF OneWorkflow
<1>7. SimsAreAnsweredFor'
  <2>1. \A q \in XRuns : xpc[q] \notin {"wait", "submit"}
    BY <1>3 DEF Executing, Calling
  <2>2. \A q \in XRuns, s \in Sims : xsim[q][s] = "run" => <<q, s>> \in queue[q]
    BY <2>1 DEF XgInv, SimsAreAnsweredFor
  <2> QED  BY <1>2, <2>2 DEF SimsAreAnsweredFor
<1>8. PendSound'
  <2>1. \A x \in pend : x[1] \in XRuns /\ xpc[x[1]] \in Executing
    BY XgTypes DEF XgInv, PendSound, Executing, Calling
  <2>2. pend = {}
    BY <1>3, <2>1
  <2> QED  BY <1>2, <2>2 DEF PendSound
<1>9. AirSound'
  <2>1. ASSUME NEW c \in air
        PROVE  c[1] \in XRuns /\ c[1] # n /\ xpc'[c[1]] # "none" /\ xpc'[c[1]] \notin Executing
    <3>1. c[1] \in XRuns /\ c[1] # n /\ xpc[c[1]] # "none"
      BY <1>3, <2>1, XgTypes DEF XgInv, AirSound
    <3> QED  BY <1>3, <1>4, <3>1
  <2> QED  BY <1>2, <2>1 DEF AirSound
<1>10. ASSUME NEW q \in XRuns PROVE RunSound(q)'
  <2>1. RunSound(q) /\ xrun \in Nat /\ q \in Nat /\ aim[q] \in Nat
    BY XgTypes DEF XgInv
  <2>2. CASE q = n
    BY <1>1, <1>2, <1>3, <1>4, <2>1, <2>2 DEF RunSound
  <2>3. CASE q # n
    BY <1>1, <1>2, <1>4, <2>1, <2>3 DEF RunSound
  <2> QED  BY <2>2, <2>3
<1> QED  BY <1>5, <1>6, <1>7, <1>8, <1>9, <1>10 DEF XgInv

\* A stop, a close and a look at the status touch no run but to cancel it.
LEMMA RoutesKeepRuns ==
  ASSUME XgInv, StopWorkflow \/ CloseXg \/ GetStatus
  PROVE  XgInv'
<1>1. UNCHANGED <<xstatus, xrun, recorded, pend, xpc, local, queue, aim, ready, air, xsim, xpilot>>
  BY DEF StopWorkflow, CloseXg, GetStatus, cleaning, xgRemote
<1>2. cancelling' \in [XRuns -> BOOLEAN]
  <2>1. CASE StopWorkflow
    <3>1. PICK w \in BOOLEAN : w = RunAlive(xrun)
      BY DEF RunAlive
    <3> QED  BY <2>1, <3>1, XgTypes DEF StopWorkflow
  <2>2. CASE CloseXg
    BY <2>2, XgTypes DEF CloseXg
  <2>3. CASE GetStatus
    BY <2>3, XgTypes DEF GetStatus
  <2> QED  BY <2>1, <2>2, <2>3
<1>3. listed' \in BOOLEAN /\ xclosed' \in BOOLEAN
  <2>1. CASE GetStatus
    <3>1. PICK known \in SUBSET Classes : listed' = ("allocate" \in known)
      BY <2>1 DEF GetStatus
    <3>2. ("allocate" \in known) \in BOOLEAN
      OBVIOUS
    <3> QED  BY <2>1, <3>1, <3>2 DEF GetStatus, XgInv, XgTypeOK
  <2>2. CASE StopWorkflow \/ CloseXg
    BY <2>2 DEF StopWorkflow, CloseXg, XgInv, XgTypeOK
  <2> QED  BY <2>1, <2>2
<1>4. XgTypeOK'
  BY <1>1, <1>2, <1>3, XgTypes DEF XgInv, XgTypeOK
<1>5. OneWorkflow' /\ SimsAreAnsweredFor' /\ PendSound' /\ AirSound'
  BY <1>1 DEF XgInv, OneWorkflow, SimsAreAnsweredFor, PendSound, AirSound
<1>6. \A r \in XRuns : RunSound(r)'
  BY <1>1 DEF XgInv, RunSound
<1> QED  BY <1>4, <1>5, <1>6 DEF XgInv

\* The remote side moves: only the batch its run waits to have submitted starts.
LEMMA RemoteMoves ==
  ASSUME XgInv, UNCHANGED xgSession, air' \subseteq air,
         ready' \in [XRuns -> BOOLEAN], xsim' \in [XRuns -> [Sims -> SimStates]],
         xpilot' \in [XRuns -> {"no", "up", "canceled", "deaf"}],
         \A q \in XRuns : ready'[q] => xpc[q] \in {"pilot", "submit"},
         \A d \in air' : d[2] = "submit" /\ xpc[d[1]] = "submit" => ~ready'[d[1]],
         \A q \in XRuns, s \in Sims : xsim'[q][s] = "run" =>
              xsim[q][s] = "run" \/ (xpc[q] = "submit" /\ s \in local[q].batch)
  PROVE  XgInv'
<1>1. UNCHANGED <<xstatus, xrun, recorded, listed, pend, xpc, local, cancelling, queue, aim, xclosed>>
  BY DEF xgSession
<1>2. XgTypeOK'
  BY <1>1, XgTypes DEF XgInv, XgTypeOK, SimStates
<1>3. OneWorkflow' /\ PendSound'
  BY <1>1 DEF XgInv, OneWorkflow, PendSound
<1>4. SimsAreAnsweredFor'
  BY <1>1 DEF XgInv, SimsAreAnsweredFor
<1>5. AirSound'
  BY <1>1 DEF XgInv, AirSound
<1>6. \A r \in XRuns : RunSound(r)'
  BY <1>1 DEF XgInv, RunSound
<1> QED  BY <1>2, <1>3, <1>4, <1>5, <1>6 DEF XgInv

\* A call lands.
LEMMA LandedKeeps ==
  ASSUME XgInv, NEW c \in air, Landed(c)
  PROVE  XgInv'
<1>1. air \subseteq XRuns \X {"pilot", "submit"} \X SUBSET Sims
  BY XgTypes
<1>2. PICK r \in XRuns, kind \in {"pilot", "submit"}, b \in SUBSET Sims : c = <<r, kind, b>>
  BY <1>1
<1>3. /\ UNCHANGED xgSession /\ air' = air \ {c}
      /\ ready' = [ready EXCEPT ![r] = xpc[r] = kind]
      /\ kind = "pilot" => xpilot' = [xpilot EXCEPT ![r] = "up"] /\ xsim' = xsim
      /\ kind = "submit" => /\ xpilot' = xpilot
                            /\ xsim' = [xsim EXCEPT ![r] = [s \in Sims |->
                                 IF s \notin b THEN xsim[r][s]
                                 ELSE IF xpc[r] = "submit" THEN "run" ELSE "stray"]]
  BY <1>2 DEF Landed
<1>4. PICK w \in BOOLEAN : w = (xpc[r] = kind)
  OBVIOUS
<1>5. ready' = [ready EXCEPT ![r] = w]
  BY <1>3, <1>4
<1>6. /\ ready' \in [XRuns -> BOOLEAN] /\ ready'[r] = w /\ \A q \in XRuns : q # r => ready'[q] = ready[q]
  BY <1>5, XgTypes
<1>7. \A q \in XRuns : ready'[q] => xpc[q] \in {"pilot", "submit"}
  BY <1>4, <1>6 DEF XgInv, RunSound
<1>8. kind = "submit" /\ xpc[r] = "submit" => b = local[r].batch
  BY <1>2 DEF XgInv, AirSound, Executing, Calling
<1>9. ASSUME NEW d \in air', d[2] = "submit", xpc[d[1]] = "submit"
      PROVE  ~ready'[d[1]]
  <2>1. PICK q \in XRuns, e \in SUBSET Sims : d = <<q, "submit", e>> /\ d \in air /\ d # c
    BY <1>1, <1>3, <1>9
  <2>2. xpc[q] = "submit" /\ ~ready[q] /\ e = local[q].batch
    BY <1>9, <2>1 DEF XgInv, AirSound, Executing, Calling
  <2>3. CASE q # r
    BY <1>6, <2>1, <2>2, <2>3
  <2>4. CASE q = r
    <3>1. kind # "submit"
      BY <1>2, <1>8, <2>1, <2>2, <2>4
    <3>2. w = FALSE
      BY <1>4, <2>2, <2>4, <3>1
    <3> QED  BY <1>6, <2>1, <2>4, <3>2
  <2> QED  BY <2>3, <2>4
<1>10. /\ xpilot' \in [XRuns -> {"no", "up", "canceled", "deaf"}]
       /\ xsim' \in [XRuns -> [Sims -> SimStates]]
       /\ \A q \in XRuns, s \in Sims : xsim'[q][s] = "run" =>
            xsim[q][s] = "run" \/ (xpc[q] = "submit" /\ s \in local[q].batch)
  <2>0. xsim \in [XRuns -> [Sims -> SimStates]] /\ xpilot \in [XRuns -> {"no", "up", "canceled", "deaf"}]
    BY XgTypes
  <2>1. CASE kind = "pilot"
    BY <1>3, <2>0, <2>1
  <2>2. CASE kind = "submit"
    BY <1>3, <1>8, <2>0, <2>2 DEF SimStates
  <2> QED  BY <2>1, <2>2
<1>11. air' \subseteq air
  BY <1>3
<1> QED  BY <1>3, <1>6, <1>7, <1>9, <1>10, <1>11, RemoteMoves

\* A call is dropped, and a simulation ends.
LEMMA SimEndsKeeps ==
  ASSUME XgInv, (\E c \in air : Dropped(c)) \/ (\E r \in XRuns, s \in Sims : SimEnds(r, s))
  PROVE  XgInv'
<1>1. UNCHANGED xgSession /\ UNCHANGED <<ready, xpilot>> /\ air' \subseteq air
  BY DEF Dropped, SimEnds
<1>2. /\ xsim' \in [XRuns -> [Sims -> SimStates]]
      /\ \A q \in XRuns, s \in Sims : xsim'[q][s] = "run" => xsim[q][s] = "run"
  <2>0. xsim \in [XRuns -> [Sims -> SimStates]]
    BY XgTypes
  <2>1. CASE \E c \in air : Dropped(c)
    BY <2>0, <2>1 DEF Dropped
  <2>2. ASSUME NEW r \in XRuns, NEW s \in Sims, SimEnds(r, s)
        PROVE  /\ xsim' \in [XRuns -> [Sims -> SimStates]]
               /\ \A q \in XRuns, t \in Sims : xsim'[q][t] = "run" => xsim[q][t] = "run"
    BY <2>0, <2>2 DEF SimEnds, SimStates
  <2> QED  BY <2>1, <2>2
<1>3. ready' \in [XRuns -> BOOLEAN] /\ xpilot' \in [XRuns -> {"no", "up", "canceled", "deaf"}]
  BY <1>1, XgTypes
<1>4. \A q \in XRuns : ready'[q] => xpc[q] \in {"pilot", "submit"}
  BY <1>1 DEF XgInv, RunSound
<1>5. \A d \in air' : d[2] = "submit" /\ xpc[d[1]] = "submit" => ~ready'[d[1]]
  BY <1>1 DEF XgInv, AirSound, Executing, Calling
<1> QED  BY <1>1, <1>2, <1>3, <1>4, <1>5, RemoteMoves

\* Every step keeps the invariant.
LEMMA XgNextKeeps ==
  ASSUME XgInv, [XgNext]_xgVars
  PROVE  XgInv'
<1>1. CASE UNCHANGED xgVars
  BY <1>1 DEF xgVars, XgInv, XgTypeOK, OneWorkflow, SimsAreAnsweredFor, PendSound, AirSound,
       RunSound
<1>2. CASE StartWorkflow \/ StopWorkflow \/ CloseXg \/ GetStatus
  BY <1>2, StartKeeps, RoutesKeepRuns
<1>3. ASSUME NEW r \in XRuns, RunStep(r)
      PROVE  XgInv'
  BY <1>3, BeginKeeps, PhasesKeep, StagedKeeps, BatchKeeps, PolledKeeps, PilotOnlineKeeps,
       EndsKeep DEF RunStep
<1>4. ASSUME NEW r \in XRuns, EndStep(r)
      PROVE  XgInv'
  BY <1>4, PhasesKeep, EndsKeep, CleanTaskKeeps, CleanKeeps DEF EndStep
<1>5. ASSUME NEW c \in air, Landed(c) \/ Dropped(c)
      PROVE  XgInv'
  BY <1>5, LandedKeeps, SimEndsKeeps
<1>6. ASSUME NEW r \in XRuns, NEW s \in Sims, SimEnds(r, s)
      PROVE  XgInv'
  BY <1>6, SimEndsKeeps
<1> QED  BY <1>1, <1>2, <1>3, <1>4, <1>5, <1>6 DEF XgNext

\* The session starts with no run.
LEMMA XgStarts ==
  ASSUME XgInit
  PROVE  XgInv
<1>1. PICK l \in LocalRec : l = Fresh
  BY DEF Fresh, LocalRec
<1>2. /\ local \in [XRuns -> LocalRec] /\ xpc \in [XRuns -> XgPcs] /\ \A r \in XRuns : xpc[r] = "none"
  BY <1>1 DEF XgInit, XgPcs
<1>3. 0 \in 0..MaxRuns
  BY XgConstants
<1>4. /\ queue \in [XRuns -> SUBSET (XRuns \X Sims)] /\ aim \in [XRuns -> 0..MaxRuns]
      /\ \A r \in XRuns : queue[r] = {}
  BY <1>3 DEF XgInit
<1>5. /\ cancelling \in [XRuns -> BOOLEAN] /\ ready \in [XRuns -> BOOLEAN]
      /\ \A r \in XRuns : ready[r] = FALSE
  BY DEF XgInit
<1>6. /\ xsim \in [XRuns -> [Sims -> SimStates]] /\ xpilot \in [XRuns -> {"no", "up", "canceled", "deaf"}]
      /\ \A r \in XRuns, s \in Sims : xsim[r][s] = "no"
  BY DEF XgInit, SimStates
<1>7. XgTypeOK
  BY <1>2, <1>3, <1>4, <1>5, <1>6 DEF XgInit, XgTypeOK, LocalRec, XgPcs, SimStates
<1>8. OneWorkflow /\ SimsAreAnsweredFor /\ PendSound /\ AirSound
  BY <1>2, <1>6 DEF XgInit, OneWorkflow, SimsAreAnsweredFor, PendSound, AirSound, Executing, Calling
<1>9. \A r \in XRuns : RunSound(r)
  BY <1>2, <1>4, <1>5 DEF RunSound
<1> QED  BY <1>7, <1>8, <1>9 DEF XgInv

\* A step that ends the clean-up of the last run, with its pilot recorded and
\* its cluster listed, is the one that cancels that pilot.
LEMMA EndTakesPilot ==
  ASSUME XgInv, XgNext, NEW r \in XRuns, xpc[r] \in Cleaning, xpc'[r] = "done", ~cancelling[r],
         r = xrun, recorded, listed
  PROVE  xpilot'[r] # "up"
<1>0. xpc \in [XRuns -> XgPcs] /\ xpc[r] \in {"tasks", "pilots"}
  BY XgTypes DEF Cleaning
<1>1. ASSUME NEW q \in XRuns, RunStep(q) \/ EndStep(q)
      PROVE  q = r
  <2>1. \/ UNCHANGED xpc
        \/ \E pc : xpc' = [xpc EXCEPT ![q] = pc]
    BY <1>1 DEF RunStep, EndStep, BeginRun, Acquired, PilotSubmitted, Staged, BatchSubmitted,
         Polled,
                PilotOnline, Migrated, Trained, Evaluated, RaiseRun, CancelEarly, CancelRun, CleanTask,
                CleanPilots, CleanPilot, CleanCut, FailRun, SubmitSims, SimulationsOver, Goes
  <2> QED  BY <1>0, <2>1
<1>2. CASE RunStep(r)
  BY <1>0, <1>2 DEF RunStep, BeginRun, Acquired, PilotSubmitted, Staged, BatchSubmitted, Polled,
                PilotOnline, Migrated, Trained, Evaluated, RaiseRun, Calling
<1>3. CASE EndStep(r)
  <2>1. CASE CleanPilot(r)
    <3>1. aim[r] = r
      BY <2>1, XgTypes DEF CleanPilot, XgInv, RunSound
    <3>2. PICK outcome \in {"canceled", "deaf"} : xpilot' = [xpilot EXCEPT ![r] = IF @ = "up" THEN outcome ELSE @]
      BY <2>1, <3>1 DEF CleanPilot
    <3> QED  BY <3>2, XgTypes
  <2>2. ~CleanPilots(r)
    BY <1>0 DEF CleanPilots
  <2>3. CASE CancelEarly(r) \/ CancelRun(r) \/ CleanTask(r) \/ CleanCut(r)
    BY <1>0, <2>3 DEF CancelEarly, CancelRun, CleanTask, CleanCut, Calling
  <2> QED  BY <1>3, <2>1, <2>2, <2>3 DEF EndStep
<1>4. CASE StartWorkflow
  BY <1>0, <1>4 DEF StartWorkflow
<1>5. CASE StopWorkflow \/ CloseXg \/ GetStatus
  BY <1>0, <1>5 DEF StopWorkflow, CloseXg, GetStatus
<1>6. ASSUME (\E c \in air : Landed(c) \/ Dropped(c)) \/ (\E q \in XRuns, s \in Sims : SimEnds(q, s))
      PROVE  UNCHANGED xpc
  BY <1>6 DEF Landed, Dropped, SimEnds, xgSession
<1>7. xpc' # xpc
  BY <1>0
<1> QED  BY <1>1, <1>2, <1>3, <1>4, <1>5, <1>6, <1>7 DEF XgNext

\* One workflow executes at a time, and every simulation that runs is answered
\* for, however stops, closes and starts fall between the steps of a run.
THEOREM WorkflowsAreSound == XgSpec => [](XgTypeOK /\ OneWorkflow /\ SimsAreAnsweredFor)
<1>1. XgInv => XgTypeOK /\ OneWorkflow /\ SimsAreAnsweredFor
  BY DEF XgInv
<1> QED  BY <1>1, XgStarts, XgNextKeeps, PTL DEF XgSpec

\* A failed run's clean-up does not end before the pilot `_state' names.
THEOREM FailedRunsTakePilot == XgSpec => FailedTakesPilot
<1>1. XgInv /\ [XgNext]_xgVars =>
        [\A r \in XRuns :
           (/\ xpc[r] \in Cleaning /\ xpc'[r] = "done" /\ ~cancelling[r]
            /\ r = xrun /\ recorded /\ listed) => xpilot'[r] # "up"]_xgVars
  BY EndTakesPilot
<1> QED  BY <1>1, XgStarts, XgNextKeeps, PTL DEF XgSpec, FailedTakesPilot

-----------------------------------------------------------------------------
(***************************************************************************)
(* Workflows of Lucid (Lucid).                                             *)
(***************************************************************************)

AlivePcs == {"opening", "working", "closing", "reported"}
LucidRec ==
  [pc : {"none", "over"} \cup AlivePcs, phase : 1..6, sent : BOOLEAN, sessions : 0..3,
   tries : 0..PollRetries - 1, cancel : BOOLEAN, expired : BOOLEAN, final : RunEnded,
   packed : SUBSET Wells, tasks : [TaskIds -> {"none", "running"} \cup RunEnded], bad : SUBSET Wells,
   transfer : {"none", "active", "inactive", "succeeded", "failed", "given up"}, late : BOOLEAN]

\* What one run holds: a transfer only while it attends to it, no session once
\* it has reported, and of the wells that failed no more than their names.
RunGood(m) ==
  /\ m.transfer \in {"active", "inactive"} => m.pc = "working" /\ m.sent /\ m.phase \in {2, 5}
  /\ m.pc = "reported" => m.sessions = 0
  /\ m.phase >= 4 => \A w \in Wells \ m.bad : m.tasks[w] = "done"
  /\ m.packed # {} => m.phase >= 5 /\ m.packed \subseteq Wells \ m.bad

\* A submit that is being checked holds the slot alone, and so does a run.
SlotHeld ==
  /\ \A c \in LSubmits : submit[c] = "checking" => slot /\ Alive = {}
  /\ \A c, d \in LSubmits : submit[c] = "checking" /\ submit[d] = "checking" => c = d
  /\ \A r \in Alive : slot /\ r = current

\* The latest run was started, and once it has reported its end is shown.
LatestShown ==
  current # 0 => /\ lrun[current].pc # "none"
                 /\ lrun[current].pc \in {"reported", "over"} =>
                      shown = [run |-> current, status |-> lrun[current].final]

\* The shutdown cancels the run it finds; one that starts later is late.
ShutdownSound ==
  /\ ending = "joining" => \A r \in Alive : lrun[r].late \/ lrun[r].cancel
  /\ ending = "done" => \A r \in Alive : lrun[r].late \/ lucidOverdue
  /\ ownRt = "stopped" => ending = "done"

LuInv ==
  /\ LuTypeOK /\ lrun \in [LRuns -> LucidRec] /\ \A r \in LRuns : RunGood(lrun[r])
  /\ SlotHeld /\ LatestShown /\ ShutdownSound

\* The runs alive are those whose thread goes on.
LEMMA AliveIs ==
  ASSUME LuInv
  PROVE  /\ \A r \in LRuns : r \in Alive <=> lrun[r].pc \in AlivePcs
         /\ Alive \subseteq LRuns /\ LRuns = 1..MaxLucid /\ MaxLucid \in Nat
         /\ current \in 0..MaxLucid
  BY LucidConstants DEF Alive, AlivePcs, LRuns, LuInv, LuTypeOK

\* A run's record fits its type.
LEMMA RunTyped ==
  \A m \in LucidRec : /\ m.pc \in {"none", "opening", "working", "closing", "reported", "over"}
                      /\ m.phase \in 1..6 /\ m.sessions \in 0..3 /\ m.tries \in 0..PollRetries - 1
                      /\ m.bad \subseteq Wells /\ m.packed \subseteq Wells
  BY DEF LucidRec, AlivePcs

\* A step of the thread of run r, that leaves its record as y.
ThreadGoes(r, y) ==
  /\ r \in Alive /\ y \in LucidRec /\ RunGood(y) /\ lrun' = [lrun EXCEPT ![r] = y]
  /\ y.pc \in AlivePcs /\ y.late = lrun[r].late /\ y.cancel = lrun[r].cancel
  /\ y.pc = "reported" => Shows(r, y.final)
  /\ shown' = shown \/ Shows(r, "running") \/ Shows(r, y.final)
  /\ RunOnly(r)

\* Whatever it does, the thread keeps the invariant.
LEMMA ThreadKeeps ==
  ASSUME LuInv, NEW r \in LRuns, NEW y, ThreadGoes(r, y)
  PROVE  LuInv'
<1>0. /\ lrun \in [LRuns -> LucidRec] /\ r = current /\ slot /\ r \in Alive
      /\ UNCHANGED <<slot, submit, current, ending, ownRt, lucidOverdue>>
  BY DEF ThreadGoes, LuInv, SlotHeld, RunOnly
<1>1. /\ lrun' \in [LRuns -> LucidRec] /\ lrun'[r] = y /\ \A q \in LRuns : q # r => lrun'[q] = lrun[q]
  BY <1>0 DEF ThreadGoes
<1>2. Alive' = Alive
  <2>1. \A q \in LRuns : lrun'[q].pc \in AlivePcs <=> lrun[q].pc \in AlivePcs
    BY <1>0, <1>1 DEF ThreadGoes, Alive, AlivePcs
  <2> QED  BY <2>1 DEF Alive, AlivePcs
<1>3. /\ shown' \in [run : 0..MaxLucid, status : {"idle", "new", "running"} \cup RunEnded]
      /\ y.pc = "reported" => shown' = [run |-> r, status |-> y.final]
  <2>1. y.final \in RunEnded /\ r \in 0..MaxLucid
    BY <1>0, AliveIs DEF ThreadGoes, LucidRec
  <2> QED  BY <1>0, <2>1 DEF ThreadGoes, Shows, LuInv, LuTypeOK
<1>4. LuTypeOK'
  <2>1. /\ slot' \in BOOLEAN /\ submit' \in [LSubmits -> {"idle", "checking", "refused", "rejected", "started"}]
        /\ current' \in 0..MaxLucid
        /\ ending' \in {"up", "joining", "done"} /\ ownRt' \in {"none", "on", "stopped"}
        /\ lucidOverdue' \in BOOLEAN
    BY <1>0 DEF LuInv, LuTypeOK
  <2>2. \A q \in LRuns : lrun'[q] \in LucidRec
    BY <1>1
  <2> QED  BY <1>3, <2>1, <2>2, RunTyped DEF LuTypeOK
<1>5. \A q \in LRuns : RunGood(lrun'[q])
  BY <1>1 DEF ThreadGoes, LuInv
<1>6. SlotHeld'
  BY <1>0, <1>2 DEF LuInv, SlotHeld
<1>7. LatestShown'
  <2>1. y.pc # "none" /\ y.pc # "over"
    BY DEF ThreadGoes, AlivePcs
  <2> QED  BY <1>0, <1>1, <1>3, <2>1 DEF LatestShown
<1>8. ShutdownSound'
  <2>1. \A q \in Alive : q = r
    BY <1>0 DEF LuInv, SlotHeld
  <2>2. lrun'[r].late = lrun[r].late /\ lrun'[r].cancel = lrun[r].cancel
    BY <1>1 DEF ThreadGoes
  <2> QED  BY <1>0, <1>2, <2>1, <2>2 DEF LuInv, ShutdownSound
<1> QED  BY <1>1, <1>4, <1>5, <1>6, <1>7, <1>8 DEF LuInv

\* A run fails that holds no transfer.
LEMMA FailsKeeps ==
  ASSUME LuInv, NEW r \in LRuns, r \in Alive, lrun[r].transfer \notin {"active", "inactive"}, Fails(r)
  PROVE  LuInv'
<1>1. PICK m \in LucidRec : m = lrun[r] /\ RunGood(m)
  BY DEF LuInv
<1>2. PICK y : y = [m EXCEPT !.pc = "closing", !.final = "failed"]
  OBVIOUS
<1>3. /\ y \in LucidRec /\ y.pc = "closing" /\ y.final = "failed" /\ y.late = m.late /\ y.cancel = m.cancel
      /\ y.transfer = m.transfer /\ y.phase = m.phase /\ y.bad = m.bad /\ y.tasks = m.tasks /\ y.packed = m.packed
  BY <1>2 DEF LucidRec, AlivePcs, RunEnded
<1>4. RunGood(y)
  BY <1>1, <1>3 DEF RunGood
<1>5. lrun' = [lrun EXCEPT ![r] = y] /\ Shows(r, "running") /\ RunOnly(r)
  BY <1>1, <1>2 DEF Fails, LuInv
<1>6. ThreadGoes(r, y)
  BY <1>1, <1>3, <1>4, <1>5 DEF ThreadGoes, AlivePcs
<1> QED  BY <1>6, ThreadKeeps

\* A run that gives up its transfer.
LEMMA GivesUpKeeps ==
  ASSUME LuInv, NEW r \in LRuns, r \in Alive, GivesUp(r)
  PROVE  LuInv'
<1>1. PICK m \in LucidRec : m = lrun[r] /\ RunGood(m)
  BY DEF LuInv
<1>2. PICK y : y = [m EXCEPT !.pc = "closing", !.final = "failed", !.transfer = "given up"]
  OBVIOUS
<1>3. /\ y \in LucidRec /\ y.pc = "closing" /\ y.final = "failed" /\ y.late = m.late /\ y.cancel = m.cancel
      /\ y.transfer = "given up" /\ y.phase = m.phase /\ y.bad = m.bad /\ y.tasks = m.tasks /\ y.packed = m.packed
  BY <1>2 DEF LucidRec, AlivePcs, RunEnded
<1>4. RunGood(y)
  <2>1. y.transfer \notin {"active", "inactive"} /\ y.pc # "reported"
    BY <1>3
  <2>0. y.phase = m.phase /\ y.bad = m.bad /\ y.tasks = m.tasks /\ y.packed = m.packed
    BY <1>3
  <2>2. y.phase >= 4 => \A w \in Wells \ y.bad : y.tasks[w] = "done"
    BY <1>1, <2>0 DEF RunGood
  <2>3. y.packed # {} => y.phase >= 5 /\ y.packed \subseteq Wells \ y.bad
    BY <1>1, <2>0 DEF RunGood
  <2> QED  BY <2>1, <2>2, <2>3 DEF RunGood
<1>5. lrun' = [lrun EXCEPT ![r] = y] /\ Shows(r, "running") /\ RunOnly(r)
  BY <1>1, <1>2 DEF GivesUp, LuInv
<1>6. ThreadGoes(r, y)
  BY <1>1, <1>3, <1>4, <1>5 DEF ThreadGoes, AlivePcs
<1> QED  BY <1>6, ThreadKeeps

\* The wells are through once their phase is done, and the package keeps to
\* those that did not fail.
PhaseFits(m) ==
  /\ m.transfer \notin {"active", "inactive"}
  /\ m.phase >= 3 => \A w \in Wells \ m.bad : m.tasks[w] = "done"
  /\ m.packed # {} => m.phase >= 4 /\ m.packed \subseteq Wells \ m.bad

\* A phase is done.
LEMMA PhaseDoneKeeps ==
  ASSUME LuInv, NEW r \in LRuns, r \in Alive, NEW rec \in LucidRec, rec.pc = "working",
         rec.late = lrun[r].late, rec.cancel = lrun[r].cancel, PhaseFits(rec), PhaseDone(r, rec)
  PROVE  LuInv'
<1>1. CASE rec.phase = 6
  <2>2. PICK y : y = [rec EXCEPT !.pc = "closing"]
    OBVIOUS
  <2>3. /\ y \in LucidRec /\ y.pc = "closing" /\ y.late = rec.late /\ y.cancel = rec.cancel
        /\ y.transfer = rec.transfer /\ y.phase = rec.phase /\ y.bad = rec.bad /\ y.tasks = rec.tasks
        /\ y.packed = rec.packed
    BY <2>2 DEF LucidRec, AlivePcs
  <2>4. RunGood(y)
    BY <1>1, <2>3 DEF RunGood, PhaseFits
  <2>5. lrun' = [lrun EXCEPT ![r] = y] /\ Shows(r, "running") /\ RunOnly(r)
    BY <1>1, <2>2 DEF PhaseDone
  <2>6. ThreadGoes(r, y)
    BY <2>3, <2>4, <2>5 DEF ThreadGoes, AlivePcs
  <2> QED  BY <2>6, ThreadKeeps
<1>2. CASE rec.phase # 6
  <2>1. PICK ts : ts = [rec.tasks EXCEPT ![Job] = "none"]
    OBVIOUS
  <2>2. /\ ts \in [TaskIds -> {"none", "running"} \cup RunEnded] /\ \A w \in Wells : ts[w] = rec.tasks[w]
    BY <2>1, LucidConstants DEF LucidRec, TaskIds, Job
  <2>3. PICK y : y = [rec EXCEPT !.phase = @ + 1, !.sent = FALSE, !.tries = 0, !.expired = FALSE, !.tasks = ts]
    OBVIOUS
  <2>4. 0 \in 0..PollRetries - 1 /\ rec.phase + 1 \in 1..6 /\ rec.phase \in Nat
    <3>1. rec.phase \in 1..6
      BY DEF LucidRec
    <3>2. 0 \in 0..PollRetries - 1
      BY LucidConstants
    <3> QED  BY <1>2, <3>1, <3>2
  <2>5. /\ y \in LucidRec /\ y.pc = "working" /\ y.late = rec.late /\ y.cancel = rec.cancel
        /\ y.transfer = rec.transfer /\ y.phase = rec.phase + 1 /\ y.bad = rec.bad /\ y.tasks = ts
        /\ y.packed = rec.packed
    BY <2>2, <2>3, <2>4 DEF LucidRec, AlivePcs
  <2>6. RunGood(y)
    BY <2>2, <2>4, <2>5 DEF RunGood, PhaseFits
  <2>7. lrun' = [lrun EXCEPT ![r] = y] /\ Shows(r, "running") /\ RunOnly(r)
    <3>1. y = [rec EXCEPT !.phase = @ + 1, !.sent = FALSE, !.tries = 0, !.expired = FALSE, !.tasks[Job] = "none"]
      BY <2>1, <2>3
    <3> QED  BY <1>2, <3>1 DEF PhaseDone
  <2>8. ThreadGoes(r, y)
    BY <2>5, <2>6, <2>7 DEF ThreadGoes, AlivePcs
  <2> QED  BY <2>8, ThreadKeeps
<1> QED  BY <1>1, <1>2

\* What the steps of a thread that does not fail have in common: the record
\* keeps its phase and what the run will be known by.
SameRun(m, y) ==
  /\ y.phase = m.phase /\ y.bad = m.bad /\ y.packed = m.packed /\ y.late = m.late /\ y.cancel = m.cancel

\* Sessions are opened, and closed at the end.
LEMMA SessionsKeep ==
  ASSUME LuInv, NEW r \in LRuns, Open(r) \/ CloseOne(r) \/ Report(r)
  PROVE  LuInv'
<1>0. PICK m \in LucidRec : m = lrun[r] /\ RunGood(m)
  BY DEF LuInv
<1>1. r \in Alive /\ m.transfer \notin {"active", "inactive"} /\ m.pc \in {"opening", "closing"} /\ m.sessions \in 0..3
  BY <1>0, AliveIs DEF Open, CloseOne, Report, RunGood, AlivePcs, LucidRec
<1>2. CASE Fails(r)
  BY <1>0, <1>1, <1>2, FailsKeeps
<1>3. CASE Open(r) /\ ~Fails(r)
  <2>1. PICK pc \in {"opening", "working"} : pc = IF m.sessions = 2 THEN "working" ELSE m.pc
    BY <1>0, <1>3 DEF Open
  <2>2. PICK y : y = [m EXCEPT !.sessions = @ + 1, !.pc = pc]
    OBVIOUS
  <2>3. m.sessions + 1 \in 0..3
    BY <1>0, <1>1, <1>3 DEF Open
  <2>4. y \in LucidRec /\ SameRun(m, y) /\ y.pc = pc /\ y.transfer = m.transfer /\ y.tasks = m.tasks
    BY <2>2, <2>3 DEF LucidRec, AlivePcs, SameRun
  <2>5. RunGood(y)
    BY <1>0, <1>1, <2>4 DEF RunGood, SameRun
  <2>6. lrun' = [lrun EXCEPT ![r] = y] /\ Shows(r, "running") /\ RunOnly(r)
    BY <1>0, <1>3, <2>1, <2>2 DEF Open, LuInv
  <2>7. ThreadGoes(r, y)
    BY <1>0, <1>1, <2>4, <2>5, <2>6 DEF ThreadGoes, AlivePcs, SameRun
  <2> QED  BY <2>7, ThreadKeeps
<1>4. CASE CloseOne(r)
  <2>1. PICK y : y = [m EXCEPT !.sessions = @ - 1]
    OBVIOUS
  <2>2. m.sessions - 1 \in 0..3 /\ m.pc = "closing"
    BY <1>0, <1>1, <1>4 DEF CloseOne
  <2>3. y \in LucidRec /\ SameRun(m, y) /\ y.pc = "closing" /\ y.transfer = m.transfer /\ y.tasks = m.tasks
    BY <2>1, <2>2 DEF LucidRec, AlivePcs, SameRun
  <2>4. RunGood(y)
    BY <1>0, <1>1, <2>3 DEF RunGood, SameRun
  <2>5. lrun' = [lrun EXCEPT ![r] = y] /\ shown' = shown /\ RunOnly(r)
    BY <1>0, <1>4, <2>1 DEF CloseOne, LuInv
  <2>6. ThreadGoes(r, y)
    BY <1>0, <1>1, <2>3, <2>4, <2>5 DEF ThreadGoes, AlivePcs, SameRun
  <2> QED  BY <2>6, ThreadKeeps
<1>5. CASE Report(r)
  <2>1. PICK y : y = [m EXCEPT !.pc = "reported"]
    OBVIOUS
  <2>2. m.sessions = 0
    BY <1>0, <1>5 DEF Report
  <2>3. /\ y \in LucidRec /\ SameRun(m, y) /\ y.pc = "reported" /\ y.transfer = m.transfer /\ y.tasks = m.tasks
        /\ y.sessions = 0 /\ y.final = m.final
    <3>1. y \in LucidRec
      BY <2>1 DEF LucidRec, AlivePcs
    <3>2. SameRun(m, y) /\ y.pc = "reported" /\ y.sessions = m.sessions
      BY <2>1 DEF LucidRec, SameRun
    <3>3. y.transfer = m.transfer /\ y.tasks = m.tasks /\ y.final = m.final
      BY <2>1 DEF LucidRec
    <3> QED  BY <2>2, <3>1, <3>2, <3>3
  <2>4. RunGood(y)
    BY <1>0, <1>1, <2>3 DEF RunGood, SameRun
  <2>5. lrun' = [lrun EXCEPT ![r] = y] /\ Shows(r, y.final) /\ RunOnly(r)
    BY <1>0, <1>5, <2>1, <2>3 DEF Report, LuInv
  <2>6. ThreadGoes(r, y)
    BY <1>0, <1>1, <2>3, <2>4, <2>5 DEF ThreadGoes, AlivePcs, SameRun
  <2> QED  BY <2>6, ThreadKeeps
<1> QED  BY <1>2, <1>3, <1>4, <1>5

\* A sleep between two polls: only the count of failed ones changes.
LEMMA SleepsKeeps ==
  ASSUME LuInv, NEW r \in LRuns, Working(r), lrun[r].transfer \notin {"active", "inactive"} \/ ~lrun[r].cancel,
         NEW n \in 0..PollRetries - 1, Sleeps(r, [lrun[r] EXCEPT !.tries = n])
  PROVE  LuInv'
<1>0. PICK m \in LucidRec : m = lrun[r] /\ RunGood(m) /\ m.pc = "working"
  BY DEF LuInv, Working
<1>1. PICK y : y = [m EXCEPT !.tries = n]
  OBVIOUS
<1>2. /\ y \in LucidRec /\ SameRun(m, y) /\ y.pc = "working" /\ y.transfer = m.transfer /\ y.tasks = m.tasks
      /\ y.sent = m.sent
  BY <1>0, <1>1 DEF LucidRec, AlivePcs, SameRun
<1>3. RunGood(y)
  BY <1>0, <1>2 DEF RunGood, SameRun
<1>4. r \in Alive
  BY <1>0, AliveIs DEF AlivePcs
<1>5. CASE m.cancel
  <2>1. Fails(r) /\ lrun[r].transfer \notin {"active", "inactive"}
    BY <1>0, <1>1, <1>2, <1>5 DEF Sleeps, SameRun
  <2> QED  BY <1>4, <2>1, FailsKeeps
<1>6. CASE ~m.cancel
  <2>1. lrun' = [lrun EXCEPT ![r] = y] /\ Shows(r, "running") /\ RunOnly(r)
    BY <1>0, <1>1, <1>2, <1>6 DEF Sleeps, SameRun
  <2>2. ThreadGoes(r, y)
    BY <1>0, <1>2, <1>3, <1>4, <2>1 DEF ThreadGoes, AlivePcs, SameRun
  <2> QED  BY <2>2, ThreadKeeps
<1> QED  BY <1>5, <1>6

\* Phase by phase: where the shell tasks run, and where the transfers do.
LEMMA PhaseIs ==
  ASSUME LuInv, NEW r \in LRuns
  PROVE  LET m == lrun[r]
         IN /\ m.phase \in 1..6
            /\ Phase(r) = "preflight" <=> m.phase = 1
            /\ Phase(r) = "stage_in" <=> m.phase = 2
            /\ Phase(r) = "compute" <=> m.phase = 3
            /\ Phase(r) = "package" <=> m.phase = 4
            /\ Phase(r) = "stage_out" <=> m.phase = 5
            /\ Phase(r) = "fetch" <=> m.phase = 6
            /\ InShell(r) => m.phase \in {1, 3, 4} /\ m.pc = "working" /\ m.transfer \notin {"active", "inactive"}
            /\ InTransfer(r) => m.phase \in {2, 5} /\ m.pc = "working"
<1>1. PICK m \in LucidRec : m = lrun[r] /\ RunGood(m)
  BY DEF LuInv
<1>2. m.phase \in 1..6
  BY DEF LucidRec
<1>3. /\ Phase(r) = "preflight" <=> m.phase = 1
      /\ Phase(r) = "stage_in" <=> m.phase = 2
      /\ Phase(r) = "compute" <=> m.phase = 3
      /\ Phase(r) = "package" <=> m.phase = 4
      /\ Phase(r) = "stage_out" <=> m.phase = 5
      /\ Phase(r) = "fetch" <=> m.phase = 6
  BY <1>1, <1>2 DEF Phase, PhaseAt
<1>4. InShell(r) => m.phase \in {1, 3, 4} /\ m.pc = "working"
  BY <1>1, <1>3 DEF InShell, Working, ShellTasks
<1>5. InTransfer(r) => m.phase \in {2, 5} /\ m.pc = "working"
  BY <1>1, <1>3 DEF InTransfer, Working
<1>6. m.phase \in {1, 3, 4} => m.transfer \notin {"active", "inactive"}
  BY <1>1 DEF RunGood
<1> QED  BY <1>1, <1>2, <1>3, <1>4, <1>5, <1>6

\* The tasks of a phase are submitted.
LEMMA SubmitLucidKeeps ==
  ASSUME LuInv, NEW r \in LRuns, SubmitLucid(r)
  PROVE  LuInv'
<1>0. PICK m \in LucidRec : m = lrun[r] /\ RunGood(m)
  BY DEF LuInv
<1>1. /\ m.phase \in {1, 3, 4} /\ m.pc = "working" /\ m.transfer \notin {"active", "inactive"} /\ r \in Alive
      /\ m.phase = 4 => ShellTasks(r) = {Job}
  <2>1. m.phase \in {1, 3, 4} /\ m.pc = "working" /\ m.transfer \notin {"active", "inactive"}
    BY <1>0, PhaseIs DEF SubmitLucid
  <2>2. m.phase = 4 => Phase(r) = "package"
    BY <1>0, PhaseIs
  <2>3. r \in Alive
    BY <1>0, <2>1, AliveIs DEF AlivePcs
  <2> QED  BY <2>1, <2>2, <2>3 DEF ShellTasks
<1>2. CASE Fails(r)
  BY <1>0, <1>1, <1>2, FailsKeeps
<1>3. CASE ~Fails(r)
  <2>1. PICK ts : ts = [t \in TaskIds |-> IF t \in ShellTasks(r) THEN "running" ELSE m.tasks[t]]
    OBVIOUS
  <2>2. /\ ts \in [TaskIds -> {"none", "running"} \cup RunEnded]
        /\ \A t \in TaskIds : t \notin ShellTasks(r) => ts[t] = m.tasks[t]
    BY <2>1 DEF LucidRec
  <2>3. PICK y : y = [m EXCEPT !.sent = TRUE, !.tasks = ts]
    OBVIOUS
  <2>4. y \in LucidRec /\ SameRun(m, y) /\ y.pc = "working" /\ y.transfer = m.transfer /\ y.tasks = ts
    BY <1>1, <2>2, <2>3 DEF LucidRec, AlivePcs, SameRun
  <2>5. RunGood(y)
    <3>1. m.phase >= 4 => \A w \in Wells : ts[w] = m.tasks[w]
      BY <1>1, <2>2, LucidConstants DEF TaskIds, Job
    <3> QED  BY <1>0, <1>1, <2>4, <3>1 DEF RunGood, SameRun
  <2>6. lrun' = [lrun EXCEPT ![r] = y] /\ shown' = shown /\ RunOnly(r)
    BY <1>0, <1>3, <2>1, <2>3 DEF SubmitLucid, LuInv
  <2>7. ThreadGoes(r, y)
    BY <1>0, <1>1, <2>4, <2>5, <2>6 DEF ThreadGoes, AlivePcs, SameRun
  <2> QED  BY <2>7, ThreadKeeps
<1> QED  BY <1>2, <1>3

\* The tasks of a phase are polled.
LEMMA PollsKeep ==
  ASSUME LuInv, NEW r \in LRuns, PollFails(r) \/ PollTasks(r)
  PROVE  LuInv'
<1>0. PICK m \in LucidRec : m = lrun[r] /\ RunGood(m)
  BY DEF LuInv
<1>1. /\ m.phase \in {1, 3, 4} /\ m.pc = "working" /\ m.transfer \notin {"active", "inactive"} /\ r \in Alive
      /\ Working(r) /\ m.tries \in 0..PollRetries - 1 /\ 0 \in 0..PollRetries - 1
  <2>1. InShell(r) /\ Working(r)
    BY DEF PollFails, PollTasks, InShell
  <2>2. m.phase \in {1, 3, 4} /\ m.pc = "working" /\ m.transfer \notin {"active", "inactive"}
    BY <1>0, <2>1, PhaseIs
  <2>3. r \in Alive
    BY <1>0, <2>2, AliveIs DEF AlivePcs
  <2>4. m.tries \in 0..PollRetries - 1
    BY DEF LucidRec
  <2>5. 0 \in 0..PollRetries - 1
    BY LucidConstants
  <2> QED  BY <2>1, <2>2, <2>3, <2>4, <2>5
<1>2. CASE Fails(r)
  BY <1>0, <1>1, <1>2, FailsKeeps
<1>3. CASE PollFails(r) /\ ~Fails(r)
  <2>1. m.tries + 1 \in 0..PollRetries - 1
    BY <1>0, <1>1, <1>3, LucidConstants DEF PollFails
  <2>2. PICK n \in 0..PollRetries - 1 : n = m.tries + 1
    BY <2>1
  <2>3. Sleeps(r, [lrun[r] EXCEPT !.tries = n])
    BY <1>0, <1>3, <2>2 DEF PollFails
  <2> QED  BY <1>0, <1>1, <2>3, SleepsKeeps
<1>4. CASE PollTasks(r) /\ ~TasksEnded(r) /\ ~Fails(r)
  <2>1. Sleeps(r, [lrun[r] EXCEPT !.tries = 0])
    BY <1>4 DEF PollTasks
  <2> QED  BY <1>0, <1>1, <2>1, SleepsKeeps
<1>5. CASE PollTasks(r) /\ TasksEnded(r) /\ ~Fails(r)
  <2>0. Judged(r)
    BY <1>5 DEF PollTasks
  <2>1. CASE m.phase = 1
    <3>1. PhaseDone(r, m)
      <4>1. Phase(r) # "compute" /\ Phase(r) # "package"
        BY <1>0, <2>1, PhaseIs
      <4> QED  BY <1>0, <1>5, <2>0, <4>1 DEF Judged
    <3>2. PhaseFits(m)
      BY <1>0, <1>1, <2>1 DEF RunGood, PhaseFits
    <3> QED  BY <1>0, <1>1, <3>1, <3>2, PhaseDoneKeeps
  <2>2. CASE m.phase = 3
    <3>0. Phase(r) = "compute"
      BY <1>0, <2>2, PhaseIs
    <3>1. PICK bad \in SUBSET Wells : bad = FailedWells(r)
      BY DEF FailedWells
    <3>2. PICK y : y = [m EXCEPT !.bad = bad]
      OBVIOUS
    <3>3. PhaseDone(r, y)
      BY <1>0, <1>5, <2>0, <3>0, <3>1, <3>2 DEF Judged
    <3>4. /\ y \in LucidRec /\ y.pc = "working" /\ y.late = m.late /\ y.cancel = m.cancel
          /\ y.transfer = m.transfer /\ y.phase = m.phase /\ y.bad = bad /\ y.tasks = m.tasks
          /\ y.packed = m.packed
      BY <1>1, <3>2 DEF LucidRec, AlivePcs
    <3>5. \A w \in Wells \ bad : m.tasks[w] = "done"
      BY <1>0, <1>5, <3>0, <3>1 DEF TasksEnded, ShellTasks, FailedWells, RunEnded
    <3>6. PhaseFits(y)
      BY <1>0, <1>1, <2>2, <3>4, <3>5 DEF RunGood, PhaseFits
    <3> QED  BY <1>0, <1>1, <3>3, <3>4, <3>6, PhaseDoneKeeps
  <2>3. CASE m.phase = 4
    <3>0. Phase(r) = "package"
      BY <1>0, <2>3, PhaseIs
    <3>1. PICK packed \in SUBSET Wells : packed = Wells \ m.bad
      OBVIOUS
    <3>2. PICK y : y = [m EXCEPT !.packed = packed]
      OBVIOUS
    <3>3. PhaseDone(r, y)
      BY <1>0, <1>5, <2>0, <3>0, <3>1, <3>2 DEF Judged, DropsFailed
    <3>4. /\ y \in LucidRec /\ y.pc = "working" /\ y.late = m.late /\ y.cancel = m.cancel
          /\ y.transfer = m.transfer /\ y.phase = m.phase /\ y.bad = m.bad /\ y.tasks = m.tasks
          /\ y.packed = packed
      BY <1>1, <3>2 DEF LucidRec, AlivePcs
    <3>5. PhaseFits(y)
      BY <1>0, <1>1, <2>3, <3>1, <3>4 DEF RunGood, PhaseFits
    <3> QED  BY <1>0, <1>1, <3>3, <3>4, <3>5, PhaseDoneKeeps
  <2> QED  BY <1>1, <2>1, <2>2, <2>3
<1> QED  BY <1>2, <1>3, <1>4, <1>5

\* A transfer is submitted and polled.
LEMMA TransfersKeep ==
  ASSUME LuInv, NEW r \in LRuns, SubmitTransfer(r) \/ TransferPollFails(r) \/ PollTransfer(r)
  PROVE  LuInv'
<1>0. PICK m \in LucidRec : m = lrun[r] /\ RunGood(m)
  BY DEF LuInv
<1>1. /\ m.phase \in {2, 5} /\ m.pc = "working" /\ r \in Alive
      /\ Working(r) /\ m.tries \in 0..PollRetries - 1 /\ 0 \in 0..PollRetries - 1
  <2>1. InTransfer(r) /\ Working(r)
    BY DEF SubmitTransfer, TransferPollFails, PollTransfer, InTransfer
  <2>2. m.phase \in {2, 5} /\ m.pc = "working"
    BY <1>0, <2>1, PhaseIs
  <2>3. r \in Alive
    BY <1>0, <2>2, AliveIs DEF AlivePcs
  <2>4. m.tries \in 0..PollRetries - 1
    BY DEF LucidRec
  <2>5. 0 \in 0..PollRetries - 1
    BY LucidConstants
  <2> QED  BY <2>1, <2>2, <2>3, <2>4, <2>5
<1>2. CASE GivesUp(r)
  BY <1>1, <1>2, GivesUpKeeps
<1>3. CASE SubmitTransfer(r)
  <2>1. m.transfer \notin {"active", "inactive"}
    BY <1>0, <1>3 DEF SubmitTransfer, RunGood
  <2>2. CASE Fails(r)
    BY <1>0, <1>1, <2>1, <2>2, FailsKeeps
  <2>3. CASE ~Fails(r)
    <3>1. PICK y : y = [m EXCEPT !.sent = TRUE, !.transfer = "active"]
      OBVIOUS
    <3>2. /\ y \in LucidRec /\ SameRun(m, y) /\ y.pc = "working" /\ y.transfer = "active" /\ y.tasks = m.tasks
      BY <1>1, <3>1 DEF LucidRec, AlivePcs, SameRun
    <3>3. y.sent
      BY <3>1 DEF LucidRec
    <3>4. RunGood(y)
      BY <1>0, <1>1, <3>2, <3>3 DEF RunGood, SameRun
    <3>5. lrun' = [lrun EXCEPT ![r] = y] /\ shown' = shown /\ RunOnly(r)
      BY <1>0, <1>3, <2>3, <3>1 DEF SubmitTransfer, LuInv
    <3>6. ThreadGoes(r, y)
      BY <1>0, <1>1, <3>2, <3>4, <3>5 DEF ThreadGoes, AlivePcs, SameRun
    <3> QED  BY <3>6, ThreadKeeps
  <2> QED  BY <2>2, <2>3
<1>4. CASE TransferPollFails(r) /\ ~GivesUp(r)
  <2>1. m.tries + 1 \in 0..PollRetries - 1
    BY <1>0, <1>1, <1>4, LucidConstants DEF TransferPollFails, GivesUpOnPoll
  <2>2. PICK n \in 0..PollRetries - 1 : n = m.tries + 1
    BY <2>1
  <2>3. PICK y : y = [m EXCEPT !.tries = n]
    OBVIOUS
  <2>4. y.cancel = m.cancel /\ SleepsOrGivesUp(r, y)
    BY <1>0, <1>4, <2>2, <2>3 DEF TransferPollFails, GivesUpOnPoll, LucidRec
  <2>5. ~lrun[r].cancel /\ Sleeps(r, [lrun[r] EXCEPT !.tries = n])
    BY <1>0, <1>4, <2>3, <2>4 DEF SleepsOrGivesUp
  <2> QED  BY <1>1, <2>5, SleepsKeeps
<1>5. CASE PollTransfer(r) /\ ~GivesUp(r)
  <2>1. CASE m.transfer = "succeeded"
    <3>1. PhaseDone(r, m)
      BY <1>0, <1>5, <2>1 DEF PollTransfer
    <3>2. PhaseFits(m)
      BY <1>0, <1>1, <2>1 DEF RunGood, PhaseFits
    <3> QED  BY <1>0, <1>1, <3>1, <3>2, PhaseDoneKeeps
  <2>2. CASE m.transfer = "failed"
    <3>1. Fails(r) /\ lrun[r].transfer \notin {"active", "inactive"}
      BY <1>0, <1>5, <2>2 DEF PollTransfer
    <3> QED  BY <1>1, <3>1, FailsKeeps
  <2>3. CASE m.transfer \notin {"succeeded", "failed"}
    <3>1. PICK y : y = [m EXCEPT !.tries = 0]
      OBVIOUS
    <3>2. y.cancel = m.cancel /\ SleepsOrGivesUp(r, y)
      BY <1>0, <1>5, <2>3, <3>1 DEF PollTransfer, LucidRec
    <3>3. ~lrun[r].cancel /\ Sleeps(r, [lrun[r] EXCEPT !.tries = 0])
      BY <1>0, <1>5, <3>1, <3>2 DEF SleepsOrGivesUp
    <3> QED  BY <1>1, <3>3, SleepsKeeps
  <2> QED  BY <2>1, <2>2, <2>3
<1> QED  BY <1>2, <1>3, <1>4, <1>5

\* The images are fetched.
LEMMA FetchKeeps ==
  ASSUME LuInv, NEW r \in LRuns, FetchImages(r)
  PROVE  LuInv'
<1>0. PICK m \in LucidRec : m = lrun[r] /\ RunGood(m)
  BY DEF LuInv
<1>1. m.phase = 6 /\ m.pc = "working" /\ r \in Alive /\ m.transfer \notin {"active", "inactive"}
  <2>1. m.phase = 6 /\ m.pc = "working"
    BY <1>0, PhaseIs DEF FetchImages, Working
  <2> QED  BY <1>0, <2>1, AliveIs DEF AlivePcs, RunGood
<1>2. CASE Fails(r)
  BY <1>0, <1>1, <1>2, FailsKeeps
<1>3. CASE PhaseDone(r, m)
  <2>1. PhaseFits(m)
    BY <1>0, <1>1 DEF RunGood, PhaseFits
  <2> QED  BY <1>0, <1>1, <1>3, <2>1, PhaseDoneKeeps
<1> QED  BY <1>0, <1>2, <1>3 DEF FetchImages

\* The remote side moves and time passes, while the run works.
LEMMA ExternKeeps ==
  ASSUME LuInv, NEW r \in LRuns,
         TransferMoves(r) \/ RunTimesOut(r) \/ \E t \in TaskIds : LucidTaskEnds(r, t)
  PROVE  LuInv'
<1>0. PICK m \in LucidRec : m = lrun[r] /\ RunGood(m)
  BY DEF LuInv
<1>1. m.pc = "working" /\ r \in Alive /\ shown' = shown /\ RunOnly(r)
  <2>1. m.pc = "working" /\ shown' = shown /\ RunOnly(r)
    BY <1>0 DEF TransferMoves, RunTimesOut, LucidTaskEnds, Working, RunOnly
  <2> QED  BY <1>0, <2>1, AliveIs DEF AlivePcs
<1>2. CASE TransferMoves(r)
  <2>1. PICK s \in {"succeeded", "failed", "inactive"} : lrun' = [lrun EXCEPT ![r].transfer = s]
    BY <1>2 DEF TransferMoves
  <2>2. PICK y : y = [m EXCEPT !.transfer = s]
    OBVIOUS
  <2>3. /\ y \in LucidRec /\ SameRun(m, y) /\ y.pc = "working" /\ y.transfer = s /\ y.tasks = m.tasks
        /\ y.sent = m.sent
    BY <1>1, <2>2 DEF LucidRec, AlivePcs, SameRun
  <2>4. RunGood(y)
    <3>1. m.sent /\ m.phase \in {2, 5}
      BY <1>0, <1>2 DEF TransferMoves, RunGood
    <3> QED  BY <1>0, <2>3, <3>1 DEF RunGood, SameRun
  <2>5. lrun' = [lrun EXCEPT ![r] = y]
    BY <1>0, <2>1, <2>2 DEF LuInv
  <2>6. ThreadGoes(r, y)
    BY <1>0, <1>1, <2>3, <2>4, <2>5 DEF ThreadGoes, AlivePcs, SameRun
  <2> QED  BY <2>6, ThreadKeeps
<1>3. CASE RunTimesOut(r)
  <2>2. PICK y : y = [m EXCEPT !.expired = TRUE]
    OBVIOUS
  <2>3. /\ y \in LucidRec /\ SameRun(m, y) /\ y.pc = "working" /\ y.transfer = m.transfer /\ y.tasks = m.tasks
        /\ y.sent = m.sent
    BY <1>1, <2>2 DEF LucidRec, AlivePcs, SameRun
  <2>4. RunGood(y)
    BY <1>0, <2>3 DEF RunGood, SameRun
  <2>5. lrun' = [lrun EXCEPT ![r] = y]
    BY <1>0, <1>3, <2>2 DEF RunTimesOut, LuInv
  <2>6. ThreadGoes(r, y)
    BY <1>0, <1>1, <2>3, <2>4, <2>5 DEF ThreadGoes, AlivePcs, SameRun
  <2> QED  BY <2>6, ThreadKeeps
<1>4. ASSUME NEW t \in TaskIds, LucidTaskEnds(r, t)
      PROVE  LuInv'
  <2>1. PICK s \in RunEnded : lrun' = [lrun EXCEPT ![r].tasks[t] = s]
    BY <1>4 DEF LucidTaskEnds
  <2>2. PICK ts : ts = [m.tasks EXCEPT ![t] = s]
    OBVIOUS
  <2>3. /\ ts \in [TaskIds -> {"none", "running"} \cup RunEnded] /\ \A u \in TaskIds : u # t => ts[u] = m.tasks[u]
        /\ m.tasks[t] = "running"
    BY <1>0, <1>4, <2>2 DEF LucidRec, LucidTaskEnds
  <2>4. PICK y : y = [m EXCEPT !.tasks = ts]
    OBVIOUS
  <2>5. /\ y \in LucidRec /\ SameRun(m, y) /\ y.pc = "working" /\ y.transfer = m.transfer /\ y.tasks = ts
        /\ y.sent = m.sent
    BY <1>1, <2>3, <2>4 DEF LucidRec, AlivePcs, SameRun
  <2>6. RunGood(y)
    BY <1>0, <1>1, <2>3, <2>5 DEF RunGood, SameRun, TaskIds
  <2>7. lrun' = [lrun EXCEPT ![r] = y]
    BY <1>0, <2>1, <2>2, <2>4 DEF LuInv
  <2>8. ThreadGoes(r, y)
    BY <1>0, <1>1, <2>5, <2>6, <2>7 DEF ThreadGoes, AlivePcs, SameRun
  <2> QED  BY <2>8, ThreadKeeps
<1> QED  BY <1>2, <1>3, <1>4

\* The record of a run that did not start.
LEMMA NotStartedIs ==
  /\ NotStarted \in LucidRec /\ NotStarted.pc = "none" /\ NotStarted.transfer = "none" /\ NotStarted.phase = 1
  /\ NotStarted.packed = {} /\ RunGood(NotStarted)
<1>0. PICK y : y = NotStarted
  OBVIOUS
<1>1. y \in LucidRec /\ y.pc = "none" /\ y.transfer = "none" /\ y.phase = 1 /\ y.packed = {}
  <2>2. 0 \in 0..PollRetries - 1
    BY LucidConstants
  <2> QED  BY <1>0, <2>2 DEF LucidRec, NotStarted, AlivePcs, RunEnded
<1>2. RunGood(y)
  BY <1>1 DEF RunGood
<1> QED  BY <1>0, <1>1, <1>2

\* A run's thread ends: the slot is free, and what the run was known by stays shown.
LEMMA ReleaseKeeps ==
  ASSUME LuInv, NEW r \in LRuns, ReleaseRun(r)
  PROVE  LuInv'
<1>0. PICK m \in LucidRec : m = lrun[r] /\ RunGood(m) /\ m.pc = "reported"
  BY DEF LuInv, ReleaseRun
<1>1. /\ lrun \in [LRuns -> LucidRec] /\ r \in Alive /\ r = current /\ slot /\ \A q \in Alive : q = r
      /\ UNCHANGED <<submit, current, shown, ending, ownRt, lucidOverdue>>
      /\ \A c \in LSubmits : submit[c] # "checking"
  <2>1. r \in Alive
    BY <1>0, AliveIs DEF AlivePcs
  <2> QED  BY <2>1 DEF LuInv, SlotHeld, ReleaseRun
<1>2. PICK y : y = [NotStarted EXCEPT !.pc = "over", !.final = m.final, !.cancel = m.cancel]
  OBVIOUS
<1>3. /\ y \in LucidRec /\ y.pc = "over" /\ y.final = m.final /\ y.transfer = "none" /\ y.phase = 1 /\ y.packed = {}
  <2>1. m.final \in RunEnded /\ m.cancel \in BOOLEAN
    BY DEF LucidRec
  <2>2. PICK z \in LucidRec : z = NotStarted /\ z.transfer = "none" /\ z.phase = 1 /\ z.packed = {}
    BY NotStartedIs
  <2>3. y = [z EXCEPT !.pc = "over", !.final = m.final, !.cancel = m.cancel]
    BY <1>2, <2>2
  <2> QED  BY <2>1, <2>2, <2>3 DEF LucidRec
<1>4. lrun' = [lrun EXCEPT ![r] = y] /\ slot' = FALSE
  BY <1>0, <1>1, <1>2 DEF ReleaseRun
<1>5. lrun' \in [LRuns -> LucidRec] /\ lrun'[r] = y /\ \A q \in LRuns : q # r => lrun'[q] = lrun[q]
  BY <1>1, <1>3, <1>4
<1>6. Alive' = {}
  <2>1. \A q \in LRuns : lrun'[q].pc \notin AlivePcs
    <3>1. ASSUME NEW q \in LRuns, lrun'[q].pc \in AlivePcs
          PROVE  FALSE
      <4>1. q # r
        BY <1>3, <1>5, <3>1 DEF AlivePcs
      <4>2. q \in Alive
        BY <1>5, <3>1, <4>1, AliveIs
      <4> QED  BY <1>1, <4>1, <4>2
    <3> QED  BY <3>1
  <2> QED  BY <2>1 DEF Alive, AlivePcs
<1>7. LuTypeOK'
  <2>1. \A q \in LRuns : lrun'[q] \in LucidRec
    BY <1>5
  <2> QED  BY <1>1, <1>4, <2>1, RunTyped DEF LuInv, LuTypeOK
<1>8. \A q \in LRuns : RunGood(lrun'[q])
  <2>1. RunGood(y)
    BY <1>3 DEF RunGood
  <2> QED  BY <1>5, <2>1 DEF LuInv
<1>9. SlotHeld' /\ ShutdownSound'
  BY <1>1, <1>6 DEF LuInv, SlotHeld, ShutdownSound
<1>10. LatestShown'
  BY <1>0, <1>1, <1>3, <1>5 DEF LuInv, LatestShown
<1> QED  BY <1>5, <1>7, <1>8, <1>9, <1>10 DEF LuInv

\* The submits before a run starts.
LEMMA SubmitsKeep ==
  ASSUME LuInv, NEW c \in LSubmits, SubmitRun(c) \/ Reach(c) \/ Reject(c)
  PROVE  LuInv'
<1>0. /\ submit \in [LSubmits -> {"idle", "checking", "refused", "rejected", "started"}]
      /\ UNCHANGED <<current, lrun, shown, ending, lucidOverdue>> /\ slot \in BOOLEAN
  BY DEF SubmitRun, Reach, Reject, LuInv, LuTypeOK
<1>1. Alive' = Alive
  BY <1>0 DEF Alive
<1>2. ownRt' \in {"none", "on", "stopped"} /\ (ownRt' = "stopped" => ownRt = "stopped")
  BY DEF SubmitRun, Reach, Reject, LuInv, LuTypeOK
<1>3. PICK at \in {"refused", "checking", "rejected"} :
        /\ submit' = [submit EXCEPT ![c] = at] /\ slot' \in BOOLEAN
        /\ at = "refused" => slot' = slot
        /\ at = "checking" => slot' = TRUE /\ (submit[c] = "checking" \/ ~slot)
        /\ at = "rejected" => submit[c] = "checking"
  <2>1. CASE SubmitRun(c) /\ slot
    BY <1>0, <2>1 DEF SubmitRun, StaysTaken
  <2>2. CASE SubmitRun(c) /\ ~slot
    BY <1>0, <2>2 DEF SubmitRun, Reserve
  <2>3. CASE Reach(c)
    <3>1. submit[c] = "checking" /\ slot = TRUE /\ slot' = slot /\ submit' = [submit EXCEPT ![c] = "checking"]
      BY <1>0, <2>3 DEF Reach, LuInv, SlotHeld
    <3> QED  BY <3>1
  <2>4. CASE Reject(c)
    BY <2>4 DEF Reject, GiveBack
  <2> QED  BY <1>0, <2>1, <2>2, <2>3, <2>4
<1>4. SlotHeld'
  <2>1. submit'[c] = at /\ \A d \in LSubmits : d # c => submit'[d] = submit[d]
    BY <1>0, <1>3
  <2>2. CASE at = "refused"
    BY <1>1, <1>0, <1>3, <2>1, <2>2 DEF LuInv, SlotHeld
  <2>3. CASE at = "rejected"
    BY <1>1, <1>0, <1>3, <2>1, <2>3 DEF LuInv, SlotHeld
  <2>4. CASE at = "checking"
    <3>1. \A d \in LSubmits : d # c => submit[d] # "checking"
      BY <1>3, <2>4 DEF LuInv, SlotHeld
    <3>2. Alive = {}
      BY <1>3, <2>4 DEF LuInv, SlotHeld
    <3> QED  BY <1>1, <1>3, <2>1, <2>4, <3>1, <3>2 DEF SlotHeld
  <2> QED  BY <2>2, <2>3, <2>4
<1>5. LuTypeOK'
  <2>1. submit' \in [LSubmits -> {"idle", "checking", "refused", "rejected", "started"}]
    BY <1>0, <1>3
  <2> QED  BY <1>0, <1>2, <1>3, <2>1 DEF LuInv, LuTypeOK
<1>6. LatestShown' /\ ShutdownSound' /\ (lrun \in [LRuns -> LucidRec])' /\ (\A r \in LRuns : RunGood(lrun[r]))'
  BY <1>0, <1>1, <1>2 DEF LuInv, LatestShown, ShutdownSound, RunGood
<1> QED  BY <1>4, <1>5, <1>6 DEF LuInv

\* A submit that was checked starts its run; no other is alive.
LEMMA StartRunKeeps ==
  ASSUME LuInv, NEW c \in LSubmits, Start(c)
  PROVE  LuInv'
<1>0. /\ submit \in [LSubmits -> {"idle", "checking", "refused", "rejected", "started"}]
      /\ lrun \in [LRuns -> LucidRec] /\ submit[c] = "checking" /\ Alive = {}
      /\ UNCHANGED <<ending, ownRt, lucidOverdue>> /\ slot' = TRUE
      /\ submit' = [submit EXCEPT ![c] = "started"]
      /\ \A d \in LSubmits : d # c => submit[d] # "checking"
  BY DEF Start, LuInv, LuTypeOK, SlotHeld
<1>1. PICK n \in LRuns : n = current + 1 /\ n # 0
  BY AliveIs DEF Start
<1>2. PICK late \in BOOLEAN : late = (ending # "up")
  OBVIOUS
<1>3. PICK y : y = [NotStarted EXCEPT !.pc = "opening", !.late = late]
  OBVIOUS
<1>4. /\ y \in LucidRec /\ y.pc = "opening" /\ y.transfer = "none" /\ y.phase = 1 /\ y.packed = {} /\ y.late = late
  <2>2. PICK z \in LucidRec : z = NotStarted /\ z.transfer = "none" /\ z.phase = 1 /\ z.packed = {}
    BY NotStartedIs
  <2>3. y = [z EXCEPT !.pc = "opening", !.late = late]
    BY <1>3, <2>2
  <2> QED  BY <2>2, <2>3 DEF LucidRec, AlivePcs
<1>5. lrun' = [lrun EXCEPT ![n] = y] /\ current' = n /\ shown' = [run |-> n, status |-> "new"]
  BY <1>1, <1>2, <1>3 DEF Start
<1>6. lrun' \in [LRuns -> LucidRec] /\ lrun'[n] = y /\ \A q \in LRuns : q # n => lrun'[q] = lrun[q]
  BY <1>0, <1>4, <1>5
<1>7. \A q \in Alive' : q = n
  <2>1. ASSUME NEW q \in LRuns, q # n, lrun'[q].pc \in AlivePcs
        PROVE  FALSE
    BY <1>0, <1>6, <2>1, AliveIs
  <2> QED  BY <2>1 DEF Alive, AlivePcs
<1>8. LuTypeOK'
  <2>1. \A q \in LRuns : lrun'[q] \in LucidRec
    BY <1>6
  <2>2. submit' \in [LSubmits -> {"idle", "checking", "refused", "rejected", "started"}]
    BY <1>0
  <2>3. current' \in 0..MaxLucid
    BY <1>1, <1>5, AliveIs
  <2>4. shown' \in [run : 0..MaxLucid, status : {"idle", "new", "running"} \cup RunEnded]
    BY <1>1, <1>5, <2>3
  <2> QED  BY <1>0, <2>1, <2>2, <2>3, <2>4, RunTyped DEF LuInv, LuTypeOK
<1>9. \A q \in LRuns : RunGood(lrun'[q])
  <2>1. RunGood(y)
    BY <1>4 DEF RunGood
  <2> QED  BY <1>6, <2>1 DEF LuInv
<1>10. SlotHeld'
  BY <1>0, <1>5, <1>7 DEF SlotHeld
<1>11. LatestShown'
  BY <1>4, <1>5, <1>6 DEF LatestShown
<1>12. ShutdownSound'
  <2>1. ending # "up" => lrun'[n].late
    BY <1>2, <1>4, <1>6
  <2> QED  BY <1>0, <1>7, <2>1 DEF LuInv, ShutdownSound
<1> QED  BY <1>6, <1>8, <1>9, <1>10, <1>11, <1>12 DEF LuInv

\* The shutdown begins: the run it finds is cancelled, or there is none.
LEMMA ShutdownKeeps ==
  ASSUME LuInv, ShutdownBegins
  PROVE  LuInv'
<1>0. /\ lrun \in [LRuns -> LucidRec] /\ ending = "up" /\ ownRt # "stopped"
      /\ UNCHANGED <<slot, submit, current, shown, lucidOverdue>>
  BY DEF ShutdownBegins, LuInv, ShutdownSound
<1>1. CASE RunToJoin
  <2>1. current \in LRuns /\ current \in Alive /\ ending' = "joining" /\ ownRt' = ownRt
    BY <1>1, AliveIs DEF ShutdownBegins, RunToJoin
  <2>2. PICK m \in LucidRec : m = lrun[current] /\ RunGood(m)
    BY <2>1 DEF LuInv
  <2>3. PICK y : y = [m EXCEPT !.cancel = TRUE]
    OBVIOUS
  <2>4. /\ y \in LucidRec /\ SameRun(m, [y EXCEPT !.cancel = m.cancel]) /\ y.pc = m.pc /\ y.transfer = m.transfer
        /\ y.tasks = m.tasks /\ y.sent = m.sent /\ y.sessions = m.sessions /\ y.final = m.final
        /\ y.phase = m.phase /\ y.bad = m.bad /\ y.packed = m.packed
    BY <2>3 DEF LucidRec, SameRun
  <2>5. y.cancel
    BY <2>3 DEF LucidRec
  <2>6. lrun' = [lrun EXCEPT ![current] = y]
    BY <1>0, <1>1, <2>1, <2>2, <2>3 DEF ShutdownBegins
  <2>7. lrun' \in [LRuns -> LucidRec] /\ lrun'[current] = y /\ \A q \in LRuns : q # current => lrun'[q] = lrun[q]
    BY <1>0, <2>1, <2>4, <2>6
  <2>8. Alive' = Alive
    <3>1. \A q \in LRuns : lrun'[q].pc = lrun[q].pc
      BY <2>2, <2>4, <2>7
    <3> QED  BY <3>1 DEF Alive
  <2>9. LuTypeOK'
    <3>1. \A q \in LRuns : lrun'[q] \in LucidRec
      BY <2>7
    <3> QED  BY <1>0, <2>1, <3>1, RunTyped DEF LuInv, LuTypeOK
  <2>10. \A q \in LRuns : RunGood(lrun'[q])
    <3>1. RunGood(y)
      BY <2>2, <2>4 DEF RunGood
    <3> QED  BY <2>7, <3>1 DEF LuInv
  <2>11. SlotHeld'
    BY <1>0, <2>8 DEF LuInv, SlotHeld
  <2>12. LatestShown'
    BY <1>0, <2>2, <2>4, <2>7 DEF LuInv, LatestShown
  <2>13. ShutdownSound'
    <3>1. \A q \in Alive : q = current
      BY DEF LuInv, SlotHeld
    <3>2. \A q \in Alive' : lrun'[q].cancel
      BY <2>5, <2>7, <2>8, <3>1
    <3> QED  BY <1>0, <2>1, <3>2 DEF ShutdownSound
  <2> QED  BY <2>7, <2>9, <2>10, <2>11, <2>12, <2>13 DEF LuInv
<1>2. CASE ~RunToJoin
  <2>1. ending' = "done" /\ lrun' = lrun /\ ownRt' \in {"none", "on", "stopped"}
    BY <1>2 DEF ShutdownBegins, LuInv, LuTypeOK
  <2>2. Alive = {} /\ Alive' = Alive
    <3>1. Alive = {}
      BY <1>2 DEF RunToJoin, LuInv, SlotHeld
    <3>2. Alive' = Alive
      BY <2>1 DEF Alive
    <3> QED  BY <3>1, <3>2
  <2>3. LuTypeOK' /\ LatestShown' /\ (lrun \in [LRuns -> LucidRec])' /\ (\A r \in LRuns : RunGood(lrun[r]))'
    BY <1>0, <2>1 DEF LuInv, LuTypeOK, LatestShown, RunGood
  <2>4. SlotHeld' /\ ShutdownSound'
    BY <1>0, <2>1, <2>2 DEF LuInv, SlotHeld, ShutdownSound
  <2> QED  BY <2>3, <2>4 DEF LuInv
<1> QED  BY <1>1, <1>2

\* The join ends: the thread did, or its time has passed.
LEMMA JoinEndsKeeps ==
  ASSUME LuInv, NEW timedOut \in BOOLEAN, LucidEnds(timedOut)
  PROVE  LuInv'
<1>0. /\ ending = "joining" /\ ending' = "done" /\ lucidOverdue' = timedOut
      /\ UNCHANGED <<slot, submit, current, lrun, shown>>
      /\ ownRt' \in {"none", "on", "stopped"}
  BY DEF LucidEnds, LuInv, LuTypeOK
<1>1. Alive' = Alive
  BY <1>0 DEF Alive
<1>2. \A r \in Alive : lrun[r].late \/ timedOut
  <2>1. timedOut = FALSE => RunsJoined
    BY DEF LucidEnds, RunsJoined
  <2>2. ASSUME NEW r \in Alive, ~timedOut
        PROVE  lrun[r].late
    BY <1>0, <2>1, <2>2, AliveIs DEF LuInv, ShutdownSound, RunsJoined
  <2> QED  BY <2>2
<1>3. LuTypeOK' /\ LatestShown' /\ (lrun \in [LRuns -> LucidRec])' /\ (\A r \in LRuns : RunGood(lrun[r]))'
  BY <1>0 DEF LuInv, LuTypeOK, LatestShown, RunGood
<1>4. SlotHeld' /\ ShutdownSound'
  BY <1>0, <1>1, <1>2 DEF LuInv, SlotHeld, ShutdownSound
<1> QED  BY <1>3, <1>4 DEF LuInv

\* Every step keeps the invariant.
LEMMA LuNextKeeps ==
  ASSUME LuInv, [LuNext]_luVars
  PROVE  LuInv'
<1>1. CASE UNCHANGED luVars
  BY <1>1 DEF luVars, LuInv, LuTypeOK, SlotHeld, LatestShown, ShutdownSound, RunGood, Alive
<1>2. ASSUME NEW c \in LSubmits, SubmitRun(c) \/ Reach(c) \/ Reject(c) \/ Start(c)
      PROVE  LuInv'
  BY <1>2, SubmitsKeep, StartRunKeeps
<1>3. ASSUME NEW r \in LRuns, RunThread(r)
      PROVE  LuInv'
  BY <1>3, SessionsKeep, SubmitLucidKeeps, PollsKeep, TransfersKeep, FetchKeeps, ReleaseKeeps
     DEF RunThread
<1>4. ASSUME NEW r \in LRuns, TransferMoves(r) \/ RunTimesOut(r) \/ \E t \in TaskIds : LucidTaskEnds(r, t)
      PROVE  LuInv'
  BY <1>4, ExternKeeps
<1> QED  BY <1>1, <1>2, <1>3, <1>4, ShutdownKeeps, JoinEndsKeeps DEF LuNext

\* The plugin starts with no run.
LEMMA LuStarts ==
  ASSUME LuInit
  PROVE  LuInv
<1>1. PICK y \in LucidRec : y = NotStarted /\ y.pc = "none" /\ RunGood(y)
  BY NotStartedIs
<1>2. lrun \in [LRuns -> LucidRec] /\ \A r \in LRuns : lrun[r] = y
  BY <1>1 DEF LuInit
<1>3. Alive = {}
  BY <1>1, <1>2 DEF Alive
<1>4. 0 \in 0..MaxLucid
  BY LucidConstants
<1>5. shown \in [run : 0..MaxLucid, status : {"idle", "new", "running"} \cup RunEnded]
  BY <1>4 DEF LuInit
<1>6. LuTypeOK
  <2>1. submit \in [LSubmits -> {"idle", "checking", "refused", "rejected", "started"}]
    BY DEF LuInit
  <2>2. \A q \in LRuns : lrun[q] \in LucidRec
    BY <1>2
  <2> QED  BY <1>4, <1>5, <2>1, <2>2, RunTyped DEF LuInit, LuTypeOK
<1>7. \A r \in LRuns : RunGood(lrun[r])
  BY <1>1, <1>2
<1>8. SlotHeld /\ LatestShown /\ ShutdownSound
  BY <1>3 DEF LuInit, SlotHeld, LatestShown, ShutdownSound
<1> QED  BY <1>2, <1>6, <1>7, <1>8 DEF LuInv

\* What the plugin promises of its runs follows.
LEMMA LuImplies ==
  ASSUME LuInv
  PROVE  LuTypeOK /\ OneRun /\ FreeIsReported /\ NothingLeftRemote /\ PackedIsDone /\ RunsBeforeRuntime
<1>0. LuTypeOK /\ OneRun /\ RunsBeforeRuntime
  BY DEF LuInv, OneRun, SlotHeld, RunsBeforeRuntime, ShutdownSound
<1>1. FreeIsReported
  <2>1. ASSUME ~slot, current # 0
        PROVE  shown = [run |-> current, status |-> lrun[current].final]
    <3>1. Alive = {} /\ current \in LRuns
      BY <2>1, AliveIs DEF LuInv, SlotHeld
    <3>2. PICK m \in LucidRec : m = lrun[current]
      BY <3>1 DEF LuInv
    <3>3. m.pc = "none" \/ m.pc = "over"
      BY <3>1, <3>2, AliveIs DEF LucidRec
    <3> QED  BY <2>1, <3>2, <3>3 DEF LuInv, LatestShown
  <2> QED  BY <2>1 DEF FreeIsReported
<1>2. NothingLeftRemote
  BY DEF LuInv, RunGood, NothingLeftRemote
<1>3. PackedIsDone
  <2>1. ASSUME NEW r \in LRuns, NEW w \in lrun[r].packed
        PROVE  lrun[r].tasks[w] = "done"
    <3>1. PICK m \in LucidRec : m = lrun[r] /\ RunGood(m)
      BY DEF LuInv
    <3>2. m.phase \in 1..6 /\ m.packed # {}
      BY <2>1, <3>1 DEF LucidRec
    <3> QED  BY <2>1, <3>1, <3>2 DEF RunGood
  <2> QED  BY <2>1 DEF PackedIsDone
<1> QED  BY <1>0, <1>1, <1>2, <1>3

\* One run at a time, whichever way submits, ends and the shutdown interleave;
\* what a run started remotely is answered for when it reports.
THEOREM LucidRunsAreSound ==
  LuSpec => [](LuTypeOK /\ OneRun /\ FreeIsReported /\ NothingLeftRemote /\ PackedIsDone /\ RunsBeforeRuntime)
  BY LuStarts, LuNextKeeps, LuImplies, PTL DEF LuSpec

-----------------------------------------------------------------------------
(***************************************************************************)
(* Credentials of Globus sessions (Globus).                                *)
(***************************************************************************)

GcRegRec  == [pc: {"idle", "build", "back", "done"}, sid: GSids, rotating: BOOLEAN,
              cancelled: BOOLEAN, blind: BOOLEAN]
GcSessRec == [live: BOOLEAN, due: BOOLEAN, tc: GRegs \cup {NoReg}, retired: SUBSET GRegs,
              revived: BOOLEAN]
UsedRec   == [sid: GSids, on: GRegs \cup {NoReg}, orphan: BOOLEAN]

\* A call that is back holds its clients alone, and knew of its session or not.
RegisterSound(r) ==
  /\ gcReg[r].pc = "back" => client[r] = "open" /\ \A s \in GSids : r \notin ClientsOf(s)
  /\ gcReg[r].pc \in {"build", "back"} => gcReg[r].blind \/ gcReg[r].rotating

\* A session holds the clients of calls for it that are done, all of them open.
CredentialsSound(s) ==
  /\ IF gsess[s].live THEN gsess[s].tc \in GRegs ELSE gsess[s].tc = NoReg /\ gsess[s].retired = {}
  /\ gsess[s].tc \notin gsess[s].retired /\ ~gsess[s].revived
  /\ \A r \in GRegs : r \in ClientsOf(s) => gcReg[r].pc = "done" /\ gcReg[r].sid = s /\ client[r] = "open"

\* A call of the Transfer API runs on clients its session holds.
TransferSound(k) ==
  used[k].on # NoReg /\ ~used[k].orphan => gsess[used[k].sid].live /\ used[k].on \in ClientsOf(used[k].sid)

GcInv ==
  /\ GcTypeOK /\ ClientsAreHeld /\ \A r \in GRegs : RegisterSound(r)
  /\ (\A s \in GSids : CredentialsSound(s)) /\ (\A k \in GCalls : TransferSound(k))

\* The types, with the records named.
LEMMA GcTypes ==
  ASSUME GcInv
  PROVE  /\ gcReg \in [GRegs -> GcRegRec] /\ client \in [GRegs -> {"none", "open", "closed"}]
         /\ gsess \in [GSids -> GcSessRec] /\ gended \subseteq GSids /\ used \in [GCalls -> UsedRec]
  BY DEF GcInv, GcTypeOK, GcRegRec, GcSessRec, UsedRec

\* The invariant from its parts.
LEMMA GcWhole ==
  ASSUME (gcReg \in [GRegs -> GcRegRec])', (client \in [GRegs -> {"none", "open", "closed"}])',
         (gsess \in [GSids -> GcSessRec])', (gended \subseteq GSids)', (used \in [GCalls -> UsedRec])',
         ClientsAreHeld', (\A r \in GRegs : RegisterSound(r))', (\A s \in GSids : CredentialsSound(s))',
         (\A k \in GCalls : TransferSound(k))'
  PROVE  GcInv'
  BY DEF GcInv, GcTypeOK, GcRegRec, GcSessRec, UsedRec

\* Calls of the Transfer API begin and end; the deadline of a session passes.
LEMMA ApiKeeps ==
  ASSUME GcInv, (\E k \in GCalls, s \in GSids : ApiBegins(k, s)) \/ (\E k \in GCalls : ApiEnds(k))
  PROVE  GcInv'
<1>1. UNCHANGED <<gcReg, client, gsess, gended>>
  BY DEF ApiBegins, ApiEnds
<1>2. ASSUME NEW k \in GCalls, NEW s \in GSids, ApiBegins(k, s)
      PROVE  /\ used' \in [GCalls -> UsedRec]
             /\ \A j \in GCalls : TransferSound(j)'
  <2>1. PICK on \in GRegs : on = gsess[s].tc /\ gsess[s].live
    BY <1>2 DEF ApiBegins, GcInv, CredentialsSound
  <2>0. PICK w \in BOOLEAN : w = FALSE
    OBVIOUS
  <2>9. PICK y : y = [sid |-> s, on |-> on, orphan |-> w]
    OBVIOUS
  <2>2. y \in UsedRec /\ y.sid = s /\ y.on = on
    BY <2>9 DEF UsedRec
  <2>3. used' = [used EXCEPT ![k] = y]
    BY <1>2, <2>0, <2>1, <2>9 DEF ApiBegins
  <2>4. used' \in [GCalls -> UsedRec] /\ used'[k] = y /\ \A j \in GCalls : j # k => used'[j] = used[j]
    BY <2>2, <2>3, GcTypes
  <2>5. TransferSound(k)'
    BY <1>1, <2>1, <2>2, <2>4 DEF TransferSound, ClientsOf
  <2>6. ASSUME NEW j \in GCalls, j # k PROVE TransferSound(j)'
    BY <1>1, <2>4, <2>6 DEF GcInv, TransferSound, ClientsOf
  <2> QED  BY <2>4, <2>5, <2>6
<1>3. ASSUME NEW k \in GCalls, ApiEnds(k)
      PROVE  /\ used' \in [GCalls -> UsedRec]
             /\ \A j \in GCalls : TransferSound(j)'
  <2>1. PICK m \in UsedRec : m = used[k]
    BY GcTypes
  <2>2. PICK y : y = [m EXCEPT !.on = NoReg]
    OBVIOUS
  <2>3. y \in UsedRec /\ y.on = NoReg
    BY <2>2 DEF UsedRec
  <2>4. used' = [used EXCEPT ![k] = y]
    BY <1>3, <2>1, <2>2, GcTypes DEF ApiEnds
  <2>5. used' \in [GCalls -> UsedRec] /\ used'[k] = y /\ \A j \in GCalls : j # k => used'[j] = used[j]
    BY <2>3, <2>4, GcTypes
  <2>6. ASSUME NEW j \in GCalls PROVE TransferSound(j)'
    BY <1>1, <2>3, <2>5 DEF GcInv, TransferSound, ClientsOf
  <2> QED  BY <2>5, <2>6
<1>4. /\ ClientsAreHeld' /\ (\A r \in GRegs : RegisterSound(r))' /\ (\A s \in GSids : CredentialsSound(s))'
      /\ (gcReg \in [GRegs -> GcRegRec])' /\ (client \in [GRegs -> {"none", "open", "closed"}])'
      /\ (gsess \in [GSids -> GcSessRec])' /\ (gended \subseteq GSids)'
  BY <1>1, GcTypes DEF GcInv, ClientsAreHeld, RegisterSound, CredentialsSound, ClientsOf
<1> QED  BY <1>2, <1>3, <1>4, GcWhole

\* A session falls due; nothing it holds changes.
LEMMA FallsDueKeeps ==
  ASSUME GcInv, NEW s \in GSids, FallsDue(s)
  PROVE  GcInv'
<1>1. PICK m \in GcSessRec : m = gsess[s]
  BY GcTypes
<1>2. PICK y : y = [m EXCEPT !.due = TRUE]
  OBVIOUS
<1>3. /\ y \in GcSessRec /\ y.live = m.live /\ y.tc = m.tc /\ y.retired = m.retired /\ y.revived = m.revived
  BY <1>2 DEF GcSessRec
<1>4. gsess' = [gsess EXCEPT ![s] = y] /\ UNCHANGED <<gcReg, client, gended, used>>
  BY <1>1, <1>2, GcTypes DEF FallsDue
<1>5. /\ gsess' \in [GSids -> GcSessRec]
      /\ \A t \in GSids : /\ gsess'[t].live = gsess[t].live /\ gsess'[t].tc = gsess[t].tc
                          /\ gsess'[t].retired = gsess[t].retired /\ gsess'[t].revived = gsess[t].revived
  BY <1>1, <1>3, <1>4, GcTypes
<1>6. \A t \in GSids : ClientsOf(t)' = ClientsOf(t)
  BY <1>5 DEF ClientsOf
<1>7. ClientsAreHeld'
  BY <1>4, <1>5 DEF GcInv, ClientsAreHeld
<1>8. (\A r \in GRegs : RegisterSound(r))'
  BY <1>4, <1>6 DEF GcInv, RegisterSound
<1>9. (\A t \in GSids : CredentialsSound(t))'
  BY <1>4, <1>5, <1>6 DEF GcInv, CredentialsSound
<1>10. (\A k \in GCalls : TransferSound(k))'
  BY <1>4, <1>5, <1>6, GcTypes DEF GcInv, TransferSound, UsedRec
<1> QED  BY <1>4, <1>5, <1>7, <1>8, <1>9, <1>10, GcTypes, GcWhole

\* A registration that holds no clients moves: it is refused, builds, or gives up.
LEMMA RegistersKeep ==
  ASSUME GcInv, NEW r \in GRegs, NEW s \in GSids, NEW ok \in BOOLEAN,
         RegisterCall(r, s) \/ CancelBuild(r) \/ Built(r, ok)
  PROVE  GcInv'
<1>1. UNCHANGED <<gsess, gended, used>> /\ gcReg[r].pc \in {"idle", "build"}
  BY DEF RegisterCall, CancelBuild, Built
<1>2. PICK m \in GcRegRec : m = gcReg[r]
  BY GcTypes
<1>3. \E y \in GcRegRec, c \in {"none", "open", "closed"} :
        /\ gcReg' = [gcReg EXCEPT ![r] = y] /\ client' = [client EXCEPT ![r] = c]
        /\ y.pc = "back" => c = "open"
        /\ c = "open" => y.pc = "back"
        /\ y.pc \in {"build", "back"} => y.blind \/ y.rotating
  <2>1. client[r] # "open"
    BY <1>1 DEF GcInv, ClientsAreHeld, CredentialsSound, ClientsOf
  <2>2. client = [client EXCEPT ![r] = client[r]] /\ client[r] \in {"none", "open", "closed"}
    BY GcTypes
  <2>3. CASE RegisterCall(r, s)
    <3>1. CASE gcReg' = [gcReg EXCEPT ![r].pc = "done"] /\ UNCHANGED client
      <4>1. PICK y : y = [m EXCEPT !.pc = "done"]
        OBVIOUS
      <4>2. y \in GcRegRec /\ y.pc = "done"
        BY <4>1 DEF GcRegRec
      <4>3. gcReg' = [gcReg EXCEPT ![r] = y] /\ client' = [client EXCEPT ![r] = client[r]]
        BY <1>2, <2>2, <3>1, <4>1, GcTypes
      <4> QED  BY <2>1, <2>2, <4>2, <4>3
    <3>2. ASSUME NEW pc \in {"build", "back"},
                 gcReg' = [gcReg EXCEPT ![r] = [pc |-> pc, sid |-> s, rotating |-> Rotating(s),
                                      cancelled |-> FALSE, blind |-> ~gsess[s].live]],
                 IF pc = "back" THEN client' = [client EXCEPT ![r] = "open"] ELSE UNCHANGED client
          PROVE  \E y \in GcRegRec, c \in {"none", "open", "closed"} :
                    /\ gcReg' = [gcReg EXCEPT ![r] = y] /\ client' = [client EXCEPT ![r] = c]
                    /\ y.pc = "back" => c = "open"
                    /\ c = "open" => y.pc = "back"
                    /\ y.pc \in {"build", "back"} => y.blind \/ y.rotating
      <4>0. gsess[s].live \in BOOLEAN
        BY GcTypes DEF GcSessRec
      <4>1. PICK live \in BOOLEAN : live = gsess[s].live
        BY <4>0
      <4>2. PICK blind \in BOOLEAN : blind = ~live
        OBVIOUS
      <4>3. PICK y : y = [pc |-> pc, sid |-> s, rotating |-> live, cancelled |-> FALSE, blind |-> blind]
        OBVIOUS
      <4>4. y \in GcRegRec /\ y.pc = pc /\ (y.blind \/ y.rotating)
        BY <4>2, <4>3 DEF GcRegRec
      <4>5. gcReg' = [gcReg EXCEPT ![r] = y]
        BY <3>2, <4>1, <4>2, <4>3 DEF Rotating
      <4>6. CASE pc = "back"
        BY <3>2, <4>4, <4>5, <4>6
      <4>7. CASE pc = "build"
        <5>1. client' = [client EXCEPT ![r] = client[r]]
          BY <2>2, <3>2, <4>7
        <5> QED  BY <2>1, <2>2, <4>4, <4>5, <4>7, <5>1
      <4> QED  BY <4>6, <4>7
    <3> QED  BY <2>3, <3>1, <3>2 DEF RegisterCall
  <2>4. CASE CancelBuild(r)
    <3>1. PICK y : y = [m EXCEPT !.cancelled = TRUE]
      OBVIOUS
    <3>2. y \in GcRegRec /\ y.pc = "build" /\ y.blind = m.blind /\ y.rotating = m.rotating
      BY <1>2, <2>4, <3>1 DEF GcRegRec, CancelBuild
    <3>3. y.blind \/ y.rotating
      BY <1>2, <2>4, <3>2 DEF GcInv, RegisterSound, CancelBuild
    <3>4. gcReg' = [gcReg EXCEPT ![r] = y] /\ client' = [client EXCEPT ![r] = client[r]]
      BY <1>2, <2>2, <2>4, <3>1, GcTypes DEF CancelBuild
    <3> QED  BY <2>1, <2>2, <3>2, <3>3, <3>4
  <2>5. CASE Built(r, ok)
    <3>1. PICK pc \in {"back", "done"} : pc = IF ok /\ ~m.cancelled THEN "back" ELSE "done"
      OBVIOUS
    <3>2. PICK c \in {"open", "closed"} : c = IF ok THEN CloseBuilt(r) ELSE "closed"
      BY DEF CloseBuilt
    <3>3. (pc = "back" => c = "open") /\ (c = "open" => pc = "back")
      BY <1>2, <3>1, <3>2 DEF CloseBuilt
    <3>4. PICK y : y = [m EXCEPT !.pc = pc]
      OBVIOUS
    <3>5. y \in GcRegRec /\ y.pc = pc /\ y.blind = m.blind /\ y.rotating = m.rotating
      BY <3>4 DEF GcRegRec
    <3>6. y.blind \/ y.rotating
      BY <1>2, <2>5, <3>5 DEF GcInv, RegisterSound, Built
    <3>7. gcReg' = [gcReg EXCEPT ![r] = y] /\ client' = [client EXCEPT ![r] = c]
      BY <1>2, <2>5, <3>1, <3>2, <3>4, GcTypes DEF Built
    <3> QED  BY <3>3, <3>5, <3>6, <3>7
  <2> QED  BY <2>3, <2>4, <2>5
<1>4. PICK y \in GcRegRec, c \in {"none", "open", "closed"} :
        /\ gcReg' = [gcReg EXCEPT ![r] = y] /\ client' = [client EXCEPT ![r] = c]
        /\ y.pc = "back" => c = "open"
        /\ c = "open" => y.pc = "back"
        /\ y.pc \in {"build", "back"} => y.blind \/ y.rotating
  BY <1>3
<1>5. /\ gcReg' \in [GRegs -> GcRegRec] /\ client' \in [GRegs -> {"none", "open", "closed"}]
      /\ gcReg'[r] = y /\ client'[r] = c
      /\ \A q \in GRegs : q # r => gcReg'[q] = gcReg[q] /\ client'[q] = client[q]
  BY <1>4, GcTypes
<1>6. \A t \in GSids : ClientsOf(t)' = ClientsOf(t) /\ r \notin ClientsOf(t)
  <2>1. \A t \in GSids : r \notin ClientsOf(t)
    BY <1>1 DEF GcInv, CredentialsSound
  <2> QED  BY <1>1, <2>1 DEF ClientsOf
<1>7. ClientsAreHeld'
  BY <1>1, <1>4, <1>5 DEF GcInv, ClientsAreHeld
<1>8. (\A q \in GRegs : RegisterSound(q))'
  BY <1>4, <1>5, <1>6 DEF GcInv, RegisterSound
<1>9. (\A t \in GSids : CredentialsSound(t))'
  BY <1>1, <1>5, <1>6 DEF GcInv, CredentialsSound
<1>10. (\A k \in GCalls : TransferSound(k))'
  BY <1>1, <1>6, GcTypes DEF GcInv, TransferSound, UsedRec
<1> QED  BY <1>1, <1>5, <1>7, <1>8, <1>9, <1>10, GcTypes, GcWhole

\* The calls of a session that ends are on their own.
LEMMA OrphansAre ==
  ASSUME GcInv, NEW s \in GSids
  PROVE  /\ Orphans(s) \in [GCalls -> UsedRec]
         /\ \A k \in GCalls : /\ Orphans(s)[k].sid = used[k].sid /\ Orphans(s)[k].on = used[k].on
                              /\ ~Orphans(s)[k].orphan => ~used[k].orphan /\ used[k].sid # s
<1>1. ASSUME NEW k \in GCalls
      PROVE  /\ Orphans(s)[k] \in UsedRec /\ Orphans(s)[k].sid = used[k].sid /\ Orphans(s)[k].on = used[k].on
             /\ ~Orphans(s)[k].orphan => ~used[k].orphan /\ used[k].sid # s
  <2>1. PICK m \in UsedRec : m = used[k]
    BY GcTypes
  <2>2. PICK w \in BOOLEAN : w = (m.orphan \/ m.sid = s)
    OBVIOUS
  <2>3. PICK y : y = [m EXCEPT !.orphan = w]
    OBVIOUS
  <2>4. y \in UsedRec /\ y.sid = m.sid /\ y.on = m.on /\ y.orphan = w
    BY <2>3 DEF UsedRec
  <2>5. Orphans(s)[k] = y
    BY <2>1, <2>2, <2>3 DEF Orphans
  <2> QED  BY <2>1, <2>2, <2>4, <2>5
<1>2. Orphans(s) = [k \in GCalls |-> Orphans(s)[k]]
  BY DEF Orphans
<1> QED  BY <1>1, <1>2

\* What closing a set of clients leaves.
LEMMA ClosesIs ==
  ASSUME GcInv, NEW cs
  PROVE  /\ Closes(cs) \in [GRegs -> {"none", "open", "closed"}]
         /\ \A r \in GRegs : Closes(cs)[r] = IF r \in cs THEN "closed" ELSE client[r]
  BY GcTypes DEF Closes

\* A session ends, and with it its clients.
LEMMA EndSessionKeeps ==
  ASSUME GcInv, NEW s \in GSids, EndSession(s)
  PROVE  GcInv'
<1>0. PICK y \in GcSessRec : y = NoSession /\ y.tc = NoReg /\ y.retired = {} /\ y.live = FALSE /\ y.revived = FALSE
  <2>1. NoSession \in GcSessRec
    BY DEF NoSession, GcSessRec
  <2> QED  BY <2>1 DEF NoSession
<1>1. /\ gsess' = [gsess EXCEPT ![s] = y] /\ gended' = gended \cup {s} /\ client' = Closes(ClientsOf(s))
      /\ used' = Orphans(s) /\ gcReg' = gcReg
  BY <1>0 DEF EndSession
<1>2. /\ gsess' \in [GSids -> GcSessRec] /\ gsess'[s] = y /\ \A t \in GSids : t # s => gsess'[t] = gsess[t]
  BY <1>1, GcTypes
<1>3. ClientsOf(s)' = {NoReg} /\ \A t \in GSids : t # s => ClientsOf(t)' = ClientsOf(t)
  BY <1>0, <1>2 DEF ClientsOf
<1>4. /\ client' \in [GRegs -> {"none", "open", "closed"}]
      /\ \A r \in GRegs : client'[r] = IF r \in ClientsOf(s) THEN "closed" ELSE client[r]
  BY <1>1, ClosesIs
<1>5. \A r \in GRegs : r \in ClientsOf(s) => gcReg[r].pc = "done" /\ gcReg[r].sid = s
  BY DEF GcInv, CredentialsSound
<1>6. ClientsAreHeld'
  <2>1. ASSUME NEW r \in GRegs, client'[r] = "open"
        PROVE  gcReg'[r].pc = "back" \/ \E t \in GSids : gsess'[t].live /\ r \in {gsess'[t].tc} \cup gsess'[t].retired
    <3>1. client[r] = "open" /\ r \notin ClientsOf(s)
      BY <1>4, <2>1
    <3>2. CASE gcReg[r].pc = "back"
      BY <1>1, <3>2
    <3>3. ASSUME NEW t \in GSids, gsess[t].live, r \in {gsess[t].tc} \cup gsess[t].retired
          PROVE  t # s
      BY <3>1, <3>3 DEF ClientsOf
    <3> QED  BY <1>2, <3>1, <3>2, <3>3 DEF GcInv, ClientsAreHeld
  <2> QED  BY <2>1 DEF ClientsAreHeld
<1>7. (\A r \in GRegs : RegisterSound(r))'
  <2>1. ASSUME NEW r \in GRegs, gcReg[r].pc = "back"
        PROVE  client'[r] = "open" /\ \A t \in GSids : r \notin ClientsOf(t)'
    <3>1. r \notin ClientsOf(s) /\ client[r] = "open" /\ \A t \in GSids : r \notin ClientsOf(t)
      BY <2>1 DEF GcInv, RegisterSound
    <3> QED  BY <1>3, <1>4, <3>1, NoRegIsNone
  <2> QED  BY <1>1, <2>1 DEF GcInv, RegisterSound
<1>8. (\A t \in GSids : CredentialsSound(t))'
  <2>1. CredentialsSound(s)'
    BY <1>0, <1>2, <1>3, NoRegIsNone DEF CredentialsSound
  <2>2. ASSUME NEW t \in GSids, t # s PROVE CredentialsSound(t)'
    <3>1. CredentialsSound(t)
      BY DEF GcInv
    <3>2. \A r \in GRegs : r \in ClientsOf(t) => r \notin ClientsOf(s)
      BY <1>5, <2>2, <3>1 DEF CredentialsSound
    <3> QED  BY <1>1, <1>2, <1>3, <1>4, <2>2, <3>1, <3>2 DEF CredentialsSound
  <2> QED  BY <2>1, <2>2
<1>9. (\A k \in GCalls : TransferSound(k))'
  <2>1. \A k \in GCalls : /\ used'[k].sid = used[k].sid /\ used'[k].on = used[k].on /\ used[k].sid \in GSids
                          /\ ~used'[k].orphan => ~used[k].orphan /\ used[k].sid # s
    BY <1>1, OrphansAre, GcTypes DEF UsedRec
  <2> QED  BY <1>2, <1>3, <2>1 DEF GcInv, TransferSound
<1>10. (used \in [GCalls -> UsedRec])' /\ (gended \subseteq GSids)' /\ (gcReg \in [GRegs -> GcRegRec])'
  BY <1>1, OrphansAre, GcTypes
<1> QED  BY <1>2, <1>4, <1>6, <1>7, <1>8, <1>9, <1>10, GcWhole

\* A retired pair is closed: no call runs on it, and no session uses it now.
LEMMA ReleaseRetiredKeeps ==
  ASSUME GcInv, NEW s \in GSids, NEW r \in GRegs, ReleaseRetired(s, r)
  PROVE  GcInv'
<1>0. PICK m \in GcSessRec : m = gsess[s]
  BY GcTypes
<1>1. PICK y : y = [m EXCEPT !.retired = m.retired \ {r}]
  OBVIOUS
<1>2. y \in GcSessRec /\ y.live = m.live /\ y.tc = m.tc /\ y.retired = m.retired \ {r} /\ y.revived = m.revived
  BY <1>1 DEF GcSessRec
<1>3. /\ gsess' = [gsess EXCEPT ![s] = y] /\ client' = Closes({r}) /\ UNCHANGED <<gcReg, gended, used>>
      /\ r \in m.retired /\ \A k \in GCalls : used[k].on # r
  BY <1>0, <1>1, GcTypes DEF ReleaseRetired
<1>4. /\ gsess' \in [GSids -> GcSessRec] /\ gsess'[s] = y /\ \A t \in GSids : t # s => gsess'[t] = gsess[t]
  BY <1>2, <1>3, GcTypes
<1>5. /\ ClientsOf(s) = {m.tc} \cup m.retired /\ ClientsOf(s)' = ClientsOf(s) \ {r}
      /\ \A t \in GSids : t # s => ClientsOf(t)' = ClientsOf(t)
  <2>1. m.tc # r /\ ClientsOf(s) = {m.tc} \cup m.retired
    BY <1>0, <1>3 DEF GcInv, CredentialsSound, ClientsOf
  <2>2. ClientsOf(s)' = {m.tc} \cup (m.retired \ {r})
    BY <1>2, <1>4 DEF ClientsOf
  <2> QED  BY <1>4, <2>1, <2>2 DEF ClientsOf
<1>6. /\ client' \in [GRegs -> {"none", "open", "closed"}]
      /\ \A q \in GRegs : client'[q] = IF q = r THEN "closed" ELSE client[q]
  BY <1>3, ClosesIs
<1>7. gcReg[r].pc = "done" /\ gcReg[r].sid = s
  BY <1>3, <1>5 DEF GcInv, CredentialsSound
<1>8. ClientsAreHeld'
  <2>1. ASSUME NEW q \in GRegs, client'[q] = "open"
        PROVE  gcReg'[q].pc = "back" \/ \E t \in GSids : gsess'[t].live /\ q \in {gsess'[t].tc} \cup gsess'[t].retired
    <3>1. q # r /\ client[q] = "open"
      BY <1>6, <2>1
    <3>2. CASE gcReg[q].pc = "back"
      BY <1>3, <3>2
    <3>3. ASSUME NEW t \in GSids, gsess[t].live, q \in {gsess[t].tc} \cup gsess[t].retired
          PROVE  gsess'[t].live /\ q \in {gsess'[t].tc} \cup gsess'[t].retired
      BY <1>0, <1>2, <1>4, <3>1, <3>3
    <3> QED  BY <3>1, <3>2, <3>3 DEF GcInv, ClientsAreHeld
  <2> QED  BY <2>1 DEF ClientsAreHeld
<1>9. (\A q \in GRegs : RegisterSound(q))'
  <2>1. ASSUME NEW q \in GRegs, gcReg[q].pc = "back"
        PROVE  client'[q] = "open" /\ \A t \in GSids : q \notin ClientsOf(t)'
    <3>1. q # r /\ client[q] = "open" /\ \A t \in GSids : q \notin ClientsOf(t)
      BY <1>7, <2>1 DEF GcInv, RegisterSound
    <3> QED  BY <1>5, <1>6, <3>1
  <2> QED  BY <1>3, <2>1 DEF GcInv, RegisterSound
<1>10. (\A t \in GSids : CredentialsSound(t))'
  <2>1. CredentialsSound(s)'
    <3>1. CredentialsSound(s)
      BY DEF GcInv
    <3>2. \A q \in GRegs : q \in ClientsOf(s)' => gcReg'[q].pc = "done" /\ gcReg'[q].sid = s /\ client'[q] = "open"
      BY <1>3, <1>5, <1>6, <3>1 DEF CredentialsSound
    <3>3. /\ IF y.live THEN y.tc \in GRegs ELSE y.tc = NoReg /\ y.retired = {}
          /\ y.tc \notin y.retired /\ ~y.revived
      BY <1>0, <1>2, <3>1 DEF CredentialsSound
    <3> QED  BY <1>4, <3>2, <3>3 DEF CredentialsSound
  <2>2. ASSUME NEW t \in GSids, t # s PROVE CredentialsSound(t)'
    <3>1. CredentialsSound(t)
      BY DEF GcInv
    <3>2. r \notin ClientsOf(t)
      BY <1>7, <2>2, <3>1 DEF CredentialsSound
    <3>3. /\ gsess'[t] = gsess[t] /\ ClientsOf(t)' = ClientsOf(t) /\ gcReg' = gcReg
          /\ \A q \in GRegs : q \in ClientsOf(t) => client'[q] = client[q]
      BY <1>3, <1>4, <1>5, <1>6, <2>2, <3>2
    <3> QED  BY <3>1, <3>3 DEF CredentialsSound
  <2> QED  BY <2>1, <2>2
<1>11. (\A k \in GCalls : TransferSound(k))'
  <2>1. ASSUME NEW k \in GCalls PROVE TransferSound(k)'
    <3>1. used[k].sid \in GSids /\ TransferSound(k) /\ used[k].on # r
      BY <1>3, GcTypes DEF UsedRec, GcInv
    <3> QED  BY <1>0, <1>2, <1>3, <1>4, <1>5, <3>1 DEF TransferSound
  <2> QED  BY <2>1
<1>12. (used \in [GCalls -> UsedRec])' /\ (gended \subseteq GSids)' /\ (gcReg \in [GRegs -> GcRegRec])'
  BY <1>3, GcTypes
<1> QED  BY <1>4, <1>6, <1>8, <1>9, <1>10, <1>11, <1>12, GcWhole

\* A registration is done: its clients replace those of the live session.
LEMMA AdoptsKeep ==
  ASSUME GcInv, NEW r \in GRegs, Finish(r), gsess[gcReg[r].sid].live, ~gsess[gcReg[r].sid].due
  PROVE  GcInv'
<1>0. PICK g \in GcRegRec : g = gcReg[r]
  BY GcTypes
<1>1. PICK s \in GSids : s = g.sid
  BY DEF GcRegRec
<1>2. PICK m \in GcSessRec : m = gsess[s]
  BY GcTypes
<1>3. PICK h : h = [g EXCEPT !.pc = "done"]
  OBVIOUS
<1>4. h \in GcRegRec /\ h.pc = "done" /\ h.sid = s
  BY <1>1, <1>3 DEF GcRegRec
<1>5. /\ g.pc = "back" /\ client[r] = "open" /\ m.live /\ m.tc \in GRegs /\ ~m.revived
      /\ ClientsOf(s) = {m.tc} \cup m.retired /\ \A t \in GSids : r \notin ClientsOf(t)
  BY <1>0, <1>1, <1>2 DEF GcInv, RegisterSound, CredentialsSound, Finish, ClientsOf
<1>6. PICK y : y = [m EXCEPT !.tc = r, !.retired = m.retired \cup {m.tc}]
  OBVIOUS
<1>7. y \in GcSessRec /\ y.live = m.live /\ y.tc = r /\ y.retired = m.retired \cup {m.tc} /\ y.revived = m.revived
  BY <1>5, <1>6 DEF GcSessRec
<1>8. /\ gsess' = [gsess EXCEPT ![s] = y] /\ UNCHANGED <<client, gended, used>>
      /\ gcReg' = [gcReg EXCEPT ![r] = h]
  BY <1>0, <1>1, <1>2, <1>3, <1>6, GcTypes DEF Finish, Adopt
<1>9. /\ gsess' \in [GSids -> GcSessRec] /\ gsess'[s] = y /\ \A t \in GSids : t # s => gsess'[t] = gsess[t]
      /\ gcReg' \in [GRegs -> GcRegRec] /\ gcReg'[r] = h /\ \A q \in GRegs : q # r => gcReg'[q] = gcReg[q]
  BY <1>4, <1>7, <1>8, GcTypes
<1>10. ClientsOf(s)' = ClientsOf(s) \cup {r} /\ \A t \in GSids : t # s => ClientsOf(t)' = ClientsOf(t)
  BY <1>5, <1>7, <1>9 DEF ClientsOf
<1>11. ClientsAreHeld'
  <2>1. ASSUME NEW q \in GRegs, client'[q] = "open"
        PROVE  gcReg'[q].pc = "back" \/ \E t \in GSids : gsess'[t].live /\ q \in {gsess'[t].tc} \cup gsess'[t].retired
    <3>1. CASE q = r
      BY <1>5, <1>7, <1>9, <3>1
    <3>2. CASE q # r /\ gcReg[q].pc = "back"
      BY <1>9, <3>2
    <3>3. ASSUME NEW t \in GSids, gsess[t].live, q \in {gsess[t].tc} \cup gsess[t].retired
          PROVE  gsess'[t].live /\ q \in {gsess'[t].tc} \cup gsess'[t].retired
      BY <1>2, <1>7, <1>9, <3>3
    <3> QED  BY <1>8, <2>1, <3>1, <3>2, <3>3 DEF GcInv, ClientsAreHeld
  <2> QED  BY <2>1 DEF ClientsAreHeld
<1>12. (\A q \in GRegs : RegisterSound(q))'
  <2>1. ASSUME NEW q \in GRegs PROVE RegisterSound(q)'
    <3>1. CASE q = r
      BY <1>4, <1>9, <3>1 DEF RegisterSound
    <3>2. CASE q # r
      <4>1. RegisterSound(q) /\ gcReg'[q] = gcReg[q]
        BY <1>9, <3>2 DEF GcInv
      <4> QED  BY <1>8, <1>10, <3>2, <4>1 DEF RegisterSound
    <3> QED  BY <3>1, <3>2
  <2> QED  BY <2>1
<1>13. (\A t \in GSids : CredentialsSound(t))'
  <2>1. CredentialsSound(s)'
    <3>1. CredentialsSound(s)
      BY DEF GcInv
    <3>2. \A q \in GRegs : q \in ClientsOf(s)' => gcReg'[q].pc = "done" /\ gcReg'[q].sid = s /\ client'[q] = "open"
      BY <1>4, <1>5, <1>8, <1>9, <1>10, <3>1 DEF CredentialsSound
    <3>3. y.live /\ y.tc \in GRegs /\ y.tc \notin y.retired /\ ~y.revived
      BY <1>5, <1>7
    <3> QED  BY <1>9, <3>2, <3>3 DEF CredentialsSound
  <2>2. ASSUME NEW t \in GSids, t # s PROVE CredentialsSound(t)'
    <3>1. CredentialsSound(t) /\ r \notin ClientsOf(t)
      BY <1>5 DEF GcInv
    <3> QED  BY <1>8, <1>9, <1>10, <2>2, <3>1 DEF CredentialsSound
  <2> QED  BY <2>1, <2>2
<1>14. (\A k \in GCalls : TransferSound(k))'
  <2>1. ASSUME NEW k \in GCalls PROVE TransferSound(k)'
    <3>1. used[k].sid \in GSids /\ TransferSound(k)
      BY GcTypes DEF UsedRec, GcInv
    <3> QED  BY <1>2, <1>7, <1>8, <1>9, <1>10, <3>1 DEF TransferSound
  <2> QED  BY <2>1
<1>15. (used \in [GCalls -> UsedRec])' /\ (gended \subseteq GSids)' /\ (client \in [GRegs -> {"none", "open", "closed"}])'
  BY <1>8, GcTypes
<1> QED  BY <1>9, <1>11, <1>12, <1>13, <1>14, <1>15, GcWhole

\* A registration is done and its session is not there: a rotation refuses,
\* anyone else creates it, and whatever was left of it goes.
LEMMA CreatesKeep ==
  ASSUME GcInv, NEW r \in GRegs, Finish(r), ~(gsess[gcReg[r].sid].live /\ ~gsess[gcReg[r].sid].due)
  PROVE  GcInv'
<1>0. PICK g \in GcRegRec : g = gcReg[r]
  BY GcTypes
<1>1. PICK s \in GSids : s = g.sid
  BY DEF GcRegRec
<1>2. PICK m \in GcSessRec : m = gsess[s]
  BY GcTypes
<1>3. PICK h : h = [g EXCEPT !.pc = "done"]
  OBVIOUS
<1>4. h \in GcRegRec /\ h.pc = "done" /\ h.sid = s
  BY <1>1, <1>3 DEF GcRegRec
<1>5. /\ g.pc = "back" /\ client[r] = "open" /\ (g.blind \/ g.rotating)
      /\ ClientsOf(s) = {m.tc} \cup m.retired /\ \A t \in GSids : r \notin ClientsOf(t)
      /\ ~m.live => ClientsOf(s) = {NoReg}
  BY <1>0, <1>1, <1>2 DEF GcInv, RegisterSound, CredentialsSound, Finish, ClientsOf
<1>6. PICK cs : cs = IF m.live THEN ClientsOf(s) ELSE {}
  OBVIOUS
<1>7. /\ client' = [Closes(cs) EXCEPT ![r] = IF g.rotating THEN "closed" ELSE @]
      /\ gended' = gended \cup (IF m.live THEN {s} ELSE {})
      /\ gcReg' = [gcReg EXCEPT ![r] = h]
      /\ used' = IF m.live THEN Orphans(s) ELSE used
      /\ gsess' = [gsess EXCEPT ![s] = IF g.rotating THEN NoSession
                       ELSE [NoSession EXCEPT !.live = TRUE, !.tc = r, !.revived = s \in gended' /\ ~g.blind]]
  BY <1>0, <1>1, <1>2, <1>3, <1>6, GcTypes DEF Finish, Refuses
<1>8. PICK z \in GcSessRec : z = NoSession /\ z.tc = NoReg /\ z.retired = {} /\ z.live = FALSE /\ z.revived = FALSE
  <2>1. NoSession \in GcSessRec
    BY DEF NoSession, GcSessRec
  <2> QED  BY <2>1 DEF NoSession
<1>9. PICK w \in BOOLEAN : w = (s \in gended' /\ ~g.blind)
  OBVIOUS
<1>10. \E y \in GcSessRec : /\ gsess' = [gsess EXCEPT ![s] = y] /\ y.retired = {} /\ ~y.revived
                            /\ IF g.rotating THEN ~y.live /\ y.tc = NoReg ELSE y.live /\ y.tc = r
  <2>1. CASE g.rotating
    BY <1>7, <1>8, <2>1
  <2>2. CASE ~g.rotating
    <3>1. w = FALSE
      BY <1>5, <1>9, <2>2
    <3>2. PICK y : y = [z EXCEPT !.live = TRUE, !.tc = r, !.revived = w]
      OBVIOUS
    <3>3. y \in GcSessRec /\ y.retired = {} /\ y.revived = w /\ y.live /\ y.tc = r
      BY <1>8, <3>2 DEF GcSessRec
    <3>4. gsess' = [gsess EXCEPT ![s] = y]
      BY <1>7, <1>8, <1>9, <2>2, <3>2
    <3> QED  BY <2>2, <3>1, <3>3, <3>4
  <2> QED  BY <2>1, <2>2
<1>11. PICK y \in GcSessRec : /\ gsess' = [gsess EXCEPT ![s] = y] /\ y.retired = {} /\ ~y.revived
                              /\ IF g.rotating THEN ~y.live /\ y.tc = NoReg ELSE y.live /\ y.tc = r
  BY <1>10
<1>12. /\ gsess' \in [GSids -> GcSessRec] /\ gsess'[s] = y /\ \A t \in GSids : t # s => gsess'[t] = gsess[t]
       /\ gcReg' \in [GRegs -> GcRegRec] /\ gcReg'[r] = h /\ \A q \in GRegs : q # r => gcReg'[q] = gcReg[q]
  BY <1>4, <1>7, <1>11, GcTypes
<1>13. ClientsOf(s)' = {y.tc} /\ \A t \in GSids : t # s => ClientsOf(t)' = ClientsOf(t)
  BY <1>11, <1>12 DEF ClientsOf
<1>14. /\ client' \in [GRegs -> {"none", "open", "closed"}]
       /\ client'[r] = IF g.rotating THEN "closed" ELSE "open"
       /\ \A q \in GRegs : q # r => client'[q] = IF q \in ClientsOf(s) THEN "closed" ELSE client[q]
  <2>1. /\ Closes(cs) \in [GRegs -> {"none", "open", "closed"}]
        /\ \A q \in GRegs : Closes(cs)[q] = IF q \in cs THEN "closed" ELSE client[q]
    BY ClosesIs
  <2>2. \A q \in GRegs : q \in cs <=> q \in ClientsOf(s)
    BY <1>5, <1>6, NoRegIsNone
  <2>3. Closes(cs)[r] = "open"
    BY <1>5, <2>1, <2>2
  <2>4. client' \in [GRegs -> {"none", "open", "closed"}]
    BY <1>7, <2>1
  <2>5. client'[r] = IF g.rotating THEN "closed" ELSE "open"
    BY <1>7, <2>1, <2>3
  <2>6. \A q \in GRegs : q # r => client'[q] = Closes(cs)[q]
    BY <1>7, <2>1
  <2> QED  BY <2>1, <2>2, <2>4, <2>5, <2>6
<1>15. \A q \in GRegs : q \in ClientsOf(s) => gcReg[q].pc = "done" /\ gcReg[q].sid = s
  BY DEF GcInv, CredentialsSound
<1>16. ClientsAreHeld'
  <2>1. ASSUME NEW q \in GRegs, client'[q] = "open"
        PROVE  gcReg'[q].pc = "back" \/ \E t \in GSids : gsess'[t].live /\ q \in {gsess'[t].tc} \cup gsess'[t].retired
    <3>1. CASE q = r
      BY <1>11, <1>12, <1>14, <2>1, <3>1
    <3>2. CASE q # r
      <4>1. client[q] = "open" /\ q \notin ClientsOf(s)
        BY <1>14, <2>1, <3>2
      <4>2. ASSUME NEW t \in GSids, gsess[t].live, q \in {gsess[t].tc} \cup gsess[t].retired
            PROVE  gsess'[t].live /\ q \in {gsess'[t].tc} \cup gsess'[t].retired
        <5>1. t # s
          BY <4>1, <4>2 DEF ClientsOf
        <5> QED  BY <1>12, <4>2, <5>1
      <4> QED  BY <1>12, <3>2, <4>1, <4>2 DEF GcInv, ClientsAreHeld
    <3> QED  BY <3>1, <3>2
  <2> QED  BY <2>1 DEF ClientsAreHeld
<1>17. (\A q \in GRegs : RegisterSound(q))'
  <2>1. ASSUME NEW q \in GRegs PROVE RegisterSound(q)'
    <3>1. CASE q = r
      BY <1>4, <1>12, <3>1 DEF RegisterSound
    <3>2. CASE q # r
      <4>1. RegisterSound(q) /\ gcReg'[q] = gcReg[q]
        BY <1>12, <3>2 DEF GcInv
      <4>2. ASSUME gcReg[q].pc = "back"
            PROVE  client'[q] = "open" /\ \A t \in GSids : q \notin ClientsOf(t)'
        <5>1. client[q] = "open" /\ \A t \in GSids : q \notin ClientsOf(t)
          BY <4>1, <4>2 DEF RegisterSound
        <5>2. q \notin ClientsOf(s)'
          BY <1>11, <1>13, <3>2, NoRegIsNone
        <5> QED  BY <1>13, <1>14, <3>2, <5>1, <5>2
      <4> QED  BY <4>1, <4>2 DEF RegisterSound
    <3> QED  BY <3>1, <3>2
  <2> QED  BY <2>1
<1>18. (\A t \in GSids : CredentialsSound(t))'
  <2>1. CredentialsSound(s)'
    <3>1. \A q \in GRegs : q \in ClientsOf(s)' => gcReg'[q].pc = "done" /\ gcReg'[q].sid = s /\ client'[q] = "open"
      BY <1>4, <1>11, <1>12, <1>13, <1>14, NoRegIsNone
    <3> QED  BY <1>11, <1>12, <3>1 DEF CredentialsSound
  <2>2. ASSUME NEW t \in GSids, t # s PROVE CredentialsSound(t)'
    <3>1. CredentialsSound(t) /\ r \notin ClientsOf(t)
      BY <1>5 DEF GcInv
    <3>2. \A q \in GRegs : q \in ClientsOf(t) => q \notin ClientsOf(s)
      BY <1>15, <2>2, <3>1 DEF CredentialsSound
    <3> QED  BY <1>12, <1>13, <1>14, <2>2, <3>1, <3>2 DEF CredentialsSound
  <2> QED  BY <2>1, <2>2
<1>19. /\ used' \in [GCalls -> UsedRec]
       /\ \A k \in GCalls : /\ used'[k].sid = used[k].sid /\ used'[k].on = used[k].on
                            /\ ~used'[k].orphan => ~used[k].orphan /\ (used[k].sid # s \/ used[k].on = NoReg)
  <2>1. CASE m.live
    BY <1>7, <2>1, OrphansAre
  <2>2. CASE ~m.live
    <3>1. used' = used
      BY <1>7, <2>2
    <3>2. \A k \in GCalls : ~used[k].orphan => (used[k].sid # s \/ used[k].on = NoReg)
      BY <1>2, <2>2 DEF GcInv, TransferSound
    <3> QED  BY <3>1, <3>2, GcTypes
  <2> QED  BY <2>1, <2>2
<1>20. (\A k \in GCalls : TransferSound(k))'
  <2>1. ASSUME NEW k \in GCalls PROVE TransferSound(k)'
    <3>0. /\ used'[k].sid = used[k].sid /\ used'[k].on = used[k].on
          /\ ~used'[k].orphan => ~used[k].orphan /\ (used[k].sid # s \/ used[k].on = NoReg)
      BY <1>19
    <3>1. PICK q \in GSids : q = used[k].sid
      BY GcTypes DEF UsedRec
    <3>2. used[k].on # NoReg /\ ~used[k].orphan => gsess[q].live /\ used[k].on \in ClientsOf(q)
      BY <3>1 DEF GcInv, TransferSound
    <3>3. ASSUME used'[k].on # NoReg, ~used'[k].orphan
          PROVE  gsess'[q].live /\ used'[k].on \in ClientsOf(q)'
      <4>1. q # s /\ used[k].on # NoReg /\ ~used[k].orphan /\ used'[k].on = used[k].on
        BY <3>0, <3>1, <3>3
      <4> QED  BY <1>12, <1>13, <3>2, <4>1
    <3>4. used'[k].sid = q
      BY <3>0, <3>1
    <3> QED  BY <3>3, <3>4 DEF TransferSound
  <2> QED  BY <2>1
<1>21. (gended \subseteq GSids)'
  BY <1>7, GcTypes
<1> QED  BY <1>12, <1>14, <1>16, <1>17, <1>18, <1>19, <1>20, <1>21, GcWhole

\* Every step keeps the invariant.
LEMMA GcNextKeeps ==
  ASSUME GcInv, [GcNext]_gcVars
  PROVE  GcInv'
<1>1. CASE UNCHANGED gcVars
  <2>1. UNCHANGED <<gcReg, client, gsess, gended, used>>
    BY <1>1 DEF gcVars
  <2> QED  BY <2>1 DEF GcInv, GcTypeOK, ClientsAreHeld, RegisterSound, CredentialsSound,
                TransferSound, ClientsOf
<1>2. ASSUME NEW s \in GSids, EndSession(s) \/ FallsDue(s) PROVE GcInv'
  BY <1>2, EndSessionKeeps, FallsDueKeeps
<1>3. ASSUME NEW s \in GSids, NEW r \in GRegs, RegisterCall(r, s) \/ ReleaseRetired(s, r) PROVE GcInv'
  BY <1>3, RegistersKeep, ReleaseRetiredKeeps
<1>4. ASSUME NEW s \in GSids, NEW k \in GCalls, ApiBegins(k, s) PROVE GcInv'
  BY <1>4, ApiKeeps
<1>5. ASSUME NEW r \in GRegs, CancelBuild(r) \/ Finish(r) \/ \E ok \in BOOLEAN : Built(r, ok) PROVE GcInv'
  <2>1. PICK s \in GSids : TRUE
    BY NoRegIsNone
  <2> QED  BY <1>5, <2>1, RegistersKeep, AdoptsKeep, CreatesKeep
<1>6. ASSUME NEW k \in GCalls, ApiEnds(k) PROVE GcInv'
  BY <1>6, ApiKeeps
<1> QED  BY <1>1, <1>2, <1>3, <1>4, <1>5, <1>6 DEF GcNext

\* There is no session at first.
LEMMA GcStarts ==
  ASSUME GcInit
  PROVE  GcInv
<1>1. PICK s \in GSids : s = CHOOSE t \in GSids : TRUE
  BY NoRegIsNone
<1>2. PICK g : g = [pc |-> "idle", sid |-> s, rotating |-> FALSE, cancelled |-> FALSE, blind |-> FALSE]
  OBVIOUS
<1>3. g \in GcRegRec /\ g.pc = "idle"
  BY <1>2 DEF GcRegRec
<1>4. PICK u : u = [sid |-> s, on |-> NoReg, orphan |-> FALSE]
  OBVIOUS
<1>5. u \in UsedRec /\ u.on = NoReg
  BY <1>4 DEF UsedRec
<1>6. PICK z \in GcSessRec : z = NoSession /\ z.tc = NoReg /\ z.retired = {} /\ z.live = FALSE /\ z.revived = FALSE
  <2>1. NoSession \in GcSessRec
    BY DEF NoSession, GcSessRec
  <2> QED  BY <2>1 DEF NoSession
<1>7. /\ gcReg \in [GRegs -> GcRegRec] /\ \A r \in GRegs : gcReg[r] = g
      /\ used \in [GCalls -> UsedRec] /\ \A k \in GCalls : used[k] = u
      /\ gsess \in [GSids -> GcSessRec] /\ \A t \in GSids : gsess[t] = z
      /\ client \in [GRegs -> {"none", "open", "closed"}] /\ \A r \in GRegs : client[r] = "none"
  BY <1>1, <1>2, <1>3, <1>4, <1>5, <1>6 DEF GcInit
<1>8. GcTypeOK
  BY <1>7 DEF GcInit, GcTypeOK, GcRegRec, UsedRec, GcSessRec
<1>9. ClientsAreHeld /\ (\A r \in GRegs : RegisterSound(r))
  BY <1>3, <1>7 DEF ClientsAreHeld, RegisterSound
<1>10. (\A t \in GSids : CredentialsSound(t))
  BY <1>6, <1>7, NoRegIsNone DEF CredentialsSound, ClientsOf
<1>11. (\A k \in GCalls : TransferSound(k))
  BY <1>5, <1>7 DEF TransferSound
<1> QED  BY <1>8, <1>9, <1>10, <1>11 DEF GcInv

\* Credentials do not stay behind, a rotation disturbs no call, and no session
\* comes back, however registrations, ends and calls interleave.
THEOREM CredentialsAreSound ==
  GcSpec => [](GcTypeOK /\ ClientsAreHeld /\ RotationSparesCalls /\ NeverRevived)
<1>1. GcInv => GcTypeOK /\ ClientsAreHeld /\ RotationSparesCalls /\ NeverRevived
  <2>1. ASSUME GcInv PROVE RotationSparesCalls
    <3>1. ASSUME NEW k \in GCalls, used[k].on # NoReg, ~used[k].orphan
          PROVE  client[used[k].on] = "open"
      <4>1. used[k].on \in GRegs /\ used[k].sid \in GSids
        BY <2>1, <3>1, GcTypes DEF UsedRec
      <4> QED  BY <2>1, <3>1, <4>1 DEF GcInv, TransferSound, CredentialsSound
    <3> QED  BY <3>1 DEF RotationSparesCalls
  <2> QED  BY <2>1 DEF GcInv, NeverRevived, CredentialsSound
<1> QED  BY <1>1, GcStarts, GcNextKeeps, PTL DEF GcSpec

-----------------------------------------------------------------------------
(***************************************************************************)
(* Waiting for a transfer (Globus).                                        *)
(***************************************************************************)

GwRec == [pc: {"poll", "sleep", "true", "false", "raised"}, slot: Nat, last: BOOLEAN,
          answered: BOOLEAN, due: Times, began: Times, polls: Nat, ok: BOOLEAN]

\* Where a wait is on its schedule: polls are counted by its slots, the last one
\* is at the deadline, and it never sleeps past what is due.
WaitSound(g) ==
  /\ g.began <= deadline /\ g.began <= now /\ g.due <= deadline
  /\ g.polls <= (g.began \div Interval) + 2
  /\ ~g.last => g.polls <= (g.began \div Interval) + 1
  /\ g.pc = "poll" => /\ now <= g.began + MaxCall
                      /\ g.last => now >= deadline
                      /\ ~g.last => g.polls <= g.slot + 1 /\ g.slot * Interval <= g.began
  /\ g.pc = "sleep" => /\ now <= g.due
                       /\ g.last => g.due = deadline /\ g.polls <= (g.began \div Interval) + 1
                       /\ ~g.last => g.polls <= g.slot /\ g.slot * Interval <= g.due
  /\ g.pc \in {"true", "false", "raised"} => now <= g.began + MaxCall
  /\ g.pc = "false" => now >= deadline /\ (g.ok => g.began <= over)

GwInv == GwTypeOK /\ gw \in GwRec /\ WaitSound(gw)

\* Slots of the schedule, as products: what whole division by the interval means.
LEMMA SlotIs ==
  ASSUME NEW a \in Nat
  PROVE  /\ a \div Interval \in Nat /\ (a \div Interval) * Interval <= a
         /\ \A n \in Nat : n * Interval <= a => n <= a \div Interval
<1>0. Interval \in Nat \ {0}
  BY WaitBounds
<1>1. a \div Interval \in Nat
  BY <1>0
<1>2. PICK q \in Nat : q = a \div Interval
  BY <1>1
<1>3. Interval * q <= a
  BY <1>0, <1>2
<1>4. a < Interval * q + Interval
  BY <1>0, <1>2
<1>5. q * Interval <= a /\ a < q * Interval + Interval
  BY <1>0, <1>3, <1>4
<1>6. ASSUME NEW n \in Nat, n * Interval <= a, ~(n <= q)
      PROVE  FALSE
  <2>1. q * Interval + Interval <= n * Interval
    BY <1>0, <1>6
  <2>2. n * Interval \in Nat /\ q * Interval \in Nat
    BY <1>0
  <2> QED  BY <1>0, <1>5, <1>6, <2>1, <2>2
<1> QED  BY <1>2, <1>5, <1>6

\* Later times are in later slots.
LEMMA SlotsGrow ==
  ASSUME NEW a \in Nat, NEW b \in Nat, a <= b
  PROVE  a \div Interval <= b \div Interval
<1>1. PICK q \in Nat : q = a \div Interval /\ q * Interval <= a
  BY SlotIs
<1>2. q * Interval \in Nat
  BY <1>1, WaitBounds
<1>3. q * Interval <= b
  BY <1>1, <1>2
<1> QED  BY <1>1, <1>3, SlotIs

\* The bounds.
LEMMA GwBounds ==
  ASSUME GwInv
  PROVE  /\ deadline \in Nat /\ deadline <= MaxTimeout /\ now \in Nat /\ over \in Nat
         /\ MaxTimeout \in Nat /\ MaxCall \in Nat /\ Pause \in Nat \ {0} /\ Interval \in Nat \ {0}
         /\ Never \in Nat /\ Never = MaxTimeout + MaxCall + Pause + 10 /\ Times = 0..Never
         /\ now <= MaxTimeout + MaxCall
<1>1. /\ deadline \in Nat /\ deadline <= MaxTimeout /\ now \in Nat /\ over \in Nat
      /\ MaxTimeout \in Nat /\ MaxCall \in Nat /\ Pause \in Nat \ {0} /\ Interval \in Nat \ {0}
      /\ Never \in Nat /\ Never = MaxTimeout + MaxCall + Pause + 10 /\ Times = 0..Never
  BY WaitBounds DEF GwInv, GwTypeOK, Never, Times
<1>2. PICK g \in GwRec : g = gw /\ WaitSound(g)
  BY DEF GwInv
<1>3. g.pc \in {"poll", "sleep", "true", "false", "raised"} /\ g.began \in Nat /\ g.due \in Nat
  BY <1>1 DEF GwRec
<1>4. now <= MaxTimeout + MaxCall
  BY <1>1, <1>2, <1>3 DEF WaitSound
<1> QED  BY <1>1, <1>4

\* The type of the wait is that of its record.
LEMMA GwTyped ==
  ASSUME (gw \in GwRec)', (deadline \in 0..MaxTimeout)', (now \in Times)', (over \in Times)', WaitSound(gw)'
  PROVE  GwInv'
  BY DEF GwInv, GwTypeOK, GwRec

\* After a poll that did not end the wait, it sleeps until its next slot, or the deadline.
LEMMA WaitOnKeeps ==
  ASSUME GwInv, NEW g \in GwRec, WaitSound(g), g.pc = "poll", ~g.last, now < deadline,
         NEW pause \in {0, Pause}, gw' = WaitOn(g, pause), UNCHANGED <<deadline, now, over>>
  PROVE  GwInv'
<1>0. /\ deadline \in Nat /\ now \in Nat /\ Interval \in Nat \ {0} /\ pause \in Nat /\ Times = 0..Never
      /\ Never \in Nat /\ deadline <= Never
  BY GwBounds
<1>1. g.slot \in Nat /\ g.polls \in Nat /\ g.began \in Nat /\ g.due \in Nat
  BY <1>0 DEF GwRec
<1>2. PICK q \in Nat : q = now \div Interval
  BY <1>0, SlotIs
<1>3. PICK n \in Nat : n = NextSlot(g) /\ n >= g.slot + 1
  BY <1>1, <1>2 DEF NextSlot
<1>4. PICK d \in Nat : d = n * Interval
  BY <1>0
<1>5. PICK due \in Nat : due = PollDue(g, pause) /\ due >= now /\ due >= d
  BY <1>0, <1>3, <1>4 DEF PollDue
<1>6. CASE due >= deadline
  <2>1. PICK y : y = [g EXCEPT !.pc = "sleep", !.due = deadline, !.last = TRUE]
    OBVIOUS
  <2>2. gw' = y
    BY <1>5, <1>6, <2>1 DEF WaitOn, AtDeadline
  <2>8. PICK w \in BOOLEAN : w = TRUE
    OBVIOUS
  <2>9. deadline \in Times /\ y = [g EXCEPT !.pc = "sleep", !.due = deadline, !.last = w]
    BY <1>0, <2>1, <2>8
  <2>10. y \in GwRec
    BY <2>9 DEF GwRec
  <2>3. /\ y \in GwRec /\ y.pc = "sleep" /\ y.due = deadline /\ y.began = g.began /\ y.polls = g.polls
    BY <2>9, <2>10 DEF GwRec
  <2>4. y.last
    BY <2>8, <2>9 DEF GwRec
  <2>5. WaitSound(y)
    BY <1>0, <1>1, <2>3, <2>4 DEF WaitSound
  <2>6. WaitSound(gw)'
    BY <2>2, <2>5 DEF WaitSound
  <2> QED  BY <2>2, <2>3, <2>6, GwTyped DEF GwInv, GwTypeOK
<1>7. CASE due < deadline
  <2>1. PICK y : y = [g EXCEPT !.pc = "sleep", !.slot = n, !.due = due]
    OBVIOUS
  <2>2. gw' = y
    BY <1>0, <1>3, <1>5, <1>7, <2>1 DEF WaitOn
  <2>3. due \in Times
    BY <1>0, <1>7
  <2>4. /\ y \in GwRec /\ y.pc = "sleep" /\ y.due = due /\ y.began = g.began /\ y.polls = g.polls
        /\ y.slot = n /\ y.last = g.last
    BY <2>1, <2>3 DEF GwRec
  <2>5. y.polls <= y.slot /\ y.slot * Interval <= y.due
    BY <1>1, <1>3, <1>4, <1>5, <2>4 DEF WaitSound
  <2>8. /\ y.began <= deadline /\ y.began <= now /\ y.due <= deadline /\ now <= y.due /\ ~y.last
    BY <1>0, <1>1, <1>5, <1>7, <2>4 DEF WaitSound
  <2>9. y.polls <= (y.began \div Interval) + 2 /\ y.polls <= (y.began \div Interval) + 1
    BY <2>4 DEF WaitSound
  <2>6. WaitSound(y)
    BY <2>4, <2>5, <2>8, <2>9 DEF WaitSound
  <2>7. WaitSound(gw)'
    BY <2>2, <2>6 DEF WaitSound
  <2> QED  BY <2>2, <2>4, <2>7, GwTyped DEF GwInv, GwTypeOK
<1> QED  BY <1>0, <1>5, <1>6, <1>7

\* A poll is answered.
LEMMA PollGetsKeeps ==
  ASSUME GwInv, NEW done \in BOOLEAN, PollGets(done)
  PROVE  GwInv'
<1>0. /\ deadline \in Nat /\ now \in Nat /\ Interval \in Nat \ {0}
      /\ UNCHANGED <<deadline, now, over>> /\ gw.pc = "poll"
  BY GwBounds DEF PollGets
<1>1. PICK m \in GwRec : m = gw /\ WaitSound(m) /\ m.pc = "poll"
  BY <1>0 DEF GwInv
<1>2. PICK g : g = [m EXCEPT !.answered = TRUE, !.ok = TRUE]
  OBVIOUS
<1>3. /\ g \in GwRec /\ g.pc = "poll" /\ g.due = m.due /\ g.began = m.began /\ g.polls = m.polls
      /\ g.slot = m.slot /\ g.last = m.last
  BY <1>1, <1>2 DEF GwRec
<1>4. WaitSound(g)
  BY <1>1, <1>3 DEF WaitSound
<1>5. /\ IF done THEN over <= now ELSE over >= g.began
      /\ gw' = IF done THEN [g EXCEPT !.pc = "true"]
               ELSE IF g.last \/ now >= deadline THEN [g EXCEPT !.pc = "false"]
               ELSE WaitOn(g, 0)
  BY <1>1, <1>2, <1>3 DEF PollGets
<1>6. CASE ~done /\ ~(g.last \/ now >= deadline)
  <2>1. gw' = WaitOn(g, 0) /\ ~g.last /\ now < deadline
    BY <1>0, <1>5, <1>6
  <2> QED  BY <1>0, <1>3, <1>4, <2>1, WaitOnKeeps
<1>7. CASE done \/ g.last \/ now >= deadline
  <2>1. PICK pc \in {"true", "false"} : /\ gw' = [g EXCEPT !.pc = pc]
                                        /\ pc = "false" => (g.last \/ now >= deadline) /\ over >= g.began
    BY <1>5, <1>7
  <2>2. PICK y : y = [g EXCEPT !.pc = pc]
    OBVIOUS
  <2>8. y \in GwRec
    BY <1>3, <2>2 DEF GwRec
  <2>9. PICK b \in BOOLEAN : b = g.last
    BY <1>3 DEF GwRec
  <2>3. /\ y \in GwRec /\ y.pc = pc /\ y.due = g.due /\ y.began = g.began /\ y.polls = g.polls /\ y.last = g.last
    BY <1>3, <2>2, <2>8, <2>9 DEF GwRec
  <2>4. pc = "false" => now >= deadline
    BY <1>3, <1>4, <2>1 DEF WaitSound
  <2>5. WaitSound(y)
    BY <1>3, <1>4, <2>1, <2>3, <2>4 DEF WaitSound
  <2>6. gw' = y
    BY <2>1, <2>2
  <2>7. WaitSound(gw)'
    BY <1>0, <2>5, <2>6 DEF WaitSound
  <2> QED  BY <1>0, <2>3, <2>6, <2>7, GwTyped DEF GwInv, GwTypeOK
<1> QED  BY <1>6, <1>7

\* A poll is lost, or put off.
LEMMA PollLostKeeps ==
  ASSUME GwInv, NEW pause \in {0, Pause}, PollLost(pause)
  PROVE  GwInv'
<1>0. /\ deadline \in Nat /\ now \in Nat /\ Interval \in Nat \ {0}
      /\ UNCHANGED <<deadline, now, over>> /\ gw.pc = "poll"
  BY GwBounds DEF PollLost
<1>1. PICK m \in GwRec : m = gw /\ WaitSound(m) /\ m.pc = "poll"
  BY <1>0 DEF GwInv
<1>2. PICK g : g = [m EXCEPT !.ok = FALSE]
  OBVIOUS
<1>3. /\ g \in GwRec /\ g.pc = "poll" /\ g.due = m.due /\ g.began = m.began /\ g.polls = m.polls
      /\ g.slot = m.slot /\ g.last = m.last /\ g.answered = m.answered
  BY <1>1, <1>2 DEF GwRec
<1>9. ~g.ok
  BY <1>2 DEF GwRec
<1>4. WaitSound(g)
  BY <1>1, <1>3 DEF WaitSound
<1>5. gw' = IF g.last \/ now >= deadline
            THEN [g EXCEPT !.pc = IF m.answered THEN "false" ELSE "raised"]
            ELSE WaitOn(g, pause)
  BY <1>1, <1>2, <1>3 DEF PollLost
<1>6. CASE ~(g.last \/ now >= deadline)
  <2>1. gw' = WaitOn(g, pause) /\ ~g.last /\ now < deadline
    BY <1>0, <1>5, <1>6
  <2> QED  BY <1>0, <1>3, <1>4, <2>1, WaitOnKeeps
<1>7. CASE g.last \/ now >= deadline
  <2>1. PICK pc \in {"raised", "false"} : gw' = [g EXCEPT !.pc = pc]
    BY <1>5, <1>7
  <2>2. PICK y : y = [g EXCEPT !.pc = pc]
    OBVIOUS
  <2>8. y \in GwRec
    BY <1>3, <2>2 DEF GwRec
  <2>3. /\ y \in GwRec /\ y.pc = pc /\ y.due = g.due /\ y.began = g.began /\ y.polls = g.polls /\ y.last = g.last
        /\ y.ok = g.ok
    BY <1>3, <2>2, <2>8 DEF GwRec
  <2>4. now >= deadline
    BY <1>3, <1>4, <1>7 DEF WaitSound
  <2>5. WaitSound(y)
    BY <1>3, <1>4, <1>9, <2>3, <2>4 DEF WaitSound
  <2>6. gw' = y
    BY <2>1, <2>2
  <2>7. WaitSound(gw)'
    BY <1>0, <2>5, <2>6 DEF WaitSound
  <2> QED  BY <1>0, <2>3, <2>6, <2>7, GwTyped DEF GwInv, GwTypeOK
<1> QED  BY <1>6, <1>7

\* The sleep is over: the next poll begins, in its slot or at the deadline.
LEMMA PollAgainKeeps ==
  ASSUME GwInv, PollAgain
  PROVE  GwInv'
<1>0. /\ deadline \in Nat /\ now \in Nat /\ Interval \in Nat \ {0} /\ MaxCall \in Nat
      /\ UNCHANGED <<deadline, now, over>> /\ gw.pc = "sleep" /\ now \in Times /\ now >= gw.due
  BY GwBounds DEF PollAgain, GwInv, GwTypeOK
<1>1. PICK m \in GwRec : m = gw /\ WaitSound(m) /\ m.pc = "sleep"
  BY <1>0 DEF GwInv
<1>2. PICK y : y = [m EXCEPT !.pc = "poll", !.began = now, !.polls = m.polls + 1]
  OBVIOUS
<1>3. /\ m.slot \in Nat /\ m.polls \in Nat /\ m.began \in Nat /\ m.due \in Nat
  BY GwBounds DEF GwRec
<1>14. PICK n \in Nat : n = m.polls + 1
  BY <1>3
<1>15. y = [m EXCEPT !.pc = "poll", !.began = now, !.polls = n]
  BY <1>2, <1>14
<1>13. y \in GwRec
  BY <1>0, <1>15 DEF GwRec
<1>4. /\ y \in GwRec /\ y.pc = "poll" /\ y.due = m.due /\ y.began = now /\ y.polls = m.polls + 1
      /\ y.slot = m.slot /\ y.last = m.last
  BY <1>13, <1>14, <1>15 DEF GwRec
<1>5. gw' = y
  BY <1>1, <1>2 DEF PollAgain
<1>6. now = m.due /\ now <= deadline /\ m.began <= now
  BY <1>0, <1>1, <1>3 DEF WaitSound
<1>7. PICK q \in Nat, p \in Nat : q = m.began \div Interval /\ p = now \div Interval /\ q <= p
  BY <1>0, <1>3, <1>6, SlotIs, SlotsGrow
<1>8. ~m.last => m.slot <= p /\ m.polls <= m.slot /\ m.slot * Interval <= now
  BY <1>0, <1>1, <1>3, <1>6, <1>7, SlotIs DEF WaitSound
<1>9. m.last => m.due = deadline /\ m.polls <= q + 1
  BY <1>1, <1>7 DEF WaitSound
<1>10. /\ y.polls <= p + 2 /\ (~y.last => y.polls <= p + 1)
       /\ y.last => now >= deadline
       /\ ~y.last => y.polls <= y.slot + 1 /\ y.slot * Interval <= y.began
  BY <1>3, <1>4, <1>6, <1>7, <1>8, <1>9
<1>11. WaitSound(y)
  BY <1>0, <1>4, <1>6, <1>7, <1>10 DEF WaitSound
<1>12. WaitSound(gw)'
  BY <1>0, <1>5, <1>11 DEF WaitSound
<1> QED  BY <1>0, <1>4, <1>5, <1>12, GwTyped DEF GwInv, GwTypeOK

\* Time passes, within a call or a sleep; the transfer ends.
LEMMA TimeKeeps ==
  ASSUME GwInv, TimePasses \/ TransferEnds
  PROVE  GwInv'
<1>0. /\ deadline \in Nat /\ now \in Nat /\ Interval \in Nat \ {0} /\ MaxCall \in Nat /\ MaxTimeout \in Nat
      /\ deadline <= MaxTimeout
      /\ UNCHANGED <<deadline, gw>> /\ Times = 0..Never /\ Never \in Nat /\ MaxTimeout + MaxCall < Never
  BY GwBounds DEF TimePasses, TransferEnds
<1>1. PICK g \in GwRec : g = gw /\ WaitSound(g)
  BY DEF GwInv
<1>2. g.began \in Nat /\ g.due \in Nat
  BY GwBounds DEF GwRec
<1>3. CASE TimePasses
  <2>1. over' = over /\ now' = now + 1
    BY <1>3 DEF TimePasses
  <2>2. (g.pc = "poll" /\ now < g.began + MaxCall) \/ (g.pc = "sleep" /\ now < g.due)
    BY <1>1, <1>3 DEF TimePasses
  <2>3. now' \in Times
    BY <1>0, <1>1, <1>2, <2>1, <2>2 DEF WaitSound
  <2>4. WaitSound(gw)'
    <3>1. /\ g.began <= now' /\ g.began <= deadline /\ g.due <= deadline
          /\ g.polls <= (g.began \div Interval) + 2
          /\ ~g.last => g.polls <= (g.began \div Interval) + 1
      BY <1>0, <1>1, <1>2, <2>1 DEF WaitSound
    <3>4. /\ g.pc = "poll" => now' <= g.began + MaxCall
          /\ g.pc = "sleep" => now' <= g.due
      BY <1>0, <1>2, <2>1, <2>2
    <3>5. g.pc = "poll" => /\ g.last => now' >= deadline
                           /\ ~g.last => g.polls <= g.slot + 1 /\ g.slot * Interval <= g.began
      BY <1>0, <1>1, <2>1 DEF WaitSound
    <3>2. /\ g.pc = "poll" => /\ now' <= g.began + MaxCall
                              /\ g.last => now' >= deadline
                              /\ ~g.last => g.polls <= g.slot + 1 /\ g.slot * Interval <= g.began
          /\ g.pc = "sleep" => /\ now' <= g.due
                               /\ g.last => g.due = deadline /\ g.polls <= (g.began \div Interval) + 1
                               /\ ~g.last => g.polls <= g.slot /\ g.slot * Interval <= g.due
      BY <1>1, <3>4, <3>5 DEF WaitSound
    <3>3. g.pc \notin {"true", "false", "raised"}
      BY <2>2
    <3> QED  BY <1>0, <1>1, <3>1, <3>2, <3>3 DEF WaitSound
  <2> QED  BY <1>0, <2>1, <2>3, <2>4, GwTyped DEF GwInv, GwTypeOK
<1>4. CASE TransferEnds
  <2>1. over = Never /\ over' = now /\ now' = now
    BY <1>4 DEF TransferEnds
  <2>2. over' \in Times
    BY <2>1 DEF GwInv, GwTypeOK
  <2>3. WaitSound(gw)'
    BY <1>0, <1>1, <2>1 DEF WaitSound
  <2> QED  BY <1>0, <2>1, <2>2, <2>3, GwTyped DEF GwInv, GwTypeOK
<1> QED  BY <1>3, <1>4

\* Every step keeps the invariant.
LEMMA GwNextKeeps ==
  ASSUME GwInv, [GwNext]_gwVars
  PROVE  GwInv'
<1>1. CASE UNCHANGED gwVars
  BY <1>1 DEF gwVars, GwInv, GwTypeOK, WaitSound
<1> QED  BY <1>1, PollGetsKeeps, PollLostKeeps, PollAgainKeeps, TimeKeeps DEF GwNext

\* The first poll begins at once.
LEMMA GwStarts ==
  ASSUME GwInit
  PROVE  GwInv
<1>0. MaxTimeout \in Nat /\ MaxCall \in Nat /\ Pause \in Nat \ {0} /\ Interval \in Nat \ {0} /\ Never \in Nat
  BY WaitBounds DEF Never
<1>1. PICK g : g = [pc |-> "poll", slot |-> 0, last |-> FALSE, answered |-> FALSE, due |-> 0,
                    began |-> 0, polls |-> 1, ok |-> FALSE]
  OBVIOUS
<1>2. 0 \in Times /\ Never \in Times
  BY <1>0 DEF Times
<1>3. /\ g \in GwRec /\ g.pc = "poll" /\ g.slot = 0 /\ g.due = 0 /\ g.began = 0 /\ g.polls = 1 /\ g.last = FALSE
  BY <1>1, <1>2 DEF GwRec
<1>4. gw = g /\ now = 0 /\ over = Never /\ deadline \in 0..MaxTimeout
  BY <1>1 DEF GwInit
<1>5. 0 * Interval = 0 /\ 0 \div Interval \in Nat
  BY <1>0, SlotIs
<1>6. WaitSound(g)
  BY <1>0, <1>3, <1>4, <1>5 DEF WaitSound
<1>7. GwTypeOK
  BY <1>2, <1>3, <1>4 DEF GwTypeOK, GwRec
<1> QED  BY <1>3, <1>4, <1>6, <1>7 DEF GwInv

\* A wait says `completed: False' only at its deadline and by its last poll, and
\* polls once per interval, however polls are lost or put off.
THEOREM WaitsAreSound == GwSpec => [](GwTypeOK /\ FalseIsCurrent /\ PollsOnSchedule)
<1>1. GwInv => GwTypeOK /\ FalseIsCurrent /\ PollsOnSchedule
  BY DEF GwInv, WaitSound, FalseIsCurrent, PollsOnSchedule
<1> QED  BY <1>1, GwStarts, GwNextKeeps, PTL DEF GwSpec

-----------------------------------------------------------------------------
(***************************************************************************)
(* Calls of a facility (Facility).                                         *)
(***************************************************************************)

FcInst == [is: {"none", "up", "closing", "closed"}, cred: Creds, tok: Creds,
           lock: FCalls \cup {NoCred}, oauth: BOOLEAN, late: BOOLEAN]
FcConnect == [pc: {"idle", "mint", "done"}, found: Creds, mgr: {"none", "open", "given"},
              ans: {"none", "connected", "updated", "failed"}]
FcCall == [pc: {"idle", "token", "fetch", "send", "retry", "refetch", "resend", "done"},
           on: Creds, tok: Creds, with: Creds, clean: BOOLEAN,
           ans: {"none", "ok", "401", "error"}]

\* Of an instance: its OAuth client is closed with it, or was built anew since.
InstanceOk(i) == i.is = "closed" /\ ~i.late => ~i.oauth

\* Of a connect call: it holds its manager while it verifies, and has no instance
\* before it ends.
ConnectOk(m, i) == /\ m.mgr = "open" => m.pc = "mint"
                   /\ m.pc # "done" => i.is = "none"

\* Of an API call: where it goes, and when it has an answer.
CallOk(m) == /\ m.pc # "idle" => m.on \in Conns
             /\ m.ans # "none" => m.pc = "done"
             /\ m.ans = "401" => ~m.clean

\* Of one that is clean: its instance is up with good credentials, v, and those
\* are what it fetches with, and what it tries again with.
CleanOk(m, i, v) == /\ i.is = "up" /\ i.cred \in v
                    /\ m.pc \in {"fetch", "refetch"} => m.with = i.cred
                    /\ m.pc = "resend" => m.tok = i.cred

FcInv ==
  /\ plug \in Creds /\ valid \subseteq Conns
  /\ inst \in [Conns -> FcInst] /\ fcConn \in [Conns -> FcConnect] /\ fcall \in [FCalls -> FcCall]
  /\ plug # NoCred => inst[plug].is = "up"
  /\ \A c \in Conns : InstanceOk(inst[c]) /\ ConnectOk(fcConn[c], inst[c])
  /\ \A k \in FCalls : CallOk(fcall[k])
  /\ \A k \in FCalls : fcall[k].clean =>
       fcall[k].on \in Conns /\ CleanOk(fcall[k], inst[fcall[k].on], valid)

\* A call moves on, and instances change only in their tokens and locks.
LEMMA CallMoves ==
  ASSUME FcInv, NEW k \in FCalls, NEW z \in FcCall, CallOk(z),
         z.clean => z.on \in Conns /\ CleanOk(z, inst[z.on], valid),
         fcall' = [fcall EXCEPT ![k] = z], inst' \in [Conns -> FcInst],
         \A c \in Conns : /\ InstanceOk(inst'[c]) /\ inst'[c].is = inst[c].is
                          /\ inst'[c].cred = inst[c].cred,
         UNCHANGED <<plug, fcConn, valid>>
  PROVE  FcInv'
<1>1. /\ plug' \in Creds /\ valid' \subseteq Conns /\ inst' \in [Conns -> FcInst]
      /\ fcConn' \in [Conns -> FcConnect] /\ fcall' \in [FCalls -> FcCall]
  BY DEF FcInv
<1>2. plug' # NoCred => inst'[plug'].is = "up"
  BY DEF FcInv, Creds
<1>3. ASSUME NEW c \in Conns PROVE InstanceOk(inst'[c]) /\ ConnectOk(fcConn'[c], inst'[c])
  BY <1>3 DEF FcInv, ConnectOk
<1>4. ASSUME NEW j \in FCalls PROVE CallOk(fcall'[j])
  BY <1>4 DEF FcInv
<1>5. ASSUME NEW j \in FCalls, fcall'[j].clean
      PROVE  fcall'[j].on \in Conns /\ CleanOk(fcall'[j], inst'[fcall'[j].on], valid')
  <2>1. PICK y : y = fcall'[j]
    OBVIOUS
  <2>2. y.clean => y.on \in Conns /\ CleanOk(y, inst[y.on], valid)
    BY <2>1 DEF FcInv
  <2>3. y.on \in Conns /\ CleanOk(y, inst[y.on], valid)
    BY <1>5, <2>1, <2>2
  <2>4. CleanOk(y, inst'[y.on], valid')
    BY <2>3 DEF CleanOk
  <2> QED  BY <2>1, <2>3, <2>4
<1> QED  BY <1>1, <1>2, <1>3, <1>4, <1>5 DEF FcInv

\* An instance whose tokens and lock change.
LEMMA InstanceIsTouched ==
  ASSUME FcInv, NEW i \in Conns, NEW y \in FcInst, InstanceOk(y), y.is = inst[i].is,
         y.cred = inst[i].cred, inst' = [inst EXCEPT ![i] = y]
  PROVE  /\ inst' \in [Conns -> FcInst]
         /\ \A c \in Conns : /\ InstanceOk(inst'[c]) /\ inst'[c].is = inst[c].is
                             /\ inst'[c].cred = inst[c].cred
  BY DEF FcInv

\* A fetch starts, with the credentials of the moment.
LEMMA FetchStarts ==
  ASSUME FcInv, NEW k \in FCalls, fcall[k].pc \in {"token", "retry"}, NEW pc \in {"fetch", "refetch"},
         StartsFetch(k, pc), UNCHANGED <<plug, fcConn, valid>>
  PROVE  FcInv'
<1>1. PICK m \in FcCall : m = fcall[k] /\ m.pc \in {"token", "retry"} /\ m.on \in Conns /\ CallOk(m)
  BY DEF FcInv, CallOk
<1>2. PICK i \in FcInst : i = inst[m.on] /\ InstanceOk(i)
  BY <1>1 DEF FcInv
<1>3. PICK late \in BOOLEAN : late = (i.late \/ i.is = "closed")
  BY <1>2 DEF FcInst
<1>4. PICK w \in BOOLEAN : w = TRUE
  OBVIOUS
<1>5. PICK y : y = [i EXCEPT !.lock = k, !.oauth = w, !.late = late]
  OBVIOUS
<1>6. inst' = [inst EXCEPT ![m.on] = y]
  <2>1. inst' = [inst EXCEPT ![fcall[k].on] =
                   [inst[fcall[k].on] EXCEPT !.lock = k, !.oauth = TRUE,
                      !.late = inst[fcall[k].on].late \/ inst[fcall[k].on].is = "closed"]]
    BY <1>1 DEF StartsFetch, FcInv
  <2>2. CASE i.late \/ i.is = "closed"
    <3>1. (inst[fcall[k].on].late \/ inst[fcall[k].on].is = "closed") = TRUE /\ late = TRUE
      BY <1>1, <1>2, <1>3, <2>2
    <3> QED  BY <1>1, <1>2, <1>4, <1>5, <2>1, <3>1
  <2>3. CASE ~(i.late \/ i.is = "closed")
    <3>1. (inst[fcall[k].on].late \/ inst[fcall[k].on].is = "closed") = FALSE /\ late = FALSE
      BY <1>1, <1>2, <1>3, <2>3
    <3> QED  BY <1>1, <1>2, <1>4, <1>5, <2>1, <3>1
  <2> QED  BY <2>2, <2>3
<1>7. y \in FcInst
  BY <1>2, <1>5 DEF FcInst
<1>8. y.is = i.is /\ y.cred = i.cred /\ y.late = late
  BY <1>2, <1>5 DEF FcInst
<1>9. InstanceOk(y)
  BY <1>3, <1>8 DEF InstanceOk
<1>10. PICK z : z = [m EXCEPT !.pc = pc, !.with = i.cred]
  OBVIOUS
<1>11. z \in FcCall
  BY <1>1, <1>2, <1>10 DEF FcCall, FcInst
<1>12. z.pc = pc /\ z.with = i.cred /\ z.on = m.on /\ z.ans = m.ans /\ z.tok = m.tok
  BY <1>1, <1>10 DEF FcCall
<1>13. z.clean = m.clean
  BY <1>1, <1>10 DEF FcCall
<1>14. fcall' = [fcall EXCEPT ![k] = z]
  BY <1>1, <1>2, <1>10 DEF StartsFetch, FcInv
<1>15. CallOk(z)
  BY <1>1, <1>12, <1>13 DEF CallOk
<1>16. z.clean => z.on \in Conns /\ CleanOk(z, inst[z.on], valid)
  BY <1>1, <1>2, <1>12, <1>13 DEF FcInv, CleanOk
<1>17. /\ inst' \in [Conns -> FcInst]
       /\ \A c \in Conns : /\ InstanceOk(inst'[c]) /\ inst'[c].is = inst[c].is
                           /\ inst'[c].cred = inst[c].cred
  BY <1>1, <1>2, <1>6, <1>7, <1>8, <1>9, InstanceIsTouched
<1> QED  BY <1>11, <1>14, <1>15, <1>16, <1>17, CallMoves

\* A call moves on by itself.
LEMMA CallGoesOn ==
  ASSUME FcInv, NEW k \in FCalls, NEW z \in FcCall, CallOk(z),
         z.clean => z.on \in Conns /\ CleanOk(z, inst[z.on], valid),
         fcall' = [fcall EXCEPT ![k] = z], UNCHANGED <<plug, inst, fcConn, valid>>
  PROVE  FcInv'
<1>1. inst' \in [Conns -> FcInst]
  BY DEF FcInv
<1>2. \A c \in Conns : /\ InstanceOk(inst'[c]) /\ inst'[c].is = inst[c].is
                       /\ inst'[c].cred = inst[c].cred
  BY DEF FcInv
<1> QED  BY <1>1, <1>2, CallMoves

\* A call begins, on the instance registered.
LEMMA ApiCallKeeps ==
  ASSUME FcInv, NEW k \in FCalls, ApiCall(k)
  PROVE  FcInv'
<1>1. PICK m \in FcCall : m = fcall[k] /\ m.pc = "idle" /\ CallOk(m)
  BY DEF FcInv, ApiCall
<1>2. plug \in Conns /\ inst[plug].is = "up"
  BY DEF ApiCall, FcInv, Creds
<1>3. PICK b \in BOOLEAN : b <=> inst[plug].cred \in valid
  OBVIOUS
<1>4. PICK z : z = [m EXCEPT !.pc = "token", !.on = plug, !.clean = b]
  OBVIOUS
<1>5. z \in FcCall
  BY <1>1, <1>2, <1>4 DEF FcCall, Creds
<1>6. z.pc = "token" /\ z.on = plug /\ z.ans = m.ans
  BY <1>1, <1>4 DEF FcCall
<1>7. z.clean = b
  BY <1>1, <1>4 DEF FcCall
<1>8. fcall' = [fcall EXCEPT ![k] = z]
  <2>1. CASE inst[plug].cred \in valid
    <3>1. (inst[plug].cred \in valid) = TRUE /\ b = TRUE
      BY <1>3, <2>1
    <3> QED  BY <1>1, <1>4, <3>1 DEF ApiCall
  <2>2. CASE inst[plug].cred \notin valid
    <3>1. (inst[plug].cred \in valid) = FALSE /\ b = FALSE
      BY <1>3, <2>2
    <3> QED  BY <1>1, <1>4, <3>1 DEF ApiCall
  <2> QED  BY <2>1, <2>2
<1>9. CallOk(z)
  BY <1>1, <1>2, <1>6 DEF CallOk
<1>10. z.clean => z.on \in Conns /\ CleanOk(z, inst[z.on], valid)
  BY <1>2, <1>3, <1>6, <1>7 DEF CleanOk
<1> QED  BY <1>5, <1>8, <1>9, <1>10, CallGoesOn DEF ApiCall

\* It gets a token, the cached one or a new one.
LEMMA GetsTokenKeeps ==
  ASSUME FcInv, NEW k \in FCalls, GetsToken(k)
  PROVE  FcInv'
<1>1. PICK m \in FcCall : m = fcall[k] /\ m.pc = "token" /\ m.on \in Conns /\ CallOk(m)
  BY DEF FcInv, GetsToken, CallOk
<1>2. CASE inst[m.on].tok # NoCred
  <2>1. PICK z : z = [m EXCEPT !.pc = "send", !.tok = inst[m.on].tok]
    OBVIOUS
  <2>2. inst[m.on].tok \in Creds
    BY <1>1 DEF FcInv, FcInst
  <2>3. z \in FcCall
    BY <1>1, <2>1, <2>2 DEF FcCall
  <2>4. z.pc = "send" /\ z.on = m.on /\ z.ans = m.ans
    BY <1>1, <2>1 DEF FcCall
  <2>5. z.clean = m.clean
    BY <1>1, <2>1 DEF FcCall
  <2>6. fcall' = [fcall EXCEPT ![k] = z] /\ UNCHANGED <<plug, inst, fcConn, valid>>
    BY <1>1, <1>2, <2>1 DEF GetsToken, FcInv
  <2>7. CallOk(z)
    BY <1>1, <2>4, <2>5 DEF CallOk
  <2>8. z.clean => z.on \in Conns /\ CleanOk(z, inst[z.on], valid)
    BY <1>1, <2>4, <2>5 DEF FcInv, CleanOk
  <2> QED  BY <2>3, <2>6, <2>7, <2>8, CallGoesOn
<1>3. CASE inst[m.on].tok = NoCred
  <2>1. StartsFetch(k, "fetch")
    BY <1>1, <1>3 DEF GetsToken
  <2> QED  BY <1>1, <2>1, FetchStarts DEF GetsToken
<1> QED  BY <1>2, <1>3

\* A fetch ends, with a token or without one.
LEMMA FetchEnds ==
  ASSUME FcInv, NEW k \in FCalls, Fetched(k) \/ FetchRejected(k)
  PROVE  FcInv'
<1>1. PICK m \in FcCall : m = fcall[k] /\ m.pc \in {"fetch", "refetch"} /\ m.on \in Conns /\ CallOk(m)
  BY DEF FcInv, Fetched, FetchRejected, CallOk
<1>2. PICK i \in FcInst : i = inst[m.on] /\ InstanceOk(i)
  BY <1>1 DEF FcInv
<1>3. m.clean => m.with = i.cred /\ i.cred \in valid /\ i.is = "up"
  BY <1>1, <1>2 DEF FcInv, CleanOk
<1>4. CASE Fetched(k)
  <2>1. PICK y : y = [i EXCEPT !.lock = NoCred, !.tok = m.with]
    OBVIOUS
  <2>2. y \in FcInst
    BY <1>1, <1>2, <2>1 DEF FcInst, FcCall
  <2>3. y.is = i.is /\ y.cred = i.cred /\ y.late = i.late /\ y.oauth = i.oauth
    BY <1>2, <2>1 DEF FcInst
  <2>4. inst' = [inst EXCEPT ![m.on] = y]
    BY <1>1, <1>2, <1>4, <2>1 DEF Fetched, FcInv
  <2>5. InstanceOk(y)
    BY <1>2, <2>3 DEF InstanceOk
  <2>6. PICK pc \in {"send", "resend"} : pc = IF m.pc = "fetch" THEN "send" ELSE "resend"
    OBVIOUS
  <2>7. PICK z : z = [m EXCEPT !.pc = pc, !.tok = m.with]
    OBVIOUS
  <2>8. z \in FcCall
    BY <1>1, <2>7 DEF FcCall
  <2>9. z.pc = pc /\ z.on = m.on /\ z.ans = m.ans /\ z.tok = m.with
    BY <1>1, <2>7 DEF FcCall
  <2>10. z.clean = m.clean
    BY <1>1, <2>7 DEF FcCall
  <2>11. fcall' = [fcall EXCEPT ![k] = z]
    BY <1>1, <1>4, <2>6, <2>7 DEF Fetched, FcInv
  <2>12. CallOk(z)
    BY <1>1, <2>9, <2>10 DEF CallOk
  <2>13. z.clean => z.on \in Conns /\ CleanOk(z, inst[z.on], valid)
    BY <1>1, <1>2, <1>3, <2>9, <2>10 DEF CleanOk
  <2>14. /\ inst' \in [Conns -> FcInst]
         /\ \A c \in Conns : /\ InstanceOk(inst'[c]) /\ inst'[c].is = inst[c].is
                             /\ inst'[c].cred = inst[c].cred
    BY <1>1, <1>2, <2>2, <2>3, <2>4, <2>5, InstanceIsTouched
  <2> QED  BY <1>4, <2>8, <2>11, <2>12, <2>13, <2>14, CallMoves DEF Fetched
<1>5. CASE FetchRejected(k)
  <2>1. PICK y : y = [i EXCEPT !.lock = NoCred]
    OBVIOUS
  <2>2. y \in FcInst
    BY <1>2, <2>1 DEF FcInst
  <2>3. y.is = i.is /\ y.cred = i.cred /\ y.late = i.late /\ y.oauth = i.oauth
    BY <1>2, <2>1 DEF FcInst
  <2>4. inst' = [inst EXCEPT ![m.on] = y]
    BY <1>1, <1>2, <1>5, <2>1 DEF FetchRejected, Releases, FcInv
  <2>5. InstanceOk(y)
    BY <1>2, <2>3 DEF InstanceOk
  <2>6. PICK ans \in {"error", "401"} : ans = IF m.with \in valid THEN "error" ELSE "401"
    OBVIOUS
  <2>7. PICK z : z = [m EXCEPT !.pc = "done", !.ans = ans]
    OBVIOUS
  <2>8. z \in FcCall
    BY <1>1, <2>7 DEF FcCall
  <2>9. z.pc = "done" /\ z.on = m.on /\ z.ans = ans
    BY <1>1, <2>7 DEF FcCall
  <2>10. z.clean = m.clean
    BY <1>1, <2>7 DEF FcCall
  <2>11. fcall' = [fcall EXCEPT ![k] = z]
    BY <1>1, <1>5, <2>6, <2>7 DEF FetchRejected, FcInv
  <2>12. CallOk(z)
    BY <1>1, <1>3, <2>6, <2>9, <2>10 DEF CallOk
  <2>13. z.clean => z.on \in Conns /\ CleanOk(z, inst[z.on], valid)
    BY <1>1, <1>2, <1>3, <2>9, <2>10 DEF CleanOk
  <2>14. /\ inst' \in [Conns -> FcInst]
         /\ \A c \in Conns : /\ InstanceOk(inst'[c]) /\ inst'[c].is = inst[c].is
                             /\ inst'[c].cred = inst[c].cred
    BY <1>1, <1>2, <2>2, <2>3, <2>4, <2>5, InstanceIsTouched
  <2> QED  BY <1>5, <2>8, <2>11, <2>12, <2>13, <2>14, CallMoves DEF FetchRejected
<1> QED  BY <1>4, <1>5

\* The request itself.
LEMMA SendsKeeps ==
  ASSUME FcInv, NEW k \in FCalls, Sends(k)
  PROVE  FcInv'
<1>1. PICK m \in FcCall : m = fcall[k] /\ m.pc \in {"send", "resend"} /\ m.on \in Conns /\ CallOk(m)
  BY DEF FcInv, Sends, CallOk
<1>2. m.clean => CleanOk(m, inst[m.on], valid)
  BY <1>1 DEF FcInv
<1>3. PICK pc \in {"retry", "done"}, ans \in {"none", "ok", "401", "error"} :
        /\ fcall' = [fcall EXCEPT ![k] = [m EXCEPT !.pc = pc, !.ans = ans]]
        /\ ans # "none" => pc = "done"
        /\ ans = "401" => /\ m.pc = "resend" /\ m.tok \notin valid
  <2>0. m.ans = "none"
    BY <1>1 DEF CallOk, FcCall
  <2>1. m = [m EXCEPT !.ans = "none"]
    BY <1>1, <2>0 DEF FcCall
  <2>2. PICK pc \in {"retry", "done"}, ans \in {"none", "ok", "401", "error"} :
          /\ pc = IF inst[m.on].is # "closed" /\ m.tok \notin valid /\ m.pc = "send" THEN "retry" ELSE "done"
          /\ ans = IF inst[m.on].is = "closed" THEN "error"
                   ELSE IF m.tok \in valid THEN "ok"
                   ELSE IF m.pc = "send" THEN "none" ELSE "401"
    OBVIOUS
  <2>3. [m EXCEPT !.pc = "retry"] = [m EXCEPT !.pc = "retry", !.ans = "none"]
    BY <1>1, <2>0 DEF FcCall
  <2>4. fcall' = [fcall EXCEPT ![k] = [m EXCEPT !.pc = pc, !.ans = ans]]
    BY <1>1, <2>2, <2>3 DEF Sends, FcInv
  <2> QED  BY <1>1, <2>2, <2>4
<1>4. PICK z : z = [m EXCEPT !.pc = pc, !.ans = ans]
  OBVIOUS
<1>5. z \in FcCall
  BY <1>1, <1>4 DEF FcCall
<1>6. z.pc = pc /\ z.ans = ans /\ z.on = m.on
  BY <1>1, <1>4 DEF FcCall
<1>7. z.clean = m.clean
  BY <1>1, <1>4 DEF FcCall
<1>8. ans = "401" => ~m.clean
  BY <1>2, <1>3 DEF CleanOk
<1>9. CallOk(z)
  BY <1>1, <1>3, <1>6, <1>7, <1>8 DEF CallOk
<1>10. z.clean => z.on \in Conns /\ CleanOk(z, inst[z.on], valid)
  BY <1>1, <1>2, <1>6, <1>7 DEF CleanOk
<1> QED  BY <1>3, <1>4, <1>5, <1>9, <1>10, CallGoesOn DEF Sends

\* An instance is changed by who connects, disconnects, or closes its clients:
\* calls that were clean on it are so no longer.
LEMMA InstanceChanges ==
  ASSUME FcInv, NEW i \in Conns, NEW y \in FcInst, InstanceOk(y), inst' = [inst EXCEPT ![i] = y],
         y.is # "none", inst[i].is # "none", fcall' = Unclean(i), UNCHANGED valid,
         fcConn' \in [Conns -> FcConnect],
         \A c \in Conns : ConnectOk(fcConn'[c], inst[c]),
         plug' \in Creds, plug' # NoCred => IF plug' = i THEN y.is = "up" ELSE plug' = plug
  PROVE  FcInv'
<1>1. /\ plug' \in Creds /\ valid' \subseteq Conns /\ inst' \in [Conns -> FcInst]
      /\ fcConn' \in [Conns -> FcConnect]
  BY DEF FcInv
<1>2. PICK w \in BOOLEAN : w = FALSE
  OBVIOUS
<1>3. \A k \in FCalls : /\ fcall'[k] \in FcCall /\ CallOk(fcall'[k])
                        /\ fcall[k].on # i => fcall'[k] = fcall[k]
                        /\ fcall[k].on = i => ~fcall'[k].clean
  <2> SUFFICES ASSUME NEW k \in FCalls
               PROVE  /\ fcall'[k] \in FcCall /\ CallOk(fcall'[k])
                      /\ fcall[k].on # i => fcall'[k] = fcall[k]
                      /\ fcall[k].on = i => ~fcall'[k].clean
    OBVIOUS
  <2>1. PICK m \in FcCall : m = fcall[k] /\ CallOk(m)
    BY DEF FcInv
  <2>2. PICK z : z = [m EXCEPT !.clean = w]
    OBVIOUS
  <2>3. fcall'[k] = IF m.on = i THEN z ELSE m
    BY <1>2, <2>1, <2>2 DEF Unclean
  <2>4. z \in FcCall
    BY <2>1, <2>2 DEF FcCall
  <2>5. z.pc = m.pc /\ z.on = m.on /\ z.ans = m.ans
    BY <2>1, <2>2 DEF FcCall
  <2>6. z.clean = w
    BY <2>1, <2>2 DEF FcCall
  <2>7. CallOk(z)
    BY <1>2, <2>1, <2>5, <2>6 DEF CallOk
  <2> QED  BY <1>2, <2>1, <2>3, <2>4, <2>6, <2>7
<1>4. fcall' \in [FCalls -> FcCall]
  BY <1>3 DEF Unclean
<1>5. plug' # NoCred => inst'[plug'].is = "up"
  BY DEF FcInv, Creds
<1>6. ASSUME NEW c \in Conns PROVE InstanceOk(inst'[c]) /\ ConnectOk(fcConn'[c], inst'[c])
  BY <1>6 DEF FcInv, ConnectOk
<1>7. ASSUME NEW j \in FCalls, fcall'[j].clean
      PROVE  fcall'[j].on \in Conns /\ CleanOk(fcall'[j], inst'[fcall'[j].on], valid')
  <2>1. fcall[j].on # i /\ fcall'[j] = fcall[j]
    BY <1>3, <1>7
  <2>2. fcall[j].on \in Conns /\ CleanOk(fcall[j], inst[fcall[j].on], valid)
    BY <1>7, <2>1 DEF FcInv
  <2>3. inst'[fcall[j].on] = inst[fcall[j].on]
    BY <2>1, <2>2 DEF FcInv
  <2> QED  BY <2>1, <2>2, <2>3
<1> QED  BY <1>1, <1>3, <1>4, <1>5, <1>6, <1>7 DEF FcInv

\* A connect call begins or ends without an instance of its own.
LEMMA ConnectMoves ==
  ASSUME FcInv, NEW c \in Conns, NEW y \in FcConnect, fcConn' = [fcConn EXCEPT ![c] = y],
         y.pc # "done" => fcConn[c].pc # "done", y.mgr = "open" => y.pc = "mint"
  PROVE  /\ fcConn' \in [Conns -> FcConnect]
         /\ \A d \in Conns : ConnectOk(fcConn'[d], inst[d])
<1>1. fcConn' \in [Conns -> FcConnect]
  BY DEF FcInv
<1>2. ASSUME NEW d \in Conns PROVE ConnectOk(fcConn'[d], inst[d])
  BY <1>2 DEF FcInv, ConnectOk
<1> QED  BY <1>1, <1>2

\* Only connect calls change.
LEMMA ConnectsKeep ==
  ASSUME FcInv, fcConn' \in [Conns -> FcConnect], \A d \in Conns : ConnectOk(fcConn'[d], inst[d]),
         UNCHANGED <<plug, inst, fcall, valid>>
  PROVE  FcInv'
  BY DEF FcInv

\* A connect call begins, or fails.
LEMMA ConnectBeginsKeeps ==
  ASSUME FcInv, NEW c \in Conns,
         ConnectBegins(c) \/ (/\ fcConn[c].pc = "mint" /\ RegisterFails(c)
                              /\ UNCHANGED <<plug, inst, fcall, valid>>)
  PROVE  FcInv'
<1>1. PICK m \in FcConnect : m = fcConn[c] /\ m.pc # "done"
  BY DEF FcInv, ConnectBegins
<1>2. CASE ConnectBegins(c)
  <2>1. PICK y : y = [m EXCEPT !.pc = "mint", !.found = plug, !.mgr = "open"]
    OBVIOUS
  <2>2. y \in FcConnect /\ y.pc = "mint" /\ y.mgr = "open"
    BY <1>1, <2>1 DEF FcConnect, FcInv
  <2>3. fcConn' = [fcConn EXCEPT ![c] = y] /\ UNCHANGED <<plug, inst, fcall, valid>>
    BY <1>1, <1>2, <2>1 DEF ConnectBegins, FcInv
  <2>4. /\ fcConn' \in [Conns -> FcConnect]
        /\ \A d \in Conns : ConnectOk(fcConn'[d], inst[d])
    BY <1>1, <2>2, <2>3, ConnectMoves
  <2> QED  BY <2>3, <2>4, ConnectsKeep
<1>3. CASE RegisterFails(c) /\ UNCHANGED <<plug, inst, fcall, valid>>
  <2>1. PICK y : y = [m EXCEPT !.pc = "done", !.ans = "failed", !.mgr = "none"]
    OBVIOUS
  <2>2. y \in FcConnect /\ y.pc = "done" /\ y.mgr = "none"
    BY <1>1, <2>1 DEF FcConnect
  <2>3. fcConn' = [fcConn EXCEPT ![c] = y]
    BY <1>1, <1>3, <2>1 DEF RegisterFails, FcInv
  <2>4. /\ fcConn' \in [Conns -> FcConnect]
        /\ \A d \in Conns : ConnectOk(fcConn'[d], inst[d])
    BY <1>1, <2>2, <2>3, ConnectMoves
  <2> QED  BY <1>3, <2>4, ConnectsKeep
<1> QED  BY <1>2, <1>3

\* The credentials are good: they go to the instance found, to a new one, or
\* nowhere.
LEMMA MintedKeeps ==
  ASSUME FcInv, NEW c \in Conns, Minted(c)
  PROVE  FcInv'
<1>1. PICK m \in FcConnect : m = fcConn[c] /\ m.pc = "mint" /\ inst[c].is = "none"
  BY DEF FcInv, Minted, ConnectOk
<1>2. m.found \in Creds
  BY <1>1 DEF FcConnect
<1>3. CASE m.found # NoCred
  <2>1. m.found \in Conns
    BY <1>2, <1>3 DEF Creds
  <2>2. PICK y : y = [m EXCEPT !.pc = "done", !.ans = "updated", !.mgr = "none"]
    OBVIOUS
  <2>3. y \in FcConnect /\ y.pc = "done" /\ y.mgr = "none"
    BY <1>1, <2>2 DEF FcConnect
  <2>4. /\ fcConn' = [fcConn EXCEPT ![c] = y] /\ UpdateCredentials(m.found, c)
        /\ UNCHANGED <<plug, valid>>
    BY <1>1, <1>3, <2>2 DEF Minted, FcInv
  <2>5. /\ fcConn' \in [Conns -> FcConnect]
        /\ \A d \in Conns : ConnectOk(fcConn'[d], inst[d])
    BY <1>1, <2>3, <2>4, ConnectMoves
  <2>6. PICK i \in FcInst : i = inst[m.found] /\ InstanceOk(i)
    BY <2>1 DEF FcInv
  <2>7. CASE i.is = "up"
    <3>1. PICK z : z = [i EXCEPT !.cred = c, !.tok = NoCred]
      OBVIOUS
    <3>2. z \in FcInst
      BY <2>6, <3>1 DEF FcInst, Creds
    <3>3. z.is = "up"
      BY <2>6, <2>7, <3>1 DEF FcInst
    <3>4. inst' = [inst EXCEPT ![m.found] = z] /\ fcall' = Unclean(m.found)
      BY <2>1, <2>4, <2>6, <2>7, <3>1 DEF UpdateCredentials, FcInv
    <3>5. InstanceOk(z)
      BY <3>3 DEF InstanceOk
    <3>6. /\ plug' \in Creds
          /\ plug' # NoCred => IF plug' = m.found THEN z.is = "up" ELSE plug' = plug
      BY <2>4, <3>3 DEF FcInv
    <3> QED  BY <2>1, <2>4, <2>5, <2>6, <2>7, <3>2, <3>3, <3>4, <3>5, <3>6, InstanceChanges
  <2>8. CASE i.is # "up"
    <3>1. /\ inst' = inst /\ fcall' = Unclean(m.found)
      BY <2>4, <2>6, <2>8 DEF UpdateCredentials
    <3>2. CASE i.is = "none"
      <4>1. \A k \in FCalls : fcall[k].on = m.found => ~fcall[k].clean
        BY <2>6, <3>2 DEF FcInv, CleanOk
      <4>2. fcall' = fcall
        <5>1. ASSUME NEW k \in FCalls PROVE fcall'[k] = fcall[k]
          <6>1. PICK g \in FcCall : g = fcall[k]
            BY DEF FcInv
          <6>2. CASE g.on = m.found
            <7>1. g.clean = FALSE
              BY <4>1, <6>1, <6>2 DEF FcCall
            <7>2. [g EXCEPT !.clean = FALSE] = g
              BY <6>1, <7>1 DEF FcCall
            <7> QED  BY <3>1, <6>1, <6>2, <7>2 DEF Unclean
          <6>3. CASE g.on # m.found
            BY <3>1, <6>1, <6>3 DEF Unclean
          <6> QED  BY <6>2, <6>3
        <5> QED  BY <3>1, <5>1 DEF Unclean, FcInv
      <4> QED  BY <2>4, <2>5, <3>1, <4>2, ConnectsKeep
    <3>3. CASE i.is # "none"
      <4>1. inst' = [inst EXCEPT ![m.found] = i]
        BY <2>1, <2>6, <3>1 DEF FcInv
      <4>2. /\ plug' \in Creds
            /\ plug' # NoCred => IF plug' = m.found THEN i.is = "up" ELSE plug' = plug
        BY <2>4, <2>6 DEF FcInv
      <4> QED  BY <2>1, <2>4, <2>5, <2>6, <3>1, <3>3, <4>1, <4>2, InstanceChanges
    <3> QED  BY <3>2, <3>3
  <2> QED  BY <2>7, <2>8
<1>4. CASE m.found = NoCred /\ plug # NoCred
  <2>1. RegisterFails(c) /\ UNCHANGED <<plug, inst, fcall, valid>>
    BY <1>1, <1>4 DEF Minted
  <2> QED  BY <1>1, <2>1, ConnectBeginsKeeps
<1>5. CASE m.found = NoCred /\ plug = NoCred
  <2>1. PICK t \in BOOLEAN, f \in BOOLEAN : t = TRUE /\ f = FALSE
    OBVIOUS
  <2>2. PICK z : z = [is |-> "up", cred |-> c, tok |-> c, lock |-> NoCred, oauth |-> t, late |-> f]
    OBVIOUS
  <2>3. z \in FcInst
    BY <2>2 DEF FcInst, Creds
  <2>4. z.is = "up"
    BY <2>2
  <2>5. PICK y : y = [m EXCEPT !.pc = "done", !.ans = "connected", !.mgr = "given"]
    OBVIOUS
  <2>6. y \in FcConnect /\ y.pc = "done" /\ y.mgr = "given"
    BY <1>1, <2>5 DEF FcConnect
  <2>7. /\ plug' = c /\ fcConn' = [fcConn EXCEPT ![c] = y] /\ inst' = [inst EXCEPT ![c] = z]
        /\ UNCHANGED <<fcall, valid>>
    BY <1>1, <1>5, <2>1, <2>2, <2>5 DEF Minted, FcInv
  <2>8. /\ fcConn' \in [Conns -> FcConnect] /\ fcConn'[c] = y
        /\ \A d \in Conns : ConnectOk(fcConn'[d], inst[d])
    <3>1. fcConn'[c] = y
      BY <2>7 DEF FcInv
    <3> QED  BY <1>1, <2>6, <2>7, <3>1, ConnectMoves
  <2>9. /\ plug' \in Creds /\ valid' \subseteq Conns /\ inst' \in [Conns -> FcInst]
        /\ fcall' \in [FCalls -> FcCall] /\ inst'[plug'].is = "up"
    BY <2>3, <2>4, <2>7 DEF FcInv, Creds
  <2>10. ASSUME NEW d \in Conns PROVE InstanceOk(inst'[d]) /\ ConnectOk(fcConn'[d], inst'[d])
    BY <2>4, <2>6, <2>7, <2>8, <2>10 DEF FcInv, ConnectOk, InstanceOk
  <2>11. ASSUME NEW j \in FCalls, fcall'[j].clean
         PROVE  fcall'[j].on \in Conns /\ CleanOk(fcall'[j], inst'[fcall'[j].on], valid')
    <3>1. fcall[j].on \in Conns /\ CleanOk(fcall[j], inst[fcall[j].on], valid)
      BY <2>7, <2>11 DEF FcInv
    <3>2. fcall[j].on # c
      BY <1>1, <3>1 DEF CleanOk
    <3>3. inst'[fcall[j].on] = inst[fcall[j].on]
      BY <2>7, <3>1, <3>2 DEF FcInv
    <3> QED  BY <2>7, <3>1, <3>3
  <2>12. \A j \in FCalls : CallOk(fcall'[j])
    BY <2>7 DEF FcInv
  <2> QED  BY <2>8, <2>9, <2>10, <2>11, <2>12 DEF FcInv
<1> QED  BY <1>3, <1>4, <1>5

\* An instance goes, out of the table and then with its clients.
LEMMA InstanceGoes ==
  ASSUME FcInv, Disconnect \/ \E i \in Conns : ClosesClients(i)
  PROVE  FcInv'
<1>1. CASE Disconnect
  <2>1. plug \in Conns /\ inst[plug].is = "up"
    BY <1>1 DEF Disconnect, FcInv, Creds
  <2>2. PICK i \in FcInst : i = inst[plug]
    BY <2>1 DEF FcInv
  <2>3. PICK y : y = [i EXCEPT !.is = "closing"]
    OBVIOUS
  <2>4. y \in FcInst
    BY <2>2, <2>3 DEF FcInst
  <2>5. y.is = "closing"
    BY <2>2, <2>3 DEF FcInst
  <2>6. /\ inst' = [inst EXCEPT ![plug] = y] /\ fcall' = Unclean(plug)
        /\ plug' = NoCred /\ UNCHANGED <<fcConn, valid>>
    BY <1>1, <2>1, <2>2, <2>3 DEF Disconnect, FcInv
  <2>7. InstanceOk(y)
    BY <2>5 DEF InstanceOk
  <2>8. /\ fcConn' \in [Conns -> FcConnect] /\ plug' \in Creds
        /\ \A c \in Conns : ConnectOk(fcConn'[c], inst[c])
    BY <2>6 DEF FcInv, Creds
  <2> QED  BY <2>1, <2>4, <2>5, <2>6, <2>7, <2>8, InstanceChanges
<1>2. ASSUME NEW i \in Conns, ClosesClients(i)
      PROVE  FcInv'
  <2>1. PICK r \in FcInst : r = inst[i] /\ r.is = "closing"
    BY <1>2 DEF FcInv, ClosesClients
  <2>2. PICK f \in BOOLEAN : f = FALSE
    OBVIOUS
  <2>3. PICK y : y = [r EXCEPT !.is = "closed", !.oauth = f]
    OBVIOUS
  <2>4. y \in FcInst
    BY <2>1, <2>3 DEF FcInst
  <2>5. y.is = "closed"
    BY <2>1, <2>3 DEF FcInst
  <2>6. y.oauth = f
    BY <2>1, <2>3 DEF FcInst
  <2>7. /\ inst' = [inst EXCEPT ![i] = y] /\ UNCHANGED <<plug, fcConn, fcall, valid>>
    BY <1>2, <2>1, <2>2, <2>3 DEF ClosesClients, FcInv
  <2>8. InstanceOk(y)
    BY <2>2, <2>6 DEF InstanceOk
  <2>9. /\ plug' \in Creds /\ valid' \subseteq Conns /\ inst' \in [Conns -> FcInst]
        /\ fcConn' \in [Conns -> FcConnect] /\ fcall' \in [FCalls -> FcCall]
    BY <2>4, <2>7 DEF FcInv
  <2>10. plug' # NoCred => inst'[plug'].is = "up"
    BY <2>1, <2>7 DEF FcInv, Creds
  <2>11. ASSUME NEW c \in Conns PROVE InstanceOk(inst'[c]) /\ ConnectOk(fcConn'[c], inst'[c])
    BY <2>1, <2>5, <2>7, <2>8, <2>11 DEF FcInv, ConnectOk
  <2>12. ASSUME NEW j \in FCalls, fcall'[j].clean
         PROVE  fcall'[j].on \in Conns /\ CleanOk(fcall'[j], inst'[fcall'[j].on], valid')
    <3>1. fcall[j].on \in Conns /\ CleanOk(fcall[j], inst[fcall[j].on], valid)
      BY <2>7, <2>12 DEF FcInv
    <3>2. fcall[j].on # i
      BY <2>1, <3>1 DEF CleanOk
    <3>3. inst'[fcall[j].on] = inst[fcall[j].on]
      BY <2>7, <3>1, <3>2 DEF FcInv
    <3> QED  BY <2>7, <3>1, <3>3
  <2>13. \A j \in FCalls : CallOk(fcall'[j])
    BY <2>7 DEF FcInv
  <2> QED  BY <2>9, <2>10, <2>11, <2>12, <2>13 DEF FcInv
<1> QED  BY <1>1, <1>2

\* A token expires; credentials are revoked.
LEMMA TokensExpire ==
  ASSUME FcInv, NEW i \in Conns, TokenExpires(i) \/ Revoke(i)
  PROVE  FcInv'
<1>1. CASE TokenExpires(i)
  <2>1. PICK r \in FcInst : r = inst[i] /\ InstanceOk(r)
    BY DEF FcInv
  <2>2. PICK y : y = [r EXCEPT !.tok = NoCred]
    OBVIOUS
  <2>3. y \in FcInst
    BY <2>1, <2>2 DEF FcInst, Creds
  <2>4. y.is = r.is /\ y.cred = r.cred /\ y.late = r.late /\ y.oauth = r.oauth
    BY <2>1, <2>2 DEF FcInst
  <2>5. /\ inst' = [inst EXCEPT ![i] = y] /\ UNCHANGED <<plug, fcConn, fcall, valid>>
    BY <1>1, <2>1, <2>2 DEF TokenExpires, FcInv
  <2>6. InstanceOk(y)
    BY <2>1, <2>4 DEF InstanceOk
  <2>7. /\ inst' \in [Conns -> FcInst]
        /\ \A c \in Conns : /\ InstanceOk(inst'[c]) /\ inst'[c].is = inst[c].is
                            /\ inst'[c].cred = inst[c].cred
    BY <2>1, <2>3, <2>4, <2>5, <2>6, InstanceIsTouched
  <2>8. plug' # NoCred => inst'[plug'].is = "up"
    BY <2>5, <2>7 DEF FcInv, Creds
  <2>9. \A c \in Conns : InstanceOk(inst'[c]) /\ ConnectOk(fcConn'[c], inst'[c])
    BY <2>5, <2>7 DEF FcInv, ConnectOk
  <2>10. \A j \in FCalls : fcall'[j].clean =>
           fcall'[j].on \in Conns /\ CleanOk(fcall'[j], inst'[fcall'[j].on], valid')
    BY <2>5, <2>7 DEF FcInv, CleanOk
  <2> QED  BY <2>5, <2>7, <2>8, <2>9, <2>10 DEF FcInv
<1>2. CASE Revoke(i)
  <2>1. valid' = valid \ {i} /\ UNCHANGED <<plug, inst, fcConn, fcall>>
    BY <1>2 DEF Revoke
  <2>2. \A c \in Conns : inst[c].is = "up" => inst[c].cred # i
    BY <1>2 DEF Revoke
  <2>3. \A j \in FCalls : fcall'[j].clean =>
          fcall'[j].on \in Conns /\ CleanOk(fcall'[j], inst'[fcall'[j].on], valid')
    BY <2>1, <2>2 DEF FcInv, CleanOk
  <2> QED  BY <2>1, <2>3 DEF FcInv
<1> QED  BY <1>1, <1>2

\* Every step keeps the invariant.
LEMMA FcNextKeeps ==
  ASSUME FcInv, [FcNext]_fcVars
  PROVE  FcInv'
<1>1. CASE UNCHANGED fcVars
  BY <1>1 DEF fcVars, FcInv
<1>2. ASSUME NEW c \in Conns, MintRejected(c)
      PROVE  FcInv'
  <2>1. /\ fcConn[c].pc = "mint" /\ RegisterFails(c)
        /\ UNCHANGED <<plug, inst, fcall, valid>>
    BY <1>2 DEF MintRejected, RegisterFails
  <2> QED  BY <2>1, ConnectBeginsKeeps
<1>3. ASSUME NEW k \in FCalls, Remints(k)
      PROVE  FcInv'
  BY <1>3, FetchStarts DEF Remints, MintsAgain
<1>4. ASSUME NEW k \in FCalls, CallStep(k)
      PROVE  FcInv'
  BY <1>3, <1>4, GetsTokenKeeps, FetchEnds, SendsKeeps DEF CallStep
<1> QED  BY <1>1, <1>2, <1>4, ApiCallKeeps, ConnectBeginsKeeps, MintedKeeps, InstanceGoes,
            TokensExpire DEF FcNext

\* Nothing is connected yet.
LEMMA FcStarts ==
  ASSUME FcInit
  PROVE  FcInv
<1>1. PICK f \in BOOLEAN : f = FALSE
  OBVIOUS
<1>2. PICK i : i = [is |-> "none", cred |-> NoCred, tok |-> NoCred, lock |-> NoCred,
                    oauth |-> f, late |-> f]
  OBVIOUS
<1>3. PICK m : m = [pc |-> "idle", found |-> NoCred, mgr |-> "none", ans |-> "none"]
  OBVIOUS
<1>4. PICK g : g = [pc |-> "idle", on |-> NoCred, tok |-> NoCred, with |-> NoCred,
                    clean |-> f, ans |-> "none"]
  OBVIOUS
<1>5. i \in FcInst /\ m \in FcConnect
  BY <1>2, <1>3 DEF FcInst, FcConnect, Creds
<1>6. g \in FcCall
  BY <1>4 DEF FcCall, Creds
<1>7. i.is = "none" /\ m.mgr = "none" /\ g.pc = "idle" /\ g.ans = "none"
  BY <1>2, <1>3, <1>4
<1>8. ~g.clean
  BY <1>1, <1>4
<1>9. /\ inst = [c \in Conns |-> i] /\ fcConn = [c \in Conns |-> m] /\ fcall = [k \in FCalls |-> g]
      /\ plug = NoCred /\ valid \subseteq Conns
  BY <1>1, <1>2, <1>3, <1>4 DEF FcInit
<1>10. InstanceOk(i) /\ ConnectOk(m, i) /\ CallOk(g)
  BY <1>7 DEF InstanceOk, ConnectOk, CallOk
<1> QED  BY <1>5, <1>6, <1>8, <1>9, <1>10 DEF FcInv, Creds

\* A call whose credentials were good throughout is never told they are bad, and
\* credentials are held no longer than needed, however connects, disconnects and
\* calls interleave.
THEOREM FacilityCallsAreSound == FcSpec => [](FcTypeOK /\ GoodIsNotRejected /\ ManagersAreHeld)
<1>1. FcInv => FcTypeOK
  BY DEF FcInv, FcTypeOK, FcInst, FcConnect, FcCall
<1>2. FcInv => GoodIsNotRejected /\ ManagersAreHeld
  BY DEF FcInv, GoodIsNotRejected, ManagersAreHeld, InstanceOk, ConnectOk, CallOk
<1> QED  BY <1>1, <1>2, FcStarts, FcNextKeeps, PTL DEF FcSpec

-----------------------------------------------------------------------------
(***************************************************************************)
(* Cached answers about queues (QueueCache).                               *)
(***************************************************************************)

\* An entry was read from the scheduler before it was stored, and no longer
\* before than a collection takes.
EntriesSound ==
  \A k \in QKeys : cache[k].held => /\ cache[k].snap <= cache[k].stamp
                                    /\ cache[k].stamp <= clock
                                    /\ cache[k].stamp <= cache[k].snap + MaxCollect

\* A query that is under way began within the time a collection takes, and
\* what it brings back is of a moment since.
QuerySound(q) ==
  /\ q.at # "idle" => /\ q.key \in QKeys /\ q.began <= clock
                      /\ clock <= q.began + MaxCollect
  /\ q.at = "collected" => q.began <= q.snap /\ q.snap <= clock

QcInv == /\ QcTypeOK /\ AnswersAreRecent /\ ForcedIsFresh
         /\ EntriesSound /\ \A c \in QCalls : QuerySound(query[c])

QcQuery == [at : {"idle", "collecting", "collected"}, key : QKeys \cup {""}, forced : BOOLEAN,
            began : Clock, snap : Clock]

\* Moments are numbers.
LEMMA ClockFacts == Clock \subseteq Nat /\ 0 \in Clock /\ \A n \in Nat : n < Horizon => n + 1 \in Clock
BY QueueConstants DEF Clock

\* The types, one value at a time.
LEMMA QcTypes ==
  ASSUME QcTypeOK
  PROVE  /\ clock \in Clock /\ clock \in Nat
         /\ \A k \in QKeys : /\ cache[k].snap \in Clock /\ cache[k].stamp \in Clock
                             /\ cache[k].snap \in Nat /\ cache[k].stamp \in Nat
         /\ \A c \in QCalls : /\ query[c] \in QcQuery /\ query[c].began \in Nat
                              /\ query[c].snap \in Nat
<1>1. clock \in Clock /\ \A c \in QCalls : query[c] \in QcQuery
  BY DEF QcTypeOK, QcQuery
<1>2. \A k \in QKeys : cache[k] \in [snap : Clock, stamp : Clock, held : BOOLEAN]
  BY DEF QcTypeOK
<1>3. \A c \in QCalls : query[c].began \in Clock /\ query[c].snap \in Clock
  BY <1>1 DEF QcQuery
<1> QED  BY <1>1, <1>2, <1>3, ClockFacts

\* One query moves: the others are as sound as they were.
LEMMA OneQuery ==
  ASSUME QcInv, clock' = clock, NEW c \in QCalls, NEW q \in QcQuery,
         query' = [query EXCEPT ![c] = q], QuerySound(q)
  PROVE  query' \in [QCalls -> QcQuery] /\ \A d \in QCalls : QuerySound(query[d])'
<1>1. query \in [QCalls -> QcQuery] /\ \A d \in QCalls : QuerySound(query[d])
  BY DEF QcInv, QcTypeOK, QcQuery
<1>2. \A d \in QCalls : query'[d] = IF d = c THEN q ELSE query[d]
  BY <1>1
<1> QED  BY <1>1, <1>2 DEF QuerySound

\* A query that is over says nothing.
LEMMA IdleSound == QueryIdle \in QcQuery /\ QuerySound(QueryIdle)
BY ClockFacts DEF QueryIdle, QcQuery, QuerySound

\* Neither the clock nor a query under way changes entry or answer.
LEMMA CacheStays ==
  ASSUME QcInv, clock' = clock, cache' = cache, answer' = answer,
         query' \in [QCalls -> QcQuery], \A d \in QCalls : QuerySound(query[d])'
  PROVE  QcInv'
BY DEF QcInv, QcTypeOK, AnswersAreRecent, ForcedIsFresh, EntriesSound, QcQuery

\* A hit: the entry is younger than its time to live.
LEMMA HitKeeps ==
  ASSUME QcInv, NEW c \in QCalls, NEW k \in QKeys, Hit(c, k)
  PROVE  QcInv'
<1>1. /\ clock' = clock /\ cache' = cache /\ query' = [query EXCEPT ![c] = QueryIdle]
      /\ answer' = [snap |-> cache[k].snap, began |-> clock, done |-> clock, forced |-> FALSE]
      /\ cache[k].held /\ clock - cache[k].stamp < Ttl
  BY DEF Hit, Answers, Valid, Untouched
<1>2. query' \in [QCalls -> QcQuery] /\ \A d \in QCalls : QuerySound(query[d])'
  BY <1>1, IdleSound, OneQuery
<1>3. /\ clock \in Nat /\ cache[k].snap \in Nat /\ cache[k].stamp \in Nat
      /\ cache[k].snap \in Clock /\ clock \in Clock
  BY QcTypes DEF QcInv
<1>4. cache[k].stamp <= cache[k].snap + MaxCollect
  BY <1>1 DEF QcInv, EntriesSound
<1>5. clock < cache[k].snap + Ttl + MaxCollect
  BY <1>1, <1>3, <1>4, QueueConstants
<1>6. AnswersAreRecent' /\ ForcedIsFresh'
  BY <1>1, <1>5 DEF AnswersAreRecent, ForcedIsFresh
<1>7. QcTypeOK'
  BY <1>1, <1>2, <1>3 DEF QcInv, QcTypeOK, QcQuery
<1> QED  BY <1>1, <1>2, <1>6, <1>7 DEF QcInv, EntriesSound

\* A collector that stores: what it brings is at most a collection old.
LEMMA StoresKeeps ==
  ASSUME QcInv, NEW c \in QCalls, StoresAnswer(c)
  PROVE  QcInv'
<1> DEFINE q == query[c]
           e == [snap |-> q.snap, stamp |-> clock, held |-> TRUE]
<1>1. /\ clock' = clock /\ query' = [query EXCEPT ![c] = QueryIdle]
      /\ cache' = [cache EXCEPT ![q.key] = e] /\ q.at = "collected"
      /\ answer' = [snap |-> q.snap, began |-> q.began, done |-> clock, forced |-> q.forced]
  BY DEF StoresAnswer, Answers
<1>2. query' \in [QCalls -> QcQuery] /\ \A d \in QCalls : QuerySound(query[d])'
  BY <1>1, IdleSound, OneQuery
<1>3. q \in QcQuery /\ QuerySound(q) /\ clock \in Clock
  BY DEF QcInv, QcTypeOK, QcQuery
<1>4. /\ q.key \in QKeys /\ q.began <= q.snap /\ q.snap <= clock
      /\ clock <= q.began + MaxCollect
  BY <1>1, <1>3 DEF QuerySound
<1>5. q.began \in Clock /\ q.snap \in Clock /\ q.forced \in BOOLEAN
  BY <1>3 DEF QcQuery
<1>6. clock <= q.snap + MaxCollect /\ clock < q.snap + Ttl + MaxCollect
  BY <1>3, <1>4, <1>5, QueueConstants DEF Clock
<1>7. \A k \in QKeys : cache'[k] = IF k = q.key THEN e ELSE cache[k]
  BY <1>1 DEF QcInv, QcTypeOK
<1>8. EntriesSound'
  BY <1>1, <1>3, <1>4, <1>5, <1>6, <1>7 DEF QcInv, EntriesSound, Clock
<1>9. AnswersAreRecent' /\ ForcedIsFresh'
  BY <1>1, <1>4, <1>5, <1>6 DEF AnswersAreRecent, ForcedIsFresh, Clock
<1>10. cache' \in [QKeys -> [snap : Clock, stamp : Clock, held : BOOLEAN]]
  <2>1. e \in [snap : Clock, stamp : Clock, held : BOOLEAN]
    BY <1>3, <1>5
  <2> QED  BY <1>1, <2>1 DEF QcInv, QcTypeOK
<1>11. answer' \in [snap : Clock, began : Clock, done : Clock, forced : BOOLEAN]
  BY <1>1, <1>3, <1>5
<1> QED  BY <1>1, <1>2, <1>3, <1>8, <1>9, <1>10, <1>11 DEF QcInv, QcTypeOK, QcQuery

\* Every step keeps the invariant.
LEMMA QcNextKeeps ==
  ASSUME QcInv, [QcNext]_qcVars
  PROVE  QcInv'
<1>1. ASSUME NEW c \in QCalls, NEW k \in QKeys, NEW force \in BOOLEAN, Miss(c, k, force)
      PROVE  QcInv'
  <2> DEFINE q == [at |-> "collecting", key |-> k, forced |-> force, began |-> clock, snap |-> 0]
  <2>1. clock \in Clock /\ clock \in Nat /\ 0 \in Clock /\ clock <= clock + MaxCollect
    BY QcTypes, ClockFacts, QueueConstants DEF QcInv
  <2>2. q \in QcQuery /\ QuerySound(q)
    <3>1. q \in QcQuery
      BY <2>1 DEF QcQuery
    <3>2. q.at = "collecting" /\ q.key = k /\ q.began = clock
      OBVIOUS
    <3> QED  BY <2>1, <3>1, <3>2 DEF QuerySound
  <2>3. query' = [query EXCEPT ![c] = q] /\ UNCHANGED <<clock, cache, answer>>
    BY <1>1 DEF Miss
  <2> QED  BY <2>2, <2>3, OneQuery, CacheStays
<1>2. ASSUME NEW c \in QCalls, Collects(c)
      PROVE  QcInv'
  <2> DEFINE q == [query[c] EXCEPT !.at = "collected", !.snap = clock]
  <2>1. query[c] \in QcQuery /\ QuerySound(query[c]) /\ clock \in Clock /\ clock \in Nat
    BY QcTypes DEF QcInv
  <2>2. /\ query[c].at = "collecting" /\ UNCHANGED <<clock, cache, answer>>
        /\ query' = [query EXCEPT ![c].at = "collected", ![c].snap = clock]
    BY <1>2 DEF Collects
  <2>3. query' = [query EXCEPT ![c] = q]
    BY <2>2 DEF QcInv, QcTypeOK
  <2>4. q \in QcQuery /\ QuerySound(q)
    <3>1. q \in QcQuery
      BY <2>1 DEF QcQuery
    <3>2. q.at = "collected" /\ q.key = query[c].key /\ q.began = query[c].began /\ q.snap = clock
      BY <2>1 DEF QcQuery
    <3> QED  BY <2>1, <2>2, <3>1, <3>2 DEF QuerySound
  <2> QED  BY <2>2, <2>3, <2>4, OneQuery, CacheStays
<1>3. ASSUME NEW c \in QCalls, CollectFails(c)
      PROVE  QcInv'
  <2>1. query' = [query EXCEPT ![c] = QueryIdle] /\ UNCHANGED <<clock, cache, answer>>
    BY <1>3 DEF CollectFails
  <2> QED  BY <2>1, IdleSound, OneQuery, CacheStays
<1>4. CASE ClockTicks
  <2>1. /\ clock \in Nat /\ clock < Horizon /\ clock' = clock + 1 /\ UNCHANGED <<cache, query, answer>>
        /\ \A c \in QCalls : query[c].at # "idle" => clock - query[c].began < MaxCollect
    BY <1>4, QcTypes DEF ClockTicks, QcInv
  <2>2. ASSUME NEW c \in QCalls
        PROVE  QuerySound(query[c])'
    <3>1. QuerySound(query[c]) /\ query[c].began \in Nat /\ query[c].snap \in Nat
      BY QcTypes DEF QcInv
    <3> QED  BY <2>1, <3>1, QueueConstants DEF QuerySound
  <2>3. EntriesSound'
    <3>1. \A k \in QKeys : cache[k].stamp \in Nat /\ cache[k].snap \in Nat
      BY QcTypes DEF QcInv
    <3> QED  BY <2>1, <3>1 DEF QcInv, EntriesSound
  <2>4. clock' \in Clock
    BY <2>1, ClockFacts
  <2> QED  BY <2>1, <2>2, <2>3, <2>4 DEF QcInv, QcTypeOK, AnswersAreRecent, ForcedIsFresh
<1>5. CASE UNCHANGED qcVars
  BY <1>5 DEF qcVars, QcInv, QcTypeOK, AnswersAreRecent, ForcedIsFresh, EntriesSound, QuerySound
<1> QED  BY <1>1, <1>2, <1>3, <1>4, <1>5, HitKeeps, StoresKeeps DEF QcNext

\* It holds at first.
LEMMA QcInitSound == QcInit => QcInv
<1> SUFFICES ASSUME QcInit
             PROVE  QcInv
  OBVIOUS
<1>1. /\ clock \in Clock /\ cache \in [QKeys -> [snap : Clock, stamp : Clock, held : BOOLEAN]]
      /\ answer \in [snap : Clock, began : Clock, done : Clock, forced : BOOLEAN]
      /\ EntriesSound
  BY ClockFacts DEF QcInit, EntriesSound, Nothing, NoAnswer
<1>2. query \in [QCalls -> QcQuery] /\ \A c \in QCalls : QuerySound(query[c])
  BY IdleSound DEF QcInit
<1>3. AnswersAreRecent /\ ForcedIsFresh
  BY QueueConstants DEF QcInit, AnswersAreRecent, ForcedIsFresh, NoAnswer
<1> QED  BY <1>1, <1>2, <1>3 DEF QcInv, QcTypeOK, QcQuery

\* An answer shows the scheduler as it was less than one time to live and one
\* collection before, and a forced one as it was since: for any keys, threads
\* and times (_get_cached, get_info with force).
THEOREM AnswersAreSound == QcSpec => [](QcTypeOK /\ AnswersAreRecent /\ ForcedIsFresh)
<1>1. QcInv => QcTypeOK /\ AnswersAreRecent /\ ForcedIsFresh
  BY DEF QcInv
<1> QED  BY <1>1, QcInitSound, QcNextKeeps, PTL DEF QcSpec

-----------------------------------------------------------------------------
(***************************************************************************)
(* The stream of events of the gateway (GatewayEvents).                    *)
(***************************************************************************)

ViewRec == [topo: -1..MaxTopo, events: Seq(1..MaxEvents)]
StreamsTyped ==
  /\ nevent \in 0..MaxEvents /\ ntopo \in 0..MaxTopo
  /\ handed \in Seq(Frames) /\ sse \subseteq Browsers
  /\ gwGen \in [Browsers -> {"away", "made", "waiting", "sending", "gone"}]
  /\ gwBuf \in [Browsers -> Seq(Frames)]
  /\ view \in [Browsers -> ViewRec]
  /\ wake \in [Browsers -> BOOLEAN] /\ lost \in [Browsers -> BOOLEAN]
  /\ since \in [Browsers -> 0..MaxEvents]
  /\ \A b \in Browsers : Len(gwBuf[b]) <= Depth

\* No event of p comes after one of q.
Ahead(p, q) ==
  \A i \in 1..Len(p), j \in 1..Len(q) :
    p[i][1] = "event" /\ q[j][1] = "event" => p[i][2] < q[j][2]

\* What is handed over are events that the tap saw.
HandedSound == \A i \in 1..Len(handed) : handed[i][1] = "event" /\ handed[i][2] <= nevent

\* The last topology in q is the current one; q has none.
EndsCurrent(q) ==
  \E i \in 1..Len(q) : /\ q[i] = <<"topology", ntopo>>
                       /\ \A j \in i + 1..Len(q) : q[j][1] = "event"
OnlyEvents(q) == \A i \in 1..Len(q) : q[i][1] = "event"

\* Of a client that is served: the three parts of its line follow each other,
\* no event is missing from all of them, and the topology is coming or there.
LineOrdered(b) ==
  /\ Rising(Seen(b)) /\ Rising(gwBuf[b])
  /\ Ahead(Seen(b), gwBuf[b]) /\ Ahead(Seen(b), handed) /\ Ahead(gwBuf[b], handed)
  /\ \A i \in 1..Len(gwBuf[b]) : gwBuf[b][i][1] = "event" => gwBuf[b][i][2] <= nevent
  /\ \A i \in 1..Len(Seen(b)) : Seen(b)[i][2] <= nevent
LineComplete(b) ==
  \A n \in since[b] + 1..nevent : Holds(n, Seen(b)) \/ Holds(n, gwBuf[b]) \/ Holds(n, handed)
TopologyComing(b) ==
  EndsCurrent(gwBuf[b]) \/ (OnlyEvents(gwBuf[b]) /\ view[b].topo = ntopo)
LineSound(b) ==
  /\ LineOrdered(b) /\ b \in sse
  /\ ~lost[b] => LineComplete(b) /\ TopologyComing(b)

GtInv ==
  /\ StreamsTyped /\ HandedSound /\ Rising(handed)
  /\ \A b \in Browsers : gwGen[b] = "away" => view[b].events = <<>>
  /\ \A b \in Browsers : Served(b) => LineSound(b)

\* A frame is a topology or an event.
LEMMA FrameIs ==
  ASSUME NEW f \in Frames
  PROVE  /\ f = <<f[1], f[2]>> /\ f[1] \in {"topology", "event"} /\ f[2] \in Nat
         /\ f[1] = "event" => f[2] \in 1..MaxEvents
         /\ f[1] = "topology" => f[2] \in 0..MaxTopo
BY GatewayConstants DEF Frames

\* Events n of the tap and topologies are frames.
LEMMA AreFrames ==
  /\ \A n \in 1..MaxEvents : <<"event", n>> \in Frames
  /\ \A n \in 0..MaxTopo : <<"topology", n>> \in Frames
BY DEF Frames

\* Two sequences of frames as one.
LEMMA JoinedParts ==
  ASSUME NEW p \in Seq(Frames), NEW q \in Seq(Frames), Rising(p), Rising(q), Ahead(p, q)
  PROVE  /\ p \o q \in Seq(Frames) /\ Rising(p \o q)
         /\ \A n \in Nat : Holds(n, p) \/ Holds(n, q) => Holds(n, p \o q)
         /\ \A r \in Seq(Frames) : Ahead(p, r) /\ Ahead(q, r) => Ahead(p \o q, r)
<1>a. /\ p \o q \in Seq(Frames) /\ Len(p \o q) = Len(p) + Len(q)
      /\ \A i \in 1..Len(p) : (p \o q)[i] = p[i]
      /\ \A i \in Len(p) + 1..Len(p \o q) : (p \o q)[i] = q[i - Len(p)]
  BY ConcatFacts
<1> SUFFICES ASSUME NEW s \in Seq(Frames), Len(s) = Len(p) + Len(q),
                    \A i \in 1..Len(p) : s[i] = p[i],
                    \A i \in Len(p) + 1..Len(s) : s[i] = q[i - Len(p)]
             PROVE  /\ Rising(s)
                    /\ \A n \in Nat : Holds(n, p) \/ Holds(n, q) => Holds(n, s)
                    /\ \A r \in Seq(Frames) : Ahead(p, r) /\ Ahead(q, r) => Ahead(s, r)
  BY <1>a
<1>0. Len(p) \in Nat /\ Len(q) \in Nat /\ \A i \in Len(p) + 1..Len(s) : i - Len(p) \in 1..Len(q)
  OBVIOUS
<1>1. Rising(s)
  <2> SUFFICES ASSUME NEW i \in 1..Len(s), NEW j \in 1..Len(s), i < j,
                      s[i][1] = "event", s[j][1] = "event"
               PROVE  s[i][2] < s[j][2]
    BY DEF Rising
  <2>1. CASE j <= Len(p)
    <3>1. i \in 1..Len(p) /\ j \in 1..Len(p) /\ s[i] = p[i] /\ s[j] = p[j]
      BY <2>1, <1>0
    <3> QED  BY <3>1 DEF Rising
  <2>2. CASE i > Len(p)
    <3>1. i - Len(p) \in 1..Len(q) /\ j - Len(p) \in 1..Len(q) /\ i - Len(p) < j - Len(p)
      BY <1>0, <2>2
    <3>2. s[i] = q[i - Len(p)] /\ s[j] = q[j - Len(p)]
      BY <1>0, <2>2
    <3> QED  BY <3>1, <3>2 DEF Rising
  <2>3. CASE i <= Len(p) /\ j > Len(p)
    <3>1. i \in 1..Len(p) /\ j - Len(p) \in 1..Len(q) /\ s[i] = p[i] /\ s[j] = q[j - Len(p)]
      BY <1>0, <2>3
    <3> QED  BY <3>1 DEF Ahead
  <2> QED  BY <2>1, <2>2, <2>3, <1>0
<1>2. ASSUME NEW n \in Nat
      PROVE  Holds(n, p) \/ Holds(n, q) => Holds(n, s)
  <2>1. ASSUME NEW i \in 1..Len(p), p[i] = <<"event", n>>
        PROVE  Holds(n, s)
    <3>1. i \in 1..Len(s) /\ s[i] = p[i]
      BY <1>0
    <3> QED  BY <2>1, <3>1 DEF Holds
  <2>2. ASSUME NEW i \in 1..Len(q), q[i] = <<"event", n>>
        PROVE  Holds(n, s)
    <3>1. i + Len(p) \in Len(p) + 1..Len(s) /\ i + Len(p) \in 1..Len(s) /\ (i + Len(p)) - Len(p) = i
      BY <1>0
    <3>2. s[i + Len(p)] = q[i]
      BY <3>1
    <3> QED  BY <2>2, <3>1, <3>2 DEF Holds
  <2> QED  BY <2>1, <2>2 DEF Holds
<1>3. ASSUME NEW r \in Seq(Frames), Ahead(p, r), Ahead(q, r)
      PROVE  Ahead(s, r)
  <2> SUFFICES ASSUME NEW i \in 1..Len(s), NEW j \in 1..Len(r), s[i][1] = "event", r[j][1] = "event"
               PROVE  s[i][2] < r[j][2]
    BY DEF Ahead
  <2>1. CASE i <= Len(p)
    BY <2>1, <1>0, <1>3 DEF Ahead
  <2>2. CASE i > Len(p)
    <3>1. i - Len(p) \in 1..Len(q) /\ s[i] = q[i - Len(p)]
      BY <1>0, <2>2
    <3> QED  BY <3>1, <1>3 DEF Ahead
  <2> QED  BY <2>1, <2>2, <1>0
<1> QED  BY <1>1, <1>2, <1>3

\* The parts of a line as one.
LEMMA LineOfParts ==
  ASSUME NEW p \in Seq(Frames), NEW q \in Seq(Frames), NEW r \in Seq(Frames),
         Rising(p), Rising(q), Rising(r), Ahead(p, q), Ahead(p, r), Ahead(q, r)
  PROVE  /\ Rising(p \o q \o r)
         /\ \A n \in Nat : Holds(n, p) \/ Holds(n, q) \/ Holds(n, r) => Holds(n, p \o q \o r)
<1> SUFFICES ASSUME NEW s \in Seq(Frames), s = p \o q
             PROVE  /\ Rising(s \o r)
                    /\ \A n \in Nat : Holds(n, p) \/ Holds(n, q) \/ Holds(n, r) => Holds(n, s \o r)
  BY ConcatFacts
<1>1. /\ Rising(s) /\ Ahead(s, r)
      /\ \A n \in Nat : Holds(n, p) \/ Holds(n, q) => Holds(n, s)
  BY JoinedParts
<1>2. Rising(s \o r) /\ \A n \in Nat : Holds(n, s) \/ Holds(n, r) => Holds(n, s \o r)
  BY <1>1, JoinedParts
<1> QED  BY <1>1, <1>2

\* What a client saw, as frames.
LEMMA SeenIs ==
  ASSUME StreamsTyped, NEW b \in Browsers
  PROVE  /\ view[b] \in ViewRec /\ view[b].events \in Seq(1..MaxEvents)
         /\ Seen(b) \in Seq(Frames) /\ Len(Seen(b)) = Len(view[b].events)
         /\ \A i \in 1..Len(Seen(b)) : Seen(b)[i] = <<"event", view[b].events[i]>>
<1>1. view[b] \in ViewRec /\ view[b].events \in Seq(1..MaxEvents)
  BY DEF StreamsTyped, ViewRec
<1>2. \A i \in DOMAIN view[b].events : view[b].events[i] \in 1..MaxEvents
  BY <1>1, SeqElements
<1>3. \A i \in DOMAIN view[b].events : <<"event", view[b].events[i]>> \in Frames
  BY <1>2, AreFrames
<1>4. PICK e : e = view[b].events
  OBVIOUS
<1>5. e \in Seq(1..MaxEvents) /\ DOMAIN e = 1..Len(e) /\ Len(e) \in Nat
  BY <1>1, <1>4
<1>6. Seen(b) = [i \in 1..Len(e) |-> <<"event", e[i]>>]
  BY <1>4, <1>5 DEF Seen
<1>7. \A i \in 1..Len(e) : <<"event", e[i]>> \in Frames
  BY <1>3, <1>4, <1>5
<1>8. Seen(b) \in Seq(Frames) /\ Len(Seen(b)) = Len(e)
  BY <1>5, <1>6, <1>7
<1> QED  BY <1>1, <1>4, <1>6, <1>8

\* The properties follow.
LEMMA GtImplies ==
  ASSUME GtInv
  PROVE  GtTypeOK /\ NoEventMissed /\ TopologyIsCurrent
<1>1. GtTypeOK
  BY DEF GtInv, StreamsTyped, GtTypeOK, ViewRec
<1>2. NoEventMissed
  <2> SUFFICES ASSUME NEW b \in Browsers, Served(b)
               PROVE  /\ Rising(Line(b))
                      /\ ~lost[b] => \A n \in since[b] + 1..nevent : Holds(n, Line(b))
    BY DEF NoEventMissed
  <2>1. Seen(b) \in Seq(Frames) /\ gwBuf[b] \in Seq(Frames) /\ handed \in Seq(Frames)
    BY SeenIs DEF GtInv, StreamsTyped
  <2>2. LineSound(b) /\ Rising(handed)
    BY DEF GtInv
  <2>3. /\ Rising(Line(b))
        /\ \A n \in Nat : Holds(n, Seen(b)) \/ Holds(n, gwBuf[b]) \/ Holds(n, handed)
                            => Holds(n, Line(b))
    BY <2>1, <2>2, LineOfParts DEF LineSound, LineOrdered, Line
  <2>4. since[b] + 1..nevent \subseteq Nat
    BY GatewayConstants DEF GtInv, StreamsTyped
  <2> QED  BY <2>2, <2>3, <2>4 DEF LineSound, LineComplete
<1>3. TopologyIsCurrent
  <2> SUFFICES ASSUME NEW b \in Browsers, gwGen[b] \in {"waiting", "sending"}, gwBuf[b] = <<>>,
                      ~lost[b]
               PROVE  view[b].topo = ntopo
    BY DEF TopologyIsCurrent
  <2>1. TopologyComing(b)
    BY DEF GtInv, Served, LineSound
  <2> QED  BY <2>1 DEF TopologyComing, EndsCurrent
<1> QED  BY <1>1, <1>2, <1>3

\* A frame is pushed: the oldest one may go for it.
LEMMA PushFacts ==
  ASSUME NEW q \in Seq(Frames), NEW f \in Frames, Len(q) <= Depth
  PROVE  /\ Pushed(q, f) \in Seq(Frames) /\ Len(Pushed(q, f)) <= Depth
         /\ Len(q) # Depth => Pushed(q, f) = Append(q, f)
         /\ \E d \in {0, 1} : /\ d <= Len(q) /\ Len(Pushed(q, f)) = Len(q) + 1 - d
                              /\ Pushed(q, f)[Len(q) + 1 - d] = f
                              /\ \A i \in 1..Len(q) - d : Pushed(q, f)[i] = q[i + d]
<1>0. Depth \in Nat \ {0} /\ Len(q) \in Nat
  BY GatewayConstants
<1>1. CASE Len(q) = Depth
  <2>1. q # <<>>
    BY <1>0, <1>1
  <2>2. /\ Tail(q) \in Seq(Frames) /\ Len(Tail(q)) = Len(q) - 1 /\ Len(q) >= 1
        /\ \A i \in 1..Len(q) - 1 : Tail(q)[i] = q[i + 1]
    BY <2>1, TailFacts
  <2>3. /\ Append(Tail(q), f) \in Seq(Frames) /\ Len(Append(Tail(q), f)) = Len(q)
        /\ Append(Tail(q), f)[Len(q)] = f
        /\ \A i \in 1..Len(q) - 1 : Append(Tail(q), f)[i] = Tail(q)[i]
    BY <2>2, AppendFacts
  <2>4. Pushed(q, f) = Append(Tail(q), f)
    BY <1>1 DEF Pushed
  <2> QED  BY <1>0, <1>1, <2>2, <2>3, <2>4
<1>2. CASE Len(q) # Depth
  <2>1. Pushed(q, f) = Append(q, f)
    BY <1>2 DEF Pushed
  <2>2. /\ Append(q, f) \in Seq(Frames) /\ Len(Append(q, f)) = Len(q) + 1
        /\ Append(q, f)[Len(q) + 1] = f /\ \A i \in 1..Len(q) : Append(q, f)[i] = q[i]
    BY AppendFacts, <1>0
  <2> QED  BY <1>0, <1>2, <2>1, <2>2
<1> QED  BY <1>1, <1>2

\* The order in a queue that a frame was pushed to.
LEMMA PushOrder ==
  ASSUME NEW p \in Seq(Frames), NEW q \in Seq(Frames), NEW r \in Seq(Frames), NEW f \in Frames,
         Len(q) <= Depth, NEW g \in Seq(Frames), g = Pushed(q, f),
         Rising(q), Ahead(p, q), Ahead(q, r),
         f[1] = "event" => /\ \A i \in 1..Len(q) : q[i][1] = "event" => q[i][2] < f[2]
                           /\ \A i \in 1..Len(p) : p[i][1] = "event" => p[i][2] < f[2]
                           /\ \A i \in 1..Len(r) : r[i][1] = "event" => f[2] < r[i][2]
  PROVE  Rising(g) /\ Ahead(p, g) /\ Ahead(g, r)
<1>1. PICK d \in {0, 1} : /\ d <= Len(q) /\ Len(g) = Len(q) + 1 - d /\ g[Len(q) + 1 - d] = f
                          /\ \A i \in 1..Len(q) - d : g[i] = q[i + d]
  BY PushFacts
<1>2. Len(q) \in Nat /\ d \in Nat
  OBVIOUS
<1>3. \A i \in 1..Len(g) :
        \/ i = Len(g) /\ g[i] = f
        \/ i < Len(g) /\ i + d \in 1..Len(q) /\ g[i] = q[i + d]
  BY <1>1, <1>2
<1>4. Rising(g)
  <2> SUFFICES ASSUME NEW i \in 1..Len(g), NEW j \in 1..Len(g), i < j,
                      g[i][1] = "event", g[j][1] = "event"
               PROVE  g[i][2] < g[j][2]
    BY DEF Rising
  <2>1. i + d \in 1..Len(q) /\ g[i] = q[i + d]
    BY <1>1, <1>2, <1>3
  <2>2. CASE j = Len(g) /\ g[j] = f
    BY <2>1, <2>2
  <2>3. CASE j + d \in 1..Len(q) /\ g[j] = q[j + d]
    <3>1. i + d < j + d
      BY <1>2
    <3> QED  BY <2>1, <2>3, <3>1 DEF Rising
  <2> QED  BY <1>3, <2>2, <2>3
<1>5. Ahead(p, g)
  BY <1>3 DEF Ahead
<1>6. Ahead(g, r)
  BY <1>3 DEF Ahead
<1> QED  BY <1>4, <1>5, <1>6

\* The first frame of a queue goes.
LEMMA PopFacts ==
  ASSUME NEW q \in Seq(Frames), q # <<>>, NEW g \in Seq(Frames), g = Tail(q)
  PROVE  /\ Len(g) = Len(q) - 1 /\ Len(q) >= 1 /\ Len(q) \in Nat
         /\ \A i \in 1..Len(g) : g[i] = q[i + 1] /\ i + 1 \in 1..Len(q)
         /\ \A i \in 2..Len(q) : q[i] = g[i - 1] /\ i - 1 \in 1..Len(g)
         /\ \A p \in Seq(Frames) : Ahead(p, q) => Ahead(p, g)
         /\ \A r \in Seq(Frames) : Ahead(q, r) => Ahead(g, r)
         /\ OnlyEvents(q) => OnlyEvents(g)
<1>1. /\ Len(g) = Len(q) - 1 /\ Len(q) >= 1 /\ Len(q) \in Nat
      /\ \A i \in 1..Len(q) - 1 : g[i] = q[i + 1]
  BY TailFacts
<1>2. \A i \in 1..Len(g) : g[i] = q[i + 1] /\ i + 1 \in 1..Len(q)
  BY <1>1
<1>3. \A i \in 2..Len(q) : q[i] = g[i - 1] /\ i - 1 \in 1..Len(g)
  <2> SUFFICES ASSUME NEW i \in 2..Len(q)
               PROVE  q[i] = g[i - 1] /\ i - 1 \in 1..Len(g)
    OBVIOUS
  <2>1. i - 1 \in 1..Len(q) - 1 /\ (i - 1) + 1 = i
    BY <1>1
  <2> QED  BY <1>1, <2>1
<1>4. ASSUME NEW p \in Seq(Frames)
      PROVE  /\ Ahead(p, q) => Ahead(p, g)
             /\ Ahead(q, p) => Ahead(g, p)
  BY <1>2 DEF Ahead
<1>5. OnlyEvents(q) => OnlyEvents(g)
  BY <1>2 DEF OnlyEvents
<1> QED  BY <1>1, <1>2, <1>3, <1>4, <1>5

\* What is left rises still, from above the frame that went.
LEMMA PopRises ==
  ASSUME NEW q \in Seq(Frames), q # <<>>, NEW g \in Seq(Frames), g = Tail(q), Rising(q)
  PROVE  /\ Rising(g)
         /\ \A n \in Nat : Holds(n, q) => Holds(n, g) \/ q[1] = <<"event", n>>
         /\ q[1][1] = "event" => \A i \in 1..Len(g) : g[i][1] = "event" => q[1][2] < g[i][2]
<1>1. /\ Len(g) = Len(q) - 1 /\ Len(q) >= 1 /\ Len(q) \in Nat
      /\ \A i \in 1..Len(g) : g[i] = q[i + 1] /\ i + 1 \in 1..Len(q)
      /\ \A i \in 2..Len(q) : q[i] = g[i - 1] /\ i - 1 \in 1..Len(g)
  BY PopFacts
<1>2. Rising(g)
  <2> SUFFICES ASSUME NEW i \in 1..Len(g), NEW j \in 1..Len(g), i < j,
                      g[i][1] = "event", g[j][1] = "event"
               PROVE  g[i][2] < g[j][2]
    BY DEF Rising
  <2>1. i + 1 < j + 1 /\ i + 1 \in 1..Len(q) /\ j + 1 \in 1..Len(q)
        /\ g[i] = q[i + 1] /\ g[j] = q[j + 1]
    BY <1>1
  <2> QED  BY <2>1 DEF Rising
<1>3. ASSUME NEW n \in Nat, Holds(n, q), q[1] # <<"event", n>>
      PROVE  Holds(n, g)
  <2>1. PICK i \in 1..Len(q) : q[i] = <<"event", n>>
    BY <1>3 DEF Holds
  <2>2. i \in 2..Len(q)
    BY <1>1, <1>3, <2>1
  <2> QED  BY <1>1, <2>1, <2>2 DEF Holds
<1>4. q[1][1] = "event" => \A i \in 1..Len(g) : g[i][1] = "event" => q[1][2] < g[i][2]
  <2> SUFFICES ASSUME NEW i \in 1..Len(g), q[1][1] = "event", g[i][1] = "event"
               PROVE  q[1][2] < g[i][2]
    OBVIOUS
  <2>1. 1 < i + 1 /\ 1 \in 1..Len(q) /\ i + 1 \in 1..Len(q) /\ g[i] = q[i + 1]
    BY <1>1
  <2> QED  BY <2>1 DEF Rising
<1> QED  BY <1>2, <1>3, <1>4

\* A frame is pushed to every registered queue: the next event in line, or the
\* topology that is the broker's from now on.
LEMMA PushKeeps ==
  ASSUME GtInv, NEW f \in Frames, PushAll(f), UNCHANGED <<nevent, sse, gwGen, since, view>>,
         handed' \in Seq(Frames), HandedSound', Rising(handed'), ntopo' \in 0..MaxTopo,
         f[1] = "event" => ntopo' = ntopo /\ f[2] <= nevent,
         f[1] = "topology" => f = <<"topology", ntopo'>>,
         \A b \in Browsers : Served(b) => Ahead(Seen(b), handed') /\ Ahead(gwBuf[b], handed'),
         f[1] = "event" => \A b \in Browsers : Served(b) =>
           /\ \A i \in 1..Len(gwBuf[b]) : gwBuf[b][i][1] = "event" => gwBuf[b][i][2] < f[2]
           /\ \A i \in 1..Len(Seen(b)) : Seen(b)[i][1] = "event" => Seen(b)[i][2] < f[2],
         f[1] = "event" => \A i \in 1..Len(handed') : f[2] < handed'[i][2],
         \A n \in Nat : Holds(n, handed) => Holds(n, handed') \/ f = <<"event", n>>
  PROVE  GtInv'
<1>1. /\ gwBuf' = [b \in Browsers |-> IF b \in sse THEN Pushed(gwBuf[b], f) ELSE gwBuf[b]]
      /\ lost' = [b \in Browsers |-> lost[b] \/ (b \in sse /\ Len(gwBuf[b]) = Depth)]
      /\ wake' = [b \in Browsers |-> wake[b] \/ b \in sse]
  BY DEF PushAll, PushTo
<1>2. /\ StreamsTyped /\ \A b \in Browsers : gwBuf[b] \in Seq(Frames) /\ Len(gwBuf[b]) <= Depth
      /\ nevent \in Nat
  BY GatewayConstants DEF GtInv, StreamsTyped
<1>3. \A b \in Browsers : Pushed(gwBuf[b], f) \in Seq(Frames) /\ Len(Pushed(gwBuf[b], f)) <= Depth
  BY <1>2, PushFacts
<1>4. StreamsTyped'
  BY <1>1, <1>2, <1>3 DEF StreamsTyped
<1>5. \A b \in Browsers : Seen(b)' = Seen(b) /\ (Served(b)' <=> Served(b))
  BY DEF Seen, Served
<1>6. ASSUME NEW b \in Browsers, Served(b)
      PROVE  LineSound(b)'
  <2> DEFINE q == gwBuf[b]
  <2>1. LineSound(b) /\ b \in sse /\ LineOrdered(b)
    BY <1>6 DEF GtInv, LineSound
  <2>2. PICK g \in Seq(Frames) : g = gwBuf'[b] /\ g = Pushed(q, f) /\ Len(g) <= Depth
    BY <1>1, <1>3, <2>1
  <2>3. q \in Seq(Frames) /\ Len(q) <= Depth /\ Len(q) \in Nat /\ Seen(b) \in Seq(Frames)
    BY <1>2, SeenIs
  <2>4. Rising(q) /\ Ahead(Seen(b), q) /\ Ahead(q, handed')
    BY <1>6, <2>1 DEF LineOrdered
  <2>5. f[1] = "event" => /\ \A i \in 1..Len(q) : q[i][1] = "event" => q[i][2] < f[2]
                          /\ \A i \in 1..Len(Seen(b)) : Seen(b)[i][1] = "event" => Seen(b)[i][2] < f[2]
                          /\ \A i \in 1..Len(handed') : handed'[i][1] = "event" => f[2] < handed'[i][2]
    BY <1>6
  <2> HIDE DEF q
  <2>6. Rising(g) /\ Ahead(Seen(b), g) /\ Ahead(g, handed')
    BY <2>2, <2>3, <2>4, <2>5, PushOrder
  <2>p. \E d \in {0, 1} : /\ d <= Len(q) /\ Len(Pushed(q, f)) = Len(q) + 1 - d
                          /\ Pushed(q, f)[Len(q) + 1 - d] = f
                          /\ \A i \in 1..Len(q) - d : Pushed(q, f)[i] = q[i + d]
    BY <2>3, PushFacts
  <2>7. PICK d \in {0, 1} : /\ d <= Len(q) /\ Len(g) = Len(q) + 1 - d /\ g[Len(q) + 1 - d] = f
                            /\ \A i \in 1..Len(q) - d : g[i] = q[i + d]
    BY <2>2, <2>p
  <2>8. ASSUME NEW i \in 1..Len(g), g[i][1] = "event"
        PROVE  g[i][2] <= nevent
    <3>1. CASE i = Len(g)
      BY <2>3, <2>7, <2>8, <3>1
    <3>2. CASE i # Len(g)
      <4>1. i \in 1..Len(q) - d /\ i + d \in 1..Len(q) /\ g[i] = q[i + d]
        BY <2>3, <2>7, <3>2
      <4> QED  BY <2>1, <2>8, <4>1 DEF LineOrdered, q
    <3> QED  BY <3>1, <3>2
  <2>9. LineOrdered(b)'
    <3>1. Ahead(Seen(b), handed') /\ Rising(Seen(b)) /\ \A i \in 1..Len(Seen(b)) : Seen(b)[i][2] <= nevent
      BY <1>6, <2>1 DEF LineOrdered
    <3>2. gwBuf'[b] = g /\ Seen(b)' = Seen(b) /\ nevent' = nevent
      BY <1>5, <2>2
    <3> QED  BY <2>6, <2>8, <3>1, <3>2 DEF LineOrdered
  <2>10. ASSUME ~lost'[b]
         PROVE  LineComplete(b)' /\ TopologyComing(b)'
    <3>1. ~lost[b] /\ Len(q) # Depth
      BY <1>1, <2>1, <2>10 DEF q
    <3>2. g = Append(q, f)
      BY <2>2, <2>3, <3>1, PushFacts
    <3>3. Len(g) = Len(q) + 1 /\ g[Len(q) + 1] = f /\ \A i \in 1..Len(q) : g[i] = q[i]
      BY <2>3, <3>2, AppendFacts
    <3>4. ASSUME NEW n \in Nat
          PROVE  /\ Holds(n, q) => Holds(n, g)
                 /\ f = <<"event", n>> => Holds(n, g)
      <4>1. ASSUME NEW i \in 1..Len(q), q[i] = <<"event", n>>
            PROVE  Holds(n, g)
        <5>1. i \in 1..Len(g) /\ g[i] = q[i]
          BY <2>3, <3>3
        <5> QED  BY <4>1, <5>1 DEF Holds
      <4>2. f = <<"event", n>> => Holds(n, g)
        <5>1. Len(q) + 1 \in 1..Len(g)
          BY <2>3, <3>3
        <5> QED  BY <3>3, <5>1 DEF Holds
      <4> QED  BY <4>1, <4>2 DEF Holds
    <3>5. LineComplete(b)'
      <4>1. LineComplete(b) /\ since[b] \in Nat /\ since' = since /\ nevent' = nevent
        BY <1>2, <2>1, <3>1, GatewayConstants DEF LineSound, StreamsTyped
      <4>2. ASSUME NEW n \in since[b] + 1..nevent
            PROVE  Holds(n, Seen(b)) \/ Holds(n, g) \/ Holds(n, handed')
        BY <1>2, <3>4, <4>1, <4>2 DEF LineComplete, q
      <4> QED  BY <1>5, <2>2, <4>1, <4>2 DEF LineComplete
    <3>6. TopologyComing(b)'
      <4>1. CASE f[1] = "topology"
        <5>1. f = <<"topology", ntopo'>> /\ Len(g) \in 1..Len(g) /\ g[Len(g)] = f
              /\ \A j \in Len(g) + 1..Len(g) : FALSE
          BY <2>3, <3>3, <4>1
        <5> QED  BY <2>2, <5>1 DEF TopologyComing, EndsCurrent
      <4>2. CASE f[1] = "event"
        <5>1. TopologyComing(b) /\ ntopo' = ntopo
          BY <2>1, <3>1, <4>2 DEF LineSound
        <5>2. CASE EndsCurrent(q)
          <6>1. PICK i \in 1..Len(q) : q[i] = <<"topology", ntopo>> /\ \A j \in i + 1..Len(q) : q[j][1] = "event"
            BY <5>2 DEF EndsCurrent
          <6>2. i \in 1..Len(g) /\ g[i] = <<"topology", ntopo>> /\ \A j \in i + 1..Len(g) : g[j][1] = "event"
            <7>1. i \in 1..Len(g) /\ g[i] = q[i]
              BY <2>3, <3>3
            <7>2. ASSUME NEW j \in i + 1..Len(g)
                  PROVE  g[j][1] = "event"
              <8>1. CASE j = Len(q) + 1
                BY <3>3, <4>2, <8>1
              <8>2. CASE j # Len(q) + 1
                <9>1. i \in Nat /\ Len(q) \in Nat /\ i >= 1 /\ j \in i + 1..Len(q) + 1
                  BY <2>3, <3>3
                <9>2. j \in 1..Len(q) /\ j \in i + 1..Len(q)
                  BY <8>2, <9>1
                <9> QED  BY <3>3, <6>1, <9>2
              <8> QED  BY <8>1, <8>2
            <7> QED  BY <6>1, <7>1, <7>2
          <6> QED  BY <2>2, <5>1, <6>2 DEF TopologyComing, EndsCurrent
        <5>3. CASE OnlyEvents(q) /\ view[b].topo = ntopo
          <6>1. OnlyEvents(g)
            BY <2>3, <3>3, <4>2, <5>3 DEF OnlyEvents
          <6> QED  BY <2>2, <5>1, <5>3, <6>1 DEF TopologyComing
        <5> QED  BY <5>1, <5>2, <5>3 DEF TopologyComing, q
      <4> QED  BY <4>1, <4>2, FrameIs
    <3> QED  BY <3>5, <3>6
  <2> QED  BY <2>1, <2>9, <2>10 DEF LineSound
<1> QED  BY <1>4, <1>5, <1>6 DEF GtInv

\* What was handed over runs on the routing loop.
LEMMA HandedKeeps ==
  ASSUME GtInv, RunHanded
  PROVE  GtInv'
<1> DEFINE f == Head(handed)
<1>1. /\ handed # <<>> /\ handed' = Tail(handed) /\ PushAll(f)
      /\ UNCHANGED <<nevent, ntopo, sse, gwGen, since, view>>
  BY DEF RunHanded
<1>2. /\ handed \in Seq(Frames) /\ ntopo' \in 0..MaxTopo /\ Rising(handed) /\ HandedSound
  BY <1>1 DEF GtInv, StreamsTyped
<1>3. /\ handed' \in Seq(Frames) /\ Len(handed') = Len(handed) - 1 /\ Len(handed) >= 1
      /\ f = handed[1] /\ f \in Frames /\ Len(handed) \in Nat
      /\ \A i \in 1..Len(handed) - 1 : handed'[i] = handed[i + 1]
  BY <1>1, <1>2, TailFacts
<1>4. f[1] = "event" /\ f[2] <= nevent
  BY <1>2, <1>3 DEF HandedSound
<1>5. HandedSound'
  BY <1>1, <1>2, <1>3 DEF HandedSound
<1>6. /\ Rising(handed') /\ \A n \in Nat : Holds(n, handed) => Holds(n, handed') \/ f = <<"event", n>>
      /\ \A i \in 1..Len(handed') : handed'[i][1] = "event" => f[2] < handed'[i][2]
      /\ \A p \in Seq(Frames) : Ahead(p, handed) => Ahead(p, handed')
  <2>1. PICK g \in Seq(Frames) : g = handed' /\ g = Tail(handed)
    BY <1>1, <1>3
  <2>2. /\ Rising(g)
        /\ \A n \in Nat : Holds(n, handed) => Holds(n, g) \/ handed[1] = <<"event", n>>
        /\ handed[1][1] = "event" =>
             \A i \in 1..Len(g) : g[i][1] = "event" => handed[1][2] < g[i][2]
    BY <1>1, <1>2, <2>1, PopRises
  <2>3. \A p \in Seq(Frames) : Ahead(p, handed) => Ahead(p, g)
    BY <1>1, <1>2, <2>1, PopFacts
  <2> QED  BY <1>3, <1>4, <2>1, <2>2, <2>3
<1>7. \A i \in 1..Len(handed') : f[2] < handed'[i][2]
  BY <1>5, <1>6 DEF HandedSound
<1>8. ASSUME NEW b \in Browsers, Served(b)
      PROVE  /\ Ahead(Seen(b), handed') /\ Ahead(gwBuf[b], handed')
             /\ \A i \in 1..Len(gwBuf[b]) : gwBuf[b][i][1] = "event" => gwBuf[b][i][2] < f[2]
             /\ \A i \in 1..Len(Seen(b)) : Seen(b)[i][1] = "event" => Seen(b)[i][2] < f[2]
  <2>1. Ahead(Seen(b), handed) /\ Ahead(gwBuf[b], handed)
    BY <1>8 DEF GtInv, LineSound, LineOrdered
  <2>2. Seen(b) \in Seq(Frames) /\ gwBuf[b] \in Seq(Frames) /\ 1 \in 1..Len(handed)
    BY <1>3, SeenIs DEF GtInv, StreamsTyped
  <2> QED  BY <1>3, <1>4, <1>6, <2>1, <2>2 DEF Ahead
<1> HIDE DEF f
<1>9. f[1] # "topology"
  BY <1>4
<1> QED  BY <1>1, <1>2, <1>3, <1>4, <1>5, <1>6, <1>7, <1>8, <1>9, PushKeeps

\* The topology changes: everyone registered is told at once.
LEMMA ListenerKeeps ==
  ASSUME GtInv, TopologyListener
  PROVE  GtInv'
<1>1. /\ ntopo < MaxTopo /\ ntopo' = ntopo + 1 /\ PushAll(<<"topology", ntopo + 1>>)
      /\ UNCHANGED <<nevent, handed, sse, gwGen, since, view>>
  BY DEF TopologyListener
<1>2. ntopo \in 0..MaxTopo /\ handed \in Seq(Frames) /\ Rising(handed) /\ HandedSound
  BY DEF GtInv, StreamsTyped
<1>3. ntopo' \in 0..MaxTopo
  BY <1>1, <1>2, GatewayConstants
<1>4. PICK f \in Frames : f = <<"topology", ntopo'>> /\ f[1] = "topology" /\ f[1] # "event"
  BY <1>3, AreFrames
<1>5. HandedSound'
  BY <1>1, <1>2 DEF HandedSound
<1>6. \A b \in Browsers : Served(b) => Ahead(Seen(b), handed) /\ Ahead(gwBuf[b], handed)
  BY DEF GtInv, LineSound, LineOrdered
<1> QED  BY <1>1, <1>2, <1>3, <1>4, <1>5, <1>6, PushKeeps

\* The tap sees one more event, and hands it over if somebody is registered.
LEMMA TapKeeps ==
  ASSUME GtInv, TapEvent
  PROVE  GtInv'
<1>1. /\ nevent < MaxEvents /\ nevent' = nevent + 1
      /\ handed' = IF sse = {} THEN handed ELSE Append(handed, <<"event", nevent + 1>>)
      /\ UNCHANGED <<ntopo, sse, gwGen, gwBuf, wake, lost, since, view>>
  BY DEF TapEvent
<1>2. /\ StreamsTyped /\ HandedSound /\ Rising(handed) /\ handed \in Seq(Frames)
      /\ nevent \in 0..MaxEvents /\ nevent \in Nat /\ Len(handed) \in Nat
  BY GatewayConstants DEF GtInv, StreamsTyped
<1>h. \A i \in 1..Len(handed) : handed[i][1] = "event" /\ handed[i][2] \in Nat /\ handed[i][2] < nevent + 1
  <2> SUFFICES ASSUME NEW i \in 1..Len(handed)
               PROVE  handed[i][1] = "event" /\ handed[i][2] \in Nat /\ handed[i][2] < nevent + 1
    OBVIOUS
  <2>1. handed[i] \in Frames
    BY <1>2, SeqElements
  <2>2. handed[i][2] \in Nat /\ handed[i][1] = "event" /\ handed[i][2] <= nevent
    BY <1>2, <2>1, FrameIs DEF HandedSound
  <2> QED  BY <1>2, <2>2
<1>3. PICK f \in Frames : f = <<"event", nevent + 1>> /\ f[1] = "event" /\ f[2] = nevent + 1
  <2>1. nevent + 1 \in 1..MaxEvents
    BY <1>1, <1>2, GatewayConstants
  <2> QED  BY <2>1, AreFrames
<1>4. CASE sse = {}
  <2>1. \A b \in Browsers : ~Served(b)
    BY <1>4 DEF GtInv, LineSound
  <2>2. StreamsTyped' /\ HandedSound'
    <3>1. StreamsTyped'
      BY <1>1, <1>2, <1>4, GatewayConstants DEF StreamsTyped
    <3>2. HandedSound'
      BY <1>1, <1>2, <1>4, <1>h DEF HandedSound
    <3> QED  BY <3>1, <3>2
  <2> QED  BY <1>1, <1>2, <1>4, <2>1, <2>2 DEF GtInv, Served
<1>5. CASE sse # {}
  <2>1. /\ handed' \in Seq(Frames) /\ Len(handed') = Len(handed) + 1 /\ handed'[Len(handed) + 1] = f
        /\ \A i \in 1..Len(handed) : handed'[i] = handed[i]
    BY <1>1, <1>2, <1>3, <1>5, AppendFacts
  <2>2. \A i \in 1..Len(handed') : \/ i = Len(handed') /\ handed'[i] = f
                                   \/ i \in 1..Len(handed) /\ handed'[i] = handed[i]
    <3> SUFFICES ASSUME NEW i \in 1..Len(handed')
                 PROVE  \/ i = Len(handed') /\ handed'[i] = f
                        \/ i \in 1..Len(handed) /\ handed'[i] = handed[i]
      OBVIOUS
    <3>1. i \in 1..Len(handed) + 1
      BY <2>1
    <3>2. CASE i = Len(handed) + 1
      BY <2>1, <3>2
    <3>3. CASE i # Len(handed) + 1
      <4>1. i \in 1..Len(handed)
        BY <1>2, <3>1, <3>3
      <4> QED  BY <2>1, <4>1
    <3> QED  BY <3>2, <3>3
  <2>3. HandedSound'
    <3> SUFFICES ASSUME NEW i \in 1..Len(handed')
                 PROVE  handed'[i][1] = "event" /\ handed'[i][2] <= nevent + 1
      BY <1>1 DEF HandedSound
    <3>1. CASE handed'[i] = f
      BY <1>2, <1>3, <3>1
    <3>2. CASE i \in 1..Len(handed) /\ handed'[i] = handed[i]
      BY <1>2, <1>h, <3>2
    <3> QED  BY <2>2, <3>1, <3>2
  <2>4. Rising(handed')
    <3> SUFFICES ASSUME NEW i \in 1..Len(handed'), NEW j \in 1..Len(handed'), i < j
                 PROVE  handed'[i][1] = "event" /\ handed'[j][1] = "event"
                          => handed'[i][2] < handed'[j][2]
      BY DEF Rising
    <3>1. i \in 1..Len(handed) /\ handed'[i] = handed[i]
      BY <1>2, <2>1, <2>2
    <3>2. CASE handed'[j] = f
      BY <1>3, <1>h, <3>1, <3>2
    <3>3. CASE j \in 1..Len(handed) /\ handed'[j] = handed[j]
      BY <1>2, <3>1, <3>3 DEF Rising
    <3> QED  BY <2>2, <3>2, <3>3
  <2>5. StreamsTyped'
    BY <1>1, <1>2, <2>1, GatewayConstants DEF StreamsTyped
  <2>6. ASSUME NEW b \in Browsers, Served(b)
        PROVE  LineSound(b)'
    <3>1. LineSound(b) /\ LineOrdered(b) /\ Seen(b)' = Seen(b)
      BY <1>1, <2>6 DEF GtInv, LineSound, Seen
    <3>2. gwBuf[b] \in Seq(Frames) /\ Seen(b) \in Seq(Frames)
      BY <1>2, SeenIs DEF StreamsTyped
    <3>3. \A i \in 1..Len(gwBuf[b]) : gwBuf[b][i][2] \in Nat
      BY <3>2, SeqElements, FrameIs
    <3>4. \A i \in 1..Len(Seen(b)) : Seen(b)[i][2] \in Nat
      BY <3>2, SeqElements, FrameIs
    <3>5. /\ \A i \in 1..Len(gwBuf[b]) : gwBuf[b][i][1] = "event" => gwBuf[b][i][2] < nevent + 1
          /\ \A i \in 1..Len(Seen(b)) : Seen(b)[i][2] < nevent + 1
      BY <1>2, <3>1, <3>3, <3>4 DEF LineOrdered
    <3>6. Ahead(Seen(b), handed') /\ Ahead(gwBuf[b], handed')
      <4>1. Ahead(Seen(b), handed) /\ Ahead(gwBuf[b], handed)
        BY <3>1 DEF LineOrdered
      <4> QED  BY <1>3, <2>2, <3>5, <4>1 DEF Ahead
    <3>7. LineOrdered(b)'
      <4>1. /\ \A i \in 1..Len(gwBuf[b]) : gwBuf[b][i][1] = "event" => gwBuf[b][i][2] <= nevent + 1
            /\ \A i \in 1..Len(Seen(b)) : Seen(b)[i][2] <= nevent + 1
        BY <1>2, <3>3, <3>4, <3>5
      <4>2. Rising(Seen(b)) /\ Rising(gwBuf[b]) /\ Ahead(Seen(b), gwBuf[b])
        BY <3>1 DEF LineOrdered
      <4>3. gwBuf' = gwBuf /\ nevent' = nevent + 1 /\ Seen(b)' = Seen(b)
        BY <1>1, <3>1
      <4> QED  BY <3>6, <4>1, <4>2, <4>3 DEF LineOrdered
    <3>8. ~lost[b] => LineComplete(b)'
      <4> SUFFICES ASSUME ~lost[b], NEW n \in since[b] + 1..nevent + 1
                   PROVE  Holds(n, Seen(b)) \/ Holds(n, gwBuf[b]) \/ Holds(n, handed')
        BY <1>1, <3>1 DEF LineComplete
      <4>1. since[b] \in Nat
        BY <1>2, GatewayConstants DEF StreamsTyped
      <4>2. CASE n = nevent + 1
        <5>1. Len(handed) + 1 \in 1..Len(handed')
          BY <1>2, <2>1
        <5> QED  BY <1>3, <2>1, <4>2, <5>1 DEF Holds
      <4>3. CASE n # nevent + 1
        <5>1. n \in since[b] + 1..nevent
          BY <1>2, <4>1, <4>3
        <5>2. CASE Holds(n, handed)
          <6>1. PICK i \in 1..Len(handed) : handed[i] = <<"event", n>>
            BY <5>2 DEF Holds
          <6>2. i \in 1..Len(handed') /\ handed'[i] = handed[i]
            BY <1>2, <2>1
          <6> QED  BY <6>1, <6>2 DEF Holds
        <5> QED  BY <3>1, <5>1, <5>2 DEF LineSound, LineComplete
      <4> QED  BY <4>2, <4>3
    <3>9. ~lost[b] => TopologyComing(b)'
      BY <1>1, <3>1 DEF LineSound, TopologyComing, EndsCurrent, OnlyEvents
    <3> QED  BY <1>1, <3>1, <3>7, <3>8, <3>9 DEF LineSound
  <2>7. \A b \in Browsers : Served(b)' <=> Served(b)
    BY <1>1 DEF Served
  <2> QED  BY <1>1, <2>3, <2>4, <2>5, <2>6, <2>7 DEF GtInv
<1> QED  BY <1>4, <1>5

\* A client connects: its queue holds the topology of now.
LEMMA ConnectKeeps ==
  ASSUME GtInv, NEW b \in Browsers, Connect(b)
  PROVE  GtInv'
<1>1. /\ gwGen[b] = "away" /\ sse' = sse \cup {b} /\ gwGen' = [gwGen EXCEPT ![b] = "made"]
      /\ gwBuf' = [gwBuf EXCEPT ![b] = <<<<"topology", ntopo>>>>]
      /\ wake' = [wake EXCEPT ![b] = TRUE] /\ since' = [since EXCEPT ![b] = nevent]
      /\ UNCHANGED <<nevent, ntopo, handed, lost, view>>
  BY DEF Connect
<1>2. StreamsTyped /\ ntopo \in 0..MaxTopo /\ nevent \in Nat
  BY GatewayConstants DEF GtInv, StreamsTyped
<1>3. PICK f \in Frames : f = <<"topology", ntopo>> /\ f[1] = "topology" /\ f[1] # "event"
  BY <1>2, AreFrames
<1>4. PICK g \in Seq(Frames) : g = <<f>> /\ Len(g) = 1 /\ g[1] = f
  BY SingleFacts
<1>5. StreamsTyped'
  <2>1. gwBuf' = [gwBuf EXCEPT ![b] = g] /\ Len(g) <= Depth
    BY <1>1, <1>3, <1>4, GatewayConstants
  <2> QED  BY <1>1, <1>2, <2>1 DEF StreamsTyped
<1>6. gwBuf'[b] = g /\ gwGen'[b] = "made" /\ since'[b] = nevent
  BY <1>1, <1>2, <1>3, <1>4 DEF StreamsTyped
<1>7. \A c \in Browsers : c # b => /\ gwBuf'[c] = gwBuf[c] /\ gwGen'[c] = gwGen[c] /\ since'[c] = since[c]
                                   /\ (Served(c)' <=> Served(c)) /\ Seen(c)' = Seen(c)
  BY <1>1, <1>2 DEF StreamsTyped, Served, Seen
<1>8. ASSUME NEW c \in Browsers, c # b, Served(c)
      PROVE  LineSound(c)'
  <2>1. LineSound(c)
    BY <1>8 DEF GtInv
  <2> QED  BY <1>1, <1>7, <1>8, <2>1
           DEF LineSound, LineOrdered, LineComplete, TopologyComing, EndsCurrent, OnlyEvents
<1>9. LineSound(b)'
  <2>1. Seen(b)' = Seen(b) /\ Len(Seen(b)) = 0 /\ b \in sse'
    BY <1>1, <1>2, SeenIs DEF GtInv, Seen
  <2>2. LineOrdered(b)'
    BY <1>1, <1>3, <1>4, <1>6, <2>1 DEF LineOrdered, Rising, Ahead
  <2>3. LineComplete(b)'
    BY <1>1, <1>2, <1>6 DEF LineComplete
  <2>4. TopologyComing(b)'
    <3>1. 1 \in 1..Len(g) /\ \A j \in 2..Len(g) : FALSE
      BY <1>4
    <3> QED  BY <1>1, <1>3, <1>4, <1>6, <3>1 DEF TopologyComing, EndsCurrent
  <2> QED  BY <2>1, <2>2, <2>3, <2>4 DEF LineSound
<1>10. HandedSound' /\ Rising(handed')
  BY <1>1 DEF GtInv, HandedSound
<1>11. \A c \in Browsers : Served(c)' => LineSound(c)'
  BY <1>7, <1>8, <1>9
<1>12. \A c \in Browsers : gwGen'[c] = "away" => view'[c].events = <<>>
  BY <1>1, <1>6, <1>7 DEF GtInv
<1> QED  BY <1>5, <1>10, <1>11, <1>12 DEF GtInv

\* A generator goes on to another phase, or its client is gone.
LEMMA PhaseKeeps ==
  ASSUME GtInv, NEW b \in Browsers, Served(b), NEW y \in {"waiting", "sending", "gone"},
         gwGen' = [gwGen EXCEPT ![b] = y], sse \ {b} \subseteq sse', sse' \subseteq sse,
         y # "gone" => sse' = sse /\ gwBuf' = gwBuf /\ view' = view,
         \A c \in Browsers : c # b => gwBuf'[c] = gwBuf[c] /\ view'[c] = view[c],
         gwBuf'[b] \in {gwBuf[b], <<>>}, gwBuf' \in [Browsers -> Seq(Frames)],
         view' \in [Browsers -> ViewRec], wake' \in [Browsers -> BOOLEAN],
         UNCHANGED <<nevent, ntopo, handed, lost, since>>
  PROVE  GtInv'
<1>1. StreamsTyped /\ gwGen'[b] = y /\ \A c \in Browsers : c # b => gwGen'[c] = gwGen[c]
  BY DEF GtInv, StreamsTyped
<1>2. StreamsTyped'
  <2>1. Len(gwBuf'[b]) <= Depth
    BY <1>1, GatewayConstants DEF StreamsTyped
  <2> QED  BY <1>1, <2>1 DEF StreamsTyped
<1>3. ASSUME NEW c \in Browsers, Served(c)'
      PROVE  LineSound(c)'
  <2>1. Served(c) /\ gwBuf'[c] = gwBuf[c] /\ view'[c] = view[c] /\ (c \in sse => c \in sse')
    BY <1>1, <1>3 DEF Served
  <2>2. LineSound(c) /\ Seen(c)' = Seen(c)
    BY <2>1 DEF GtInv, Seen
  <2> QED  BY <2>1, <2>2
           DEF LineSound, LineOrdered, LineComplete, TopologyComing, EndsCurrent, OnlyEvents
<1>4. HandedSound' /\ Rising(handed')
  BY DEF GtInv, HandedSound
<1>5. \A c \in Browsers : gwGen'[c] = "away" => view'[c].events = <<>>
  BY <1>1 DEF GtInv
<1> QED  BY <1>2, <1>3, <1>4, <1>5 DEF GtInv

\* A client that is sent an event has it before all that come later.
LEMMA SentBefore ==
  ASSUME NEW p \in Seq(Frames), NEW f \in Frames, NEW r \in Seq(Frames), Ahead(p, r),
         \A i \in 1..Len(r) : r[i][1] = "event" => f[2] < r[i][2],
         NEW s \in Seq(Frames), Len(s) = Len(p) + 1, s[Len(p) + 1] = f,
         \A i \in 1..Len(p) : s[i] = p[i]
  PROVE  Ahead(s, r)
<1> SUFFICES ASSUME NEW i \in 1..Len(s), NEW j \in 1..Len(r), s[i][1] = "event", r[j][1] = "event"
             PROVE  s[i][2] < r[j][2]
  BY DEF Ahead
<1>1. CASE i = Len(p) + 1
  BY <1>1
<1>2. CASE i # Len(p) + 1
  <2>1. i \in 1..Len(p) /\ Len(p) \in Nat
    BY <1>2
  <2> QED  BY <2>1 DEF Ahead
<1> QED  BY <1>1, <1>2

\* A client is sent an event: what it saw rises.
LEMMA SentOrder ==
  ASSUME NEW p \in Seq(Frames), NEW f \in Frames, f[1] = "event", Rising(p),
         \A i \in 1..Len(p) : p[i][1] = "event" => p[i][2] < f[2],
         NEW s \in Seq(Frames), Len(s) = Len(p) + 1, s[Len(p) + 1] = f,
         \A i \in 1..Len(p) : s[i] = p[i]
  PROVE  /\ Rising(s)
         /\ \A n \in Nat : Holds(n, p) \/ f = <<"event", n>> => Holds(n, s)
<1>0. Len(p) \in Nat
  OBVIOUS
<1>1. \A i \in 1..Len(s) : (i = Len(s) /\ s[i] = f) \/ (i \in 1..Len(p) /\ s[i] = p[i])
  <2> SUFFICES ASSUME NEW i \in 1..Len(s)
               PROVE  (i = Len(s) /\ s[i] = f) \/ (i \in 1..Len(p) /\ s[i] = p[i])
    OBVIOUS
  <2>1. CASE i = Len(p) + 1
    BY <2>1
  <2>2. CASE i # Len(p) + 1
    <3>1. i \in 1..Len(p)
      BY <1>0, <2>2
    <3> QED  BY <3>1
  <2> QED  BY <2>1, <2>2
<1>2. Rising(s)
  <2> SUFFICES ASSUME NEW i \in 1..Len(s), NEW j \in 1..Len(s), i < j,
                      s[i][1] = "event", s[j][1] = "event"
               PROVE  s[i][2] < s[j][2]
    BY DEF Rising
  <2>1. i # Len(s)
    BY <1>0
  <2>2. i \in 1..Len(p) /\ s[i] = p[i]
    BY <1>1, <2>1
  <2>3. CASE s[j] = f
    BY <2>2, <2>3
  <2>4. CASE j \in 1..Len(p) /\ s[j] = p[j]
    BY <2>2, <2>4 DEF Rising
  <2> QED  BY <1>1, <2>3, <2>4
<1>3. ASSUME NEW n \in Nat
      PROVE  Holds(n, p) \/ f = <<"event", n>> => Holds(n, s)
  <2>1. ASSUME NEW i \in 1..Len(p), p[i] = <<"event", n>>
        PROVE  Holds(n, s)
    <3>1. i \in 1..Len(s) /\ s[i] = p[i]
      BY <1>0
    <3> QED  BY <2>1, <3>1 DEF Holds
  <2>2. Len(p) + 1 \in 1..Len(s)
    BY <1>0
  <2> QED  BY <2>1, <2>2 DEF Holds
<1> QED  BY <1>2, <1>3

\* The current topology is still in the queue, or was the frame that went.
LEMMA PopEnds ==
  ASSUME NEW q \in Seq(Frames), q # <<>>, NEW g \in Seq(Frames), g = Tail(q), EndsCurrent(q)
  PROVE  EndsCurrent(g) \/ (q[1] = <<"topology", ntopo>> /\ OnlyEvents(g))
<1>1. /\ Len(g) = Len(q) - 1 /\ Len(q) >= 1 /\ Len(q) \in Nat
      /\ \A i \in 1..Len(g) : g[i] = q[i + 1] /\ i + 1 \in 1..Len(q)
      /\ \A i \in 2..Len(q) : q[i] = g[i - 1] /\ i - 1 \in 1..Len(g)
  BY PopFacts
<1>2. PICK i \in 1..Len(q) : q[i] = <<"topology", ntopo>> /\ \A j \in i + 1..Len(q) : q[j][1] = "event"
  BY DEF EndsCurrent
<1>3. CASE i = 1
  <2>1. ASSUME NEW j \in 1..Len(g)
        PROVE  g[j][1] = "event"
    <3>1. g[j] = q[j + 1] /\ j + 1 \in i + 1..Len(q)
      BY <1>1, <1>3
    <3> QED  BY <1>2, <3>1
  <2> QED  BY <1>2, <1>3, <2>1 DEF OnlyEvents
<1>4. CASE i # 1
  <2>1. i \in 2..Len(q)
    BY <1>1, <1>4
  <2>2. i - 1 \in 1..Len(g) /\ g[i - 1] = <<"topology", ntopo>>
    BY <1>1, <1>2, <2>1
  <2>3. ASSUME NEW j \in (i - 1) + 1..Len(g)
        PROVE  g[j][1] = "event"
    <3>1. j \in 1..Len(g) /\ j + 1 \in i + 1..Len(q)
      BY <1>1, <2>1
    <3> QED  BY <1>1, <1>2, <3>1
  <2> QED  BY <2>2, <2>3 DEF EndsCurrent
<1> QED  BY <1>3, <1>4

\* The generator sends a frame.
LEMMA SendKeeps ==
  ASSUME GtInv, NEW b \in Browsers, SendSse(b)
  PROVE  GtInv'
<1>1. gwGen[b] = "sending" /\ Served(b) /\ UNCHANGED <<nevent, ntopo, handed, sse, wake, lost, since>>
  BY DEF SendSse, Served
<1>2. StreamsTyped
  BY DEF GtInv
<1>3. CASE gwBuf[b] = <<>>
  <2>1. gwGen' = [gwGen EXCEPT ![b] = "waiting"] /\ UNCHANGED <<gwBuf, view>>
    BY <1>3 DEF SendSse
  <2> QED  BY <1>1, <1>2, <2>1, PhaseKeeps DEF StreamsTyped
<1>4. CASE gwBuf[b] # <<>>
  <2>1. /\ view' = [view EXCEPT ![b] = Received(view[b], Head(gwBuf[b]))]
        /\ gwBuf' = [gwBuf EXCEPT ![b] = Tail(gwBuf[b])] /\ gwGen' = gwGen
    BY <1>4 DEF SendSse
  <2>2. PICK q \in Seq(Frames) : q = gwBuf[b] /\ q # <<>> /\ Len(q) <= Depth
    BY <1>2, <1>4 DEF StreamsTyped
  <2>3. PICK g \in Seq(Frames) : g = Tail(q)
    BY <2>2, TailFacts
  <2>4. PICK f \in Frames : f = Head(q) /\ f = q[1]
    BY <2>2, TailFacts
  <2>5. /\ Len(g) = Len(q) - 1 /\ Len(q) >= 1 /\ Len(q) \in Nat
        /\ \A i \in 1..Len(g) : g[i] = q[i + 1] /\ i + 1 \in 1..Len(q)
        /\ \A p \in Seq(Frames) : Ahead(p, q) => Ahead(p, g)
        /\ \A r \in Seq(Frames) : Ahead(q, r) => Ahead(g, r)
        /\ OnlyEvents(q) => OnlyEvents(g)
    BY <2>2, <2>3, PopFacts
  <2>6. gwBuf'[b] = g /\ gwBuf' = [gwBuf EXCEPT ![b] = g] /\ view'[b] = Received(view[b], f)
        /\ view' = [view EXCEPT ![b] = Received(view[b], f)]
    BY <1>2, <2>1, <2>2, <2>3, <2>4 DEF StreamsTyped
  <2>7. PICK p \in Seq(Frames) : p = Seen(b)
    BY <1>2, SeenIs
  <2>8. /\ LineSound(b) /\ b \in sse /\ Rising(p) /\ Rising(q)
        /\ Ahead(p, q) /\ Ahead(p, handed) /\ Ahead(q, handed)
        /\ \A i \in 1..Len(q) : q[i][1] = "event" => q[i][2] <= nevent
        /\ \A i \in 1..Len(p) : p[i][2] <= nevent
    BY <1>1, <2>2, <2>7 DEF GtInv, LineSound, LineOrdered
  <2>9. /\ Rising(g)
        /\ \A n \in Nat : Holds(n, q) => Holds(n, g) \/ f = <<"event", n>>
        /\ f[1] = "event" => \A i \in 1..Len(g) : g[i][1] = "event" => f[2] < g[i][2]
    BY <2>2, <2>3, <2>4, <2>8, PopRises
  <2>10. Ahead(p, g) /\ Ahead(g, handed) /\ handed \in Seq(Frames)
    BY <1>2, <2>5, <2>8 DEF StreamsTyped
  <2>11. ~lost[b] => /\ \A n \in since[b] + 1..nevent : Holds(n, p) \/ Holds(n, q) \/ Holds(n, handed)
                     /\ EndsCurrent(q) \/ (OnlyEvents(q) /\ view[b].topo = ntopo)
    BY <2>2, <2>7, <2>8 DEF LineSound, LineComplete, TopologyComing
  <2>12. since[b] + 1..nevent \subseteq Nat
    BY <1>2, GatewayConstants DEF StreamsTyped
  <2>13. \A i \in 1..Len(g) : g[i][1] = "event" => g[i][2] <= nevent
    BY <2>5, <2>8
  <2>14. view[b] \in ViewRec /\ view[b].events \in Seq(1..MaxEvents)
         /\ Len(p) = Len(view[b].events) /\ Len(p) \in Nat
         /\ \A i \in 1..Len(p) : p[i] = <<"event", view[b].events[i]>>
    BY <1>2, <2>7, SeenIs
  <2>15. ASSUME NEW s \in Seq(Frames), NEW v \in ViewRec, v = view'[b], s = Seen(b)',
                Rising(s), Ahead(s, g), Ahead(s, handed),
                \A i \in 1..Len(s) : s[i][2] <= nevent,
                \A n \in Nat : Holds(n, p) => Holds(n, s),
                \A n \in Nat : Holds(n, q) => Holds(n, s) \/ Holds(n, g),
                ~lost[b] => EndsCurrent(g) \/ (OnlyEvents(g) /\ v.topo = ntopo)
         PROVE  GtInv'
    <3>1. StreamsTyped'
      <4>1. Len(g) <= Depth /\ \A c \in Browsers : Len(gwBuf'[c]) <= Depth
        BY <1>2, <2>2, <2>5, <2>6, GatewayConstants DEF StreamsTyped
      <4>2. view' \in [Browsers -> ViewRec] /\ gwBuf' \in [Browsers -> Seq(Frames)]
        BY <1>2, <2>6, <2>15 DEF StreamsTyped
      <4> QED  BY <1>1, <1>2, <2>1, <4>1, <4>2 DEF StreamsTyped
    <3>2. LineSound(b)'
      <4>1. LineOrdered(b)'
        BY <1>1, <2>6, <2>9, <2>10, <2>13, <2>15 DEF LineOrdered
      <4>2. ~lost[b] => LineComplete(b)'
        <5> SUFFICES ASSUME ~lost[b], NEW n \in since[b] + 1..nevent
                     PROVE  Holds(n, s) \/ Holds(n, g) \/ Holds(n, handed)
          BY <1>1, <2>6, <2>15 DEF LineComplete
        <5> QED  BY <2>11, <2>12, <2>15
      <4>3. ~lost[b] => TopologyComing(b)'
        BY <1>1, <2>6, <2>15 DEF TopologyComing, EndsCurrent
      <4> QED  BY <1>1, <2>8, <4>1, <4>2, <4>3 DEF LineSound
    <3>3. ASSUME NEW c \in Browsers, c # b, Served(c)'
          PROVE  LineSound(c)'
      <4>1. Served(c) /\ gwBuf'[c] = gwBuf[c] /\ view'[c] = view[c]
        BY <1>2, <2>1, <2>6, <3>3 DEF StreamsTyped, Served
      <4>2. LineSound(c) /\ Seen(c)' = Seen(c)
        BY <4>1 DEF GtInv, Seen
      <4> QED  BY <1>1, <4>1, <4>2
               DEF LineSound, LineOrdered, LineComplete, TopologyComing, EndsCurrent, OnlyEvents
    <3>4. HandedSound' /\ Rising(handed')
      BY <1>1 DEF GtInv, HandedSound
    <3>5. ASSUME NEW c \in Browsers, gwGen'[c] = "away"
          PROVE  view'[c].events = <<>>
      <4>1. c # b /\ gwGen[c] = "away"
        BY <1>1, <2>1, <3>5
      <4>2. view'[c] = view[c]
        BY <1>2, <2>6, <4>1 DEF StreamsTyped
      <4> QED  BY <4>1, <4>2 DEF GtInv
    <3>6. \A c \in Browsers : Served(c)' => LineSound(c)'
      BY <3>2, <3>3
    <3> QED  BY <3>1, <3>4, <3>5, <3>6 DEF GtInv
  <2>16. CASE f[1] = "topology"
    <3>1. PICK v : v = view'[b]
      OBVIOUS
    <3>2. v = [view[b] EXCEPT !.topo = f[2]]
      BY <2>6, <2>16, <3>1 DEF Received
    <3>3. v \in ViewRec /\ v.topo = f[2] /\ v.events = view[b].events
      <4>1. f[2] \in -1..MaxTopo
        BY <2>16, FrameIs, GatewayConstants
      <4> QED  BY <2>14, <3>2, <4>1 DEF ViewRec
    <3>4. Seen(b)' = p
      BY <2>7, <3>1, <3>3 DEF Seen
    <3>5. \A n \in Nat : Holds(n, q) => Holds(n, g)
      BY <2>9, <2>16
    <3>6. ~lost[b] => EndsCurrent(g) \/ (OnlyEvents(g) /\ v.topo = ntopo)
      <4>1. ~OnlyEvents(q)
        BY <2>4, <2>5, <2>16 DEF OnlyEvents
      <4>2. EndsCurrent(q) => EndsCurrent(g) \/ (q[1] = <<"topology", ntopo>> /\ OnlyEvents(g))
        BY <2>2, <2>3, PopEnds
      <4> QED  BY <2>4, <2>11, <3>3, <4>1, <4>2
    <3> QED  BY <2>8, <2>10, <2>15, <3>1, <3>3, <3>4, <3>5, <3>6
  <2>17. CASE f[1] = "event"
    <3>1. PICK v : v = view'[b]
      OBVIOUS
    <3>2. v = [view[b] EXCEPT !.events = Append(view[b].events, f[2])]
      BY <2>6, <2>17, <3>1 DEF Received
    <3>3. f[2] \in 1..MaxEvents /\ f = <<"event", f[2]>> /\ f[2] <= nevent
      <4>1. f[2] \in 1..MaxEvents /\ f = <<f[1], f[2]>>
        BY <2>17, FrameIs
      <4>2. 1 \in 1..Len(q)
        BY <2>5
      <4> QED  BY <2>4, <2>8, <2>17, <4>1, <4>2
    <3>4. PICK e \in Seq(1..MaxEvents) :
            /\ e = Append(view[b].events, f[2]) /\ Len(e) = Len(p) + 1 /\ e[Len(p) + 1] = f[2]
            /\ \A i \in 1..Len(p) : e[i] = view[b].events[i]
      <4>a. PICK E, x, l : E = 1..MaxEvents /\ x = f[2] /\ l = view[b].events
        OBVIOUS
      <4>b. x \in E /\ l \in Seq(E)
        BY <2>14, <3>3, <4>a
      <4>1. /\ Append(l, x) \in Seq(E) /\ Len(Append(l, x)) = Len(l) + 1
            /\ \A i \in 1..(Len(l) + 1) : Append(l, x)[i] = IF i = Len(l) + 1 THEN x ELSE l[i]
        BY <4>b, AppendFacts
      <4>2. Len(p) + 1 \in 1..Len(p) + 1 /\ \A i \in 1..Len(p) : i \in 1..Len(p) + 1 /\ i # Len(p) + 1
        BY <2>14
      <4> QED  BY <2>14, <4>a, <4>1, <4>2
    <3>5. v \in ViewRec /\ v.topo = view[b].topo /\ v.events = e
      BY <2>14, <3>2, <3>4 DEF ViewRec
    <3>6. PICK s \in Seq(Frames) : /\ s = Seen(b)' /\ Len(s) = Len(p) + 1 /\ s[Len(p) + 1] = f
                                   /\ \A i \in 1..Len(p) : s[i] = p[i]
      <4>1. Seen(b)' = [i \in DOMAIN e |-> <<"event", e[i]>>]
        BY <3>1, <3>5 DEF Seen
      <4>2. DOMAIN e = 1..Len(e) /\ \A i \in 1..Len(e) : <<"event", e[i]>> \in Frames
        BY <3>4, SeqElements, AreFrames
      <4>3. PICK s : s = Seen(b)' /\ s \in Seq(Frames) /\ Len(s) = Len(e)
                     /\ \A i \in 1..Len(e) : s[i] = <<"event", e[i]>>
        <5>1. [i \in DOMAIN e |-> <<"event", e[i]>>] \in Seq(Frames)
              /\ Len([i \in DOMAIN e |-> <<"event", e[i]>>]) = Len(e)
          BY <3>4, <4>2
        <5> QED  BY <4>1, <4>2, <5>1
      <4>4. s[Len(p) + 1] = f
        <5>1. Len(p) + 1 \in 1..Len(e)
          BY <2>14, <3>4
        <5> QED  BY <3>3, <3>4, <4>3, <5>1
      <4>5. ASSUME NEW i \in 1..Len(p)
            PROVE  s[i] = p[i]
        <5>1. i \in 1..Len(e)
          BY <2>14, <3>4
        <5> QED  BY <2>14, <3>4, <4>3, <5>1
      <4> QED  BY <3>4, <4>3, <4>4, <4>5
    <3>7. \A i \in 1..Len(p) : p[i][1] = "event" => p[i][2] < f[2]
      <4>1. 1 \in 1..Len(q)
        BY <2>5
      <4> QED  BY <2>4, <2>8, <2>17, <4>1 DEF Ahead
    <3>8. /\ Rising(s)
          /\ \A n \in Nat : Holds(n, p) \/ f = <<"event", n>> => Holds(n, s)
          /\ \A r \in Seq(Frames) :
               Ahead(p, r) /\ (\A i \in 1..Len(r) : r[i][1] = "event" => f[2] < r[i][2])
                 => Ahead(s, r)
      <4>1. Rising(p)
        BY <2>8
      <4>2. Rising(s)
        BY <2>17, <3>6, <3>7, <4>1, SentOrder
      <4>3. \A n \in Nat : Holds(n, p) \/ f = <<"event", n>> => Holds(n, s)
        BY <2>17, <3>6, <3>7, <4>1, SentOrder
      <4>4. \A r \in Seq(Frames) :
               Ahead(p, r) /\ (\A i \in 1..Len(r) : r[i][1] = "event" => f[2] < r[i][2])
                 => Ahead(s, r)
        <5> SUFFICES ASSUME NEW r \in Seq(Frames), Ahead(p, r),
                            \A i \in 1..Len(r) : r[i][1] = "event" => f[2] < r[i][2]
                     PROVE  Ahead(s, r)
          OBVIOUS
        <5> QED  BY <3>6, SentBefore
      <4> QED  BY <4>2, <4>3, <4>4
    <3>9. Ahead(s, g) /\ Ahead(s, handed)
      <4>1. 1 \in 1..Len(q)
        BY <2>5
      <4>2. \A i \in 1..Len(handed) : handed[i][1] = "event" => f[2] < handed[i][2]
        BY <2>4, <2>8, <2>17, <4>1 DEF Ahead
      <4> QED  BY <2>8, <2>9, <2>10, <2>17, <3>8, <4>2
    <3>10. \A i \in 1..Len(s) : s[i][2] <= nevent
      <4> SUFFICES ASSUME NEW i \in 1..Len(s)
                   PROVE  s[i][2] <= nevent
        OBVIOUS
      <4>1. CASE i = Len(p) + 1
        BY <3>3, <3>6, <4>1
      <4>2. CASE i # Len(p) + 1
        <5>1. i \in 1..Len(p)
          BY <2>14, <3>6, <4>2
        <5> QED  BY <2>8, <3>6, <5>1
      <4> QED  BY <4>1, <4>2
    <3>11. ~lost[b] => EndsCurrent(g) \/ (OnlyEvents(g) /\ v.topo = ntopo)
      <4>1. EndsCurrent(q) => EndsCurrent(g) \/ (q[1] = <<"topology", ntopo>> /\ OnlyEvents(g))
        BY <2>2, <2>3, PopEnds
      <4>2. q[1] # <<"topology", ntopo>>
        BY <2>4, <2>17
      <4> QED  BY <2>5, <2>11, <3>5, <4>1, <4>2
    <3> QED  BY <2>9, <2>15, <3>1, <3>5, <3>6, <3>8, <3>9, <3>10, <3>11
  <2> QED  BY <2>16, <2>17, FrameIs
<1> QED  BY <1>3, <1>4

\* Every step.
LEMMA GtNextKeeps ==
  ASSUME GtInv, [GtNext]_gtVars
  PROVE  GtInv'
<1>0. StreamsTyped
  BY DEF GtInv
<1>1. ASSUME NEW b \in Browsers, Starts(b)
      PROVE  GtInv'
  BY <1>0, <1>1, PhaseKeeps DEF Starts, Served, StreamsTyped
<1>2. ASSUME NEW b \in Browsers, Wakes(b)
      PROVE  GtInv'
  <2>1. wake' \in [Browsers -> BOOLEAN]
    BY <1>0, <1>2 DEF Wakes, StreamsTyped
  <2> QED  BY <1>0, <1>2, <2>1, PhaseKeeps DEF Wakes, Served, StreamsTyped
<1>3. ASSUME NEW b \in Browsers, Leaves(b)
      PROVE  GtInv'
  <2>1. /\ gwGen[b] \in {"waiting", "sending"} /\ gwGen' = [gwGen EXCEPT ![b] = "gone"]
        /\ sse' = sse \ {b} /\ gwBuf' = [gwBuf EXCEPT ![b] = <<>>]
        /\ view' = [view EXCEPT ![b] = [topo |-> -1, events |-> <<>>]]
        /\ UNCHANGED <<nevent, ntopo, handed, wake, lost, since>>
    BY <1>3 DEF Leaves
  <2>2. [topo |-> -1, events |-> <<>>] \in ViewRec /\ <<>> \in Seq(Frames)
    BY GatewayConstants DEF ViewRec
  <2>3. gwBuf' \in [Browsers -> Seq(Frames)] /\ view' \in [Browsers -> ViewRec] /\ gwBuf'[b] = <<>>
        /\ \A c \in Browsers : c # b => gwBuf'[c] = gwBuf[c] /\ view'[c] = view[c]
    BY <1>0, <2>1, <2>2 DEF StreamsTyped
  <2> QED  BY <1>0, <2>1, <2>3, PhaseKeeps DEF Served, StreamsTyped
<1>4. ASSUME NEW b \in Browsers, LeavesEarly(b)
      PROVE  GtInv'
  BY <1>0, <1>4, PhaseKeeps DEF LeavesEarly, Served, StreamsTyped
<1>5. CASE UNCHANGED gtVars
  BY <1>5 DEF gtVars, GtInv, StreamsTyped, HandedSound, Served, Seen, LineSound, LineOrdered,
              LineComplete, TopologyComing, EndsCurrent, OnlyEvents
<1> QED  BY <1>1, <1>2, <1>3, <1>4, <1>5, TapKeeps, HandedKeeps, ListenerKeeps, ConnectKeeps,
              SendKeeps
         DEF GtNext, GenStep

\* The first state.
LEMMA GtInitSound == GtInit => GtInv
<1> SUFFICES ASSUME GtInit
             PROVE  GtInv
  OBVIOUS
<1>1. <<>> \in Seq(Frames) /\ Len(<<>>) = 0 /\ [topo |-> -1, events |-> <<>>] \in ViewRec
  BY GatewayConstants DEF ViewRec
<1>2. StreamsTyped
  BY <1>1, GatewayConstants DEF GtInit, StreamsTyped
<1>3. HandedSound /\ Rising(handed)
  BY <1>1 DEF GtInit, HandedSound, Rising
<1> QED  BY <1>2, <1>3 DEF GtInit, GtInv, Served

\* The stream of events: a client whose queue never overflowed misses no event
\* since it connected and gets them in the tap's order, and it holds the
\* current topology once its queue is empty (plugin_gateway).
THEOREM EventsAreStreamed == GtSpec => [](GtTypeOK /\ NoEventMissed /\ TopologyIsCurrent)
<1> QED  BY GtInitSound, GtNextKeeps, GtImplies, PTL DEF GtSpec

-----------------------------------------------------------------------------
(***************************************************************************)
(* Replay of a stream (Replay).                                            *)
(***************************************************************************)

\* The seqs of b follow each other up to last.
Consecutive(b, last) == \A i \in 1..Len(b) : b[i].seq = last - Len(b) + i

\* What the buffer and the record of the stream say of what was dropped.
BufferSound ==
  /\ exists => rseq >= LoSeq
  /\ ~exists => kept = <<>>
  /\ stream # <<>> => rseq >= LoSeq
  /\ ~exists /\ Remembered => stream[2] = rseq
\* What the consumer has up to its position.
ReaderSound ==
  /\ pos <= rseq
  /\ Remembered => \A n \in matching : n <= pos => n \in got
RpInv == RpTypeOK /\ RetainedIsSuffix /\ BufferSound /\ ReaderSound /\ SplicedIsComplete

\* The least of a set of numbers.
LEMMA LeastIs ==
  ASSUME NEW T, T \subseteq Nat, T # {}
  PROVE  Min(T) \in T /\ \A y \in T : Min(T) <= y
<1>1. \E x \in T : \A y \in T : x <= y
  BY LeastNatural
<1> QED  BY <1>1 DEF Min

\* The sums of the sizes in a buffer, as Bytes runs through them.
LEMMA SumsExist ==
  ASSUME NEW b \in Seq(Events)
  PROVE  \E F \in [0..Len(b) -> Nat] : /\ F[0] = 0 /\ Bytes(b) = F[Len(b)]
                                       /\ \A i \in 1..Len(b) : F[i] = F[i - 1] + b[i].size
<1>0. Len(b) \in Nat /\ \A i \in 1..Len(b) : b[i].size \in Nat
  <2>1. Len(b) \in Nat /\ \A i \in 1..Len(b) : b[i] \in Events
    BY SeqElements
  <2> QED  BY <2>1, ReplayConstants DEF Events
<1> DEFINE Sums(n, g) == /\ g \in [0..n -> Nat] /\ g[0] = 0
                         /\ \A i \in 1..n : g[i] = g[i - 1] + b[i].size
           T == {n \in 0..Len(b) : ~\E g : Sums(n, g)}
<1>1. T = {}
  <2> SUFFICES ASSUME T # {}
               PROVE  FALSE
    OBVIOUS
  <2>1. PICK n \in T : \A m \in T : n <= m
    <3>1. T \subseteq Nat
      BY <1>0
    <3> HIDE DEF T
    <3> QED  BY <3>1, LeastNatural
  <2>2. CASE n = 0
    <3>1. Sums(0, [i \in 0..0 |-> 0])
      OBVIOUS
    <3> QED  BY <2>2, <3>1
  <2>3. CASE n # 0
    <3>1. n \in 1..Len(b) /\ n - 1 \in 0..Len(b) /\ n - 1 \in Nat /\ n \in Nat /\ ~(n <= n - 1)
      BY <1>0, <2>3
    <3>2. PICK g : Sums(n - 1, g)
      BY <2>1, <3>1
    <3>3. PICK s \in Nat : s = b[n].size
      BY <1>0, <3>1
    <3> DEFINE h == [i \in 0..n |-> IF i = n THEN g[n - 1] + s ELSE g[i]]
    <3>4. g \in [0..n - 1 -> Nat] /\ g[0] = 0 /\ n - 1 \in 0..n - 1
          /\ \A i \in 1..n - 1 : g[i] = g[i - 1] + b[i].size
      BY <3>1, <3>2
    <3>5. h \in [0..n -> Nat] /\ h[0] = 0 /\ h[n] = g[n - 1] + s /\ \A i \in 0..n - 1 : h[i] = g[i]
      BY <3>1, <3>4
    <3> HIDE DEF h
    <3>6. \A i \in 1..n : h[i] = h[i - 1] + b[i].size
      <4> SUFFICES ASSUME NEW i \in 1..n
                   PROVE  h[i] = h[i - 1] + b[i].size
        OBVIOUS
      <4>1. CASE i = n
        BY <3>3, <3>4, <3>5, <4>1
      <4>2. CASE i # n
        <5>1. i \in 1..n - 1 /\ i \in 0..n - 1 /\ i - 1 \in 0..n - 1
          BY <3>1, <4>2
        <5> QED  BY <3>4, <3>5, <5>1
      <4> QED  BY <4>1, <4>2
    <3>7. Sums(n, h)
      BY <3>5, <3>6
    <3> QED  BY <3>7
  <2> QED  BY <2>2, <2>3
<1>2. PICK g : Sums(Len(b), g)
  BY <1>0, <1>1
<1> DEFINE Steps(f) == f = [i \in 0..Len(b) |-> IF i = 0 THEN 0 ELSE f[i - 1] + b[i].size]
<1>3. Steps(g)
  <2>1. g = [i \in 0..Len(b) |-> g[i]]
    BY <1>2
  <2>2. \A i \in 0..Len(b) : g[i] = IF i = 0 THEN 0 ELSE g[i - 1] + b[i].size
    BY <1>0, <1>2
  <2> HIDE DEF Sums
  <2> QED  BY <2>1, <2>2
<1>4. PICK F : F = (CHOOSE f : Steps(f))
  OBVIOUS
<1>5. Steps(F)
  <2> HIDE DEF Steps
  <2> QED  BY <1>3, <1>4
<1>6. Bytes(b) = F[Len(b)]
  BY <1>4 DEF Bytes
<1>7. F[0] = 0 /\ (\A i \in 1..Len(b) : F[i] = F[i - 1] + b[i].size) /\ DOMAIN F = 0..Len(b)
  BY <1>0, <1>5
<1>8. \A i \in 0..Len(b) : F[i] \in Nat
  <2> DEFINE U == {i \in 0..Len(b) : F[i] \notin Nat}
  <2> SUFFICES ASSUME U # {}
               PROVE  FALSE
    OBVIOUS
  <2>1. PICK n \in U : \A m \in U : n <= m
    <3>1. U \subseteq Nat
      BY <1>0
    <3> HIDE DEF U
    <3> QED  BY <3>1, LeastNatural
  <2>2. n # 0
    BY <1>7
  <2>3. n \in 1..Len(b) /\ n - 1 \in 0..Len(b) /\ n \in Nat /\ ~(n <= n - 1)
    BY <1>0, <2>2
  <2>4. F[n - 1] \in Nat
    BY <2>1, <2>3
  <2> QED  BY <1>0, <1>7, <2>3, <2>4
<1> HIDE DEF Steps, Sums, T
<1>9. F = [i \in 0..Len(b) |-> F[i]]
  BY <1>5 DEF Steps
<1>10. F \in [0..Len(b) -> Nat]
  BY <1>8, <1>9
<1> QED  BY <1>6, <1>7, <1>10

\* What is left of a buffer from a position on.
LEMMA FromFacts ==
  ASSUME NEW b \in Seq(Events), NEW k \in 1..Len(b) + 1
  PROVE  /\ From(b, k) \in Seq(Events) /\ Len(From(b, k)) = Len(b) + 1 - k
         /\ \A i \in 1..Len(b) + 1 - k : From(b, k)[i] = b[i + k - 1]
<1>1. Len(b) \in Nat /\ k \in Int /\ k >= 1 /\ \A i \in k..Len(b) : i \in 1..Len(b)
  OBVIOUS
<1>2. \A i \in k..Len(b) : b[i] \in Events
  BY <1>1, SeqElements
<1>3. /\ SubSeq(b, k, Len(b)) \in Seq(Events)
      /\ Len(SubSeq(b, k, Len(b))) = IF k <= Len(b) THEN Len(b) - k + 1 ELSE 0
      /\ \A i \in 1..Len(b) - k + 1 : SubSeq(b, k, Len(b))[i] = b[k + i - 1]
  BY <1>1, <1>2, SubSeqProperties
<1>4. Len(b) - k + 1 = Len(b) + 1 - k /\ (IF k <= Len(b) THEN Len(b) - k + 1 ELSE 0) = Len(b) + 1 - k
      /\ \A i \in 1..Len(b) + 1 - k : k + i - 1 = i + k - 1
  BY <1>1
<1> QED  BY <1>3, <1>4 DEF From

\* A part of a buffer from a position on is no larger than the whole.
LEMMA FromIsSmaller ==
  ASSUME NEW b \in Seq(Events), NEW k \in 1..Len(b) + 1
  PROVE  Bytes(From(b, k)) <= Bytes(b) /\ Bytes(b) \in Nat /\ Bytes(From(b, k)) \in Nat
<1>1. PICK c \in Seq(Events) : /\ c = From(b, k) /\ Len(c) = Len(b) + 1 - k
                               /\ \A i \in 1..Len(b) + 1 - k : c[i] = b[i + k - 1]
  BY FromFacts
<1>2. PICK F \in [0..Len(b) -> Nat] : /\ F[0] = 0 /\ Bytes(b) = F[Len(b)]
                                      /\ \A i \in 1..Len(b) : F[i] = F[i - 1] + b[i].size
  BY SumsExist
<1>3. PICK G \in [0..Len(c) -> Nat] : /\ G[0] = 0 /\ Bytes(c) = G[Len(c)]
                                      /\ \A i \in 1..Len(c) : G[i] = G[i - 1] + c[i].size
  BY SumsExist
<1>4. Len(b) \in Nat /\ Len(c) \in Nat /\ k \in Nat /\ k >= 1 /\ k - 1 \in 0..Len(b)
  BY <1>1
<1>n. /\ \A i \in 0..Len(b) : F[i] \in Nat
      /\ \A i \in 0..Len(c) : G[i] \in Nat
  BY <1>2, <1>3
<1> DEFINE T == {i \in 0..Len(c) : G[i] + F[k - 1] # F[i + k - 1]}
<1>5. T = {}
  <2> SUFFICES ASSUME T # {}
               PROVE  FALSE
    OBVIOUS
  <2>1. PICK n \in T : \A m \in T : n <= m
    <3>1. T \subseteq Nat
      BY <1>4
    <3> HIDE DEF T
    <3> QED  BY <3>1, LeastNatural
  <2>2. n # 0
    <3>1. 0 + k - 1 = k - 1 /\ F[k - 1] \in Nat
      BY <1>4, <1>n
    <3>2. G[0] + F[k - 1] = F[0 + k - 1]
      BY <1>3, <3>1
    <3> QED  BY <2>1, <3>2
  <2>3. n \in 1..Len(c) /\ n - 1 \in 0..Len(c) /\ ~(n <= n - 1) /\ n + k - 1 \in 1..Len(b)
        /\ (n + k - 1) - 1 = (n - 1) + k - 1 /\ (n + k - 1) - 1 \in 0..Len(b)
    BY <1>1, <1>4, <2>2
  <2>4. G[n - 1] + F[k - 1] = F[(n + k - 1) - 1]
    BY <2>1, <2>3
  <2>5. c[n] = b[n + k - 1]
    BY <1>1, <2>3
  <2>6. c[n].size \in Nat
    <3>1. c[n] \in Events
      BY <2>3, SeqElements
    <3> QED  BY <3>1, ReplayConstants DEF Events
  <2>7. PICK s \in Nat : s = c[n].size /\ s = b[n + k - 1].size
    BY <2>5, <2>6
  <2>8. G[n] = G[n - 1] + s /\ F[n + k - 1] = F[(n + k - 1) - 1] + s
    BY <1>2, <1>3, <2>3, <2>7
  <2>9. G[n - 1] \in Nat /\ F[k - 1] \in Nat /\ F[(n + k - 1) - 1] \in Nat
    BY <1>4, <1>n, <2>3
  <2>10. G[n] + F[k - 1] = F[n + k - 1]
    <3>1. PICK x, y, z \in Nat : x = G[n - 1] /\ y = F[k - 1] /\ z = F[(n + k - 1) - 1]
      BY <2>9
    <3>2. x + y = z /\ G[n] = x + s /\ F[n + k - 1] = z + s
      BY <2>4, <2>8, <3>1
    <3>3. (x + s) + y = z + s
      BY <3>2
    <3> QED  BY <3>1, <3>2, <3>3
  <2> QED  BY <2>1, <2>10
<1>6. G[Len(c)] + F[k - 1] = F[Len(b)]
  <2>1. Len(c) \in 0..Len(c) /\ Len(c) + k - 1 = Len(b)
    BY <1>1, <1>4
  <2> QED  BY <1>5, <2>1
<1>7. G[Len(c)] \in Nat /\ F[k - 1] \in Nat /\ F[Len(b)] \in Nat
  <2>1. Len(c) \in 0..Len(c) /\ Len(b) \in 0..Len(b)
    BY <1>4
  <2> QED  BY <1>4, <1>n, <2>1
<1> QED  BY <1>1, <1>2, <1>3, <1>6, <1>7

\* An empty buffer is empty.
LEMMA NoBytes == <<>> \in Seq(Events) /\ Bytes(<<>>) = 0
<1>e. <<>> \in Seq(Events) /\ Len(<<>>) = 0
  OBVIOUS
<1>1. PICK b \in Seq(Events) : b = <<>> /\ Len(b) = 0
  BY <1>e
<1>2. PICK F \in [0..Len(b) -> Nat] : F[0] = 0 /\ Bytes(b) = F[Len(b)]
  BY SumsExist
<1> QED  BY <1>1, <1>2

\* What is left of consecutive events ends with the same one.
LEMMA FromIsConsecutive ==
  ASSUME NEW b \in Seq(Events), NEW k \in 1..Len(b) + 1, NEW last \in Int, Consecutive(b, last)
  PROVE  Consecutive(From(b, k), last)
<1>1. PICK c \in Seq(Events) : /\ c = From(b, k) /\ Len(c) = Len(b) + 1 - k
                               /\ \A i \in 1..Len(b) + 1 - k : c[i] = b[i + k - 1]
  BY FromFacts
<1>2. Len(b) \in Nat /\ Len(c) \in Nat
  OBVIOUS
<1> SUFFICES ASSUME NEW i \in 1..Len(c)
             PROVE  c[i].seq = last - Len(c) + i
  BY <1>1 DEF Consecutive
<1>3. i + k - 1 \in 1..Len(b) /\ c[i] = b[i + k - 1]
  BY <1>1, <1>2
<1>4. b[i + k - 1].seq = last - Len(b) + (i + k - 1)
  BY <1>3 DEF Consecutive
<1>5. last - Len(b) + (i + k - 1) = last - Len(c) + i
  BY <1>1, <1>2
<1> QED  BY <1>3, <1>4, <1>5

\* Eviction leaves the end of a buffer.
LEMMA EvictionFacts ==
  ASSUME RpTypeOK, NEW b \in Seq(Events)
  PROVE  /\ \E k \in 1..Len(b) + 1 : Aged(b) = From(b, k)
         /\ \E k \in 1..Len(b) + 1 : Enforced(b) = From(b, k) /\ Bytes(From(b, k)) <= MaxBytes
<1>0. Len(b) \in Nat /\ Len(b) + 1 \in 1..Len(b) + 1
  OBVIOUS
<1>1. Young(b) \subseteq 1..Len(b) + 1 /\ Len(b) + 1 \in Young(b)
  BY <1>0 DEF Young
<1>2. Fitting(b) \subseteq 1..Len(b) + 1 /\ \A k \in Fitting(b) : Bytes(From(b, k)) <= MaxBytes
  BY DEF Fitting
<1>3. Len(b) + 1 \in Fitting(b)
  <2>1. From(b, Len(b) + 1) \in Seq(Events) /\ Len(From(b, Len(b) + 1)) = Len(b) + 1 - (Len(b) + 1)
    BY <1>0, FromFacts
  <2>2. From(b, Len(b) + 1) = <<>>
    BY <1>0, <2>1
  <2>3. Bytes(From(b, Len(b) + 1)) <= MaxBytes
    BY <2>2, NoBytes, ReplayConstants
  <2> QED  BY <1>0, <2>3 DEF Fitting
<1>4. PICK Y : Y = Young(b)
  OBVIOUS
<1>5. PICK Z : Z = Young(b) \cap Fitting(b)
  OBVIOUS
<1>6. Y \subseteq Nat /\ Y # {} /\ Z \subseteq Nat /\ Z # {}
  BY <1>0, <1>1, <1>3, <1>4, <1>5
<1>7. Min(Y) \in Y /\ Min(Z) \in Z
  BY <1>6, LeastIs
<1> QED  BY <1>1, <1>2, <1>4, <1>5, <1>7 DEF Aged, Enforced

\* What is said to be dropped is what is below the rest.
LEMMA DroppedIs ==
  ASSUME NEW b \in Seq(Events), NEW k \in 1..Len(b) + 1, NEW last \in Int, Consecutive(b, last),
         NEW r \in Seq(Events), r = From(b, k)
  PROVE  \/ r = b
         \/ r # b /\ b[Len(b) - Len(r)].seq = last - Len(r) /\ last - Len(r) \in Seqs
<1>1. Len(r) = Len(b) + 1 - k /\ \A i \in 1..Len(b) + 1 - k : r[i] = b[i + k - 1]
  BY FromFacts
<1>2. Len(b) \in Nat /\ Len(r) \in Nat /\ k \in Nat /\ k >= 1
  BY <1>1
<1>3. CASE k = 1
  <2>1. Len(r) = Len(b) /\ \A i \in 1..Len(b) : r[i] = b[i]
    BY <1>1, <1>2, <1>3
  <2>2. r = b
    BY <2>1, SeqEqual
  <2> QED  BY <2>2
<1>4. CASE k # 1
  <2>1. Len(r) < Len(b) /\ Len(b) - Len(r) \in 1..Len(b) /\ r # b
    BY <1>1, <1>2, <1>4
  <2>2. b[Len(b) - Len(r)].seq = last - Len(b) + (Len(b) - Len(r))
    BY <2>1 DEF Consecutive
  <2>3. last - Len(b) + (Len(b) - Len(r)) = last - Len(r)
    BY <1>2
  <2>4. b[Len(b) - Len(r)].seq \in Seqs
    <3>1. b[Len(b) - Len(r)] \in Events
      BY <2>1, SeqElements
    <3> QED  BY <3>1 DEF Events
  <2> QED  BY <2>1, <2>2, <2>3, <2>4
<1> QED  BY <1>3, <1>4

\* The record of a stream.
LEMMA StreamIs ==
  ASSUME RpTypeOK
  PROVE  /\ stream # <<>> => stream[1] \in Seqs /\ stream[2] \in 0..HiSeq
         /\ \A x \in Seqs, y \in 0..HiSeq :
              /\ <<x, y>> # <<>> /\ <<x, y>>[1] = x /\ <<x, y>>[2] = y
              /\ <<x, y>> \in {<<>>} \cup (Seqs \X (0..HiSeq))
BY DEF RpTypeOK

\* The numbers are numbers.
LEMMA RpNumbers ==
  ASSUME RpTypeOK
  PROVE  /\ rseq \in Int /\ rseq >= LoSeq - 1 /\ rseq <= HiSeq /\ pos \in Int /\ pos >= -1
         /\ LoSeq \in Nat /\ LoSeq >= 1 /\ HiSeq \in Nat /\ LoSeq <= HiSeq
         /\ old \in Int /\ old >= LoSeq - 1 /\ old <= rseq
         /\ \A n \in matching : n \in Seqs /\ n \in Nat /\ n >= LoSeq
BY ReplayConstants DEF RpTypeOK, Seqs

\* An event is stored and delivered.
LEMMA ReplayStores ==
  ASSUME RpInv, NEW size \in 1..MaxBytes + 1, OnReplayEvent(size)
  PROVE  RpInv'
<1>t. RpTypeOK /\ RetainedIsSuffix /\ BufferSound /\ ReaderSound /\ SplicedIsComplete
  BY DEF RpInv
<1>n. /\ rseq \in Int /\ rseq >= LoSeq - 1 /\ rseq <= HiSeq /\ pos \in Int /\ pos >= -1
      /\ LoSeq \in Nat /\ LoSeq >= 1 /\ HiSeq \in Nat /\ LoSeq <= HiSeq
      /\ \A n \in matching : n \in Seqs /\ n \in Nat /\ n >= LoSeq
  BY <1>t, RpNumbers
<1> DEFINE e == [seq |-> rseq + 1, size |-> size]
           rec == IF stream = <<>> THEN <<rseq + 1, 0>> ELSE stream
           was == IF exists THEN dropped ELSE rec[2]
<1>1. PICK full : full = Append(kept, e)
  OBVIOUS
<1>2. /\ rseq < HiSeq /\ rseq' = rseq + 1 /\ stream' = rec /\ kept' = Enforced(full)
      /\ dropped' = DroppedBy(full, kept', was) /\ exists' = TRUE
      /\ got' = IF reader = "away" THEN got ELSE got \cup {rseq + 1}
      /\ UNCHANGED <<old, matching, reader, pos, missed>>
  BY <1>1 DEF OnReplayEvent
<1>3. rseq + 1 \in Seqs
  BY <1>n, <1>2 DEF Seqs
<1>4. e \in Events
  BY <1>3 DEF Events
<1>5. kept \in Seq(Events) /\ Len(kept) \in Nat /\ Consecutive(kept, rseq)
  BY <1>t DEF RpTypeOK, RetainedIsSuffix, Consecutive
<1> HIDE DEF e
<1>6. /\ full \in Seq(Events) /\ Len(full) = Len(kept) + 1 /\ full[Len(kept) + 1] = e
      /\ \A i \in 1..Len(kept) : full[i] = kept[i]
  <2>1. /\ Append(kept, e) \in Seq(Events) /\ Len(Append(kept, e)) = Len(kept) + 1
        /\ \A i \in 1..(Len(kept) + 1) : Append(kept, e)[i] = IF i = Len(kept) + 1 THEN e ELSE kept[i]
    BY <1>4, <1>5, AppendFacts
  <2>2. Len(kept) + 1 \in 1..Len(kept) + 1 /\ \A i \in 1..Len(kept) : i \in 1..Len(kept) + 1 /\ i # Len(kept) + 1
    BY <1>5
  <2> QED  BY <1>1, <2>1, <2>2
<1>7. Consecutive(full, rseq + 1)
  <2> SUFFICES ASSUME NEW i \in 1..Len(full)
               PROVE  full[i].seq = (rseq + 1) - Len(full) + i
    BY DEF Consecutive
  <2>1. CASE i = Len(kept) + 1
    <3>1. full[i].seq = rseq + 1
      BY <1>6, <2>1 DEF e
    <3>2. (rseq + 1) - Len(full) + i = rseq + 1
      BY <1>n, <1>5, <1>6, <2>1
    <3> QED  BY <3>1, <3>2
  <2>2. CASE i # Len(kept) + 1
    <3>1. i \in 1..Len(kept)
      BY <1>5, <1>6, <2>2
    <3>2. full[i].seq = rseq - Len(kept) + i
      BY <1>5, <1>6, <3>1 DEF Consecutive
    <3>3. rseq - Len(kept) + i = (rseq + 1) - Len(full) + i
      BY <1>n, <1>5, <1>6, <3>1
    <3> QED  BY <3>2, <3>3
  <2> QED  BY <2>1, <2>2
<1>8. PICK k \in 1..Len(full) + 1 : Enforced(full) = From(full, k) /\ Bytes(From(full, k)) <= MaxBytes
  BY <1>t, <1>6, EvictionFacts
<1>9. PICK r \in Seq(Events) : r = From(full, k) /\ r = kept'
  BY <1>2, <1>6, <1>8, FromFacts
<1>10. Consecutive(r, rseq + 1) /\ Bytes(r) <= MaxBytes
  <2>1. rseq + 1 \in Int
    BY <1>n
  <2> QED  BY <1>6, <1>7, <1>8, <1>9, <2>1, FromIsConsecutive
<1>11. /\ r = full => DroppedBy(full, r, was) = was
       /\ r # full => /\ DroppedBy(full, r, was) = (rseq + 1) - Len(r)
                      /\ (rseq + 1) - Len(r) \in Seqs
  <2>1. PICK last \in Int : last = rseq + 1
    BY <1>n
  <2>2. PICK w : w = was
    OBVIOUS
  <2>3. Consecutive(full, last)
    BY <1>7, <2>1
  <2>a. \/ r = full
        \/ r # full /\ full[Len(full) - Len(r)].seq = last - Len(r) /\ last - Len(r) \in Seqs
    BY <1>6, <1>9, <2>3, DroppedIs
  <2>b. /\ r = full => DroppedBy(full, r, w) = w
        /\ r # full => DroppedBy(full, r, w) = full[Len(full) - Len(r)].seq
    BY DEF DroppedBy
  <2>4. /\ r = full => DroppedBy(full, r, w) = w
        /\ r # full => DroppedBy(full, r, w) = last - Len(r) /\ last - Len(r) \in Seqs
    BY <2>a, <2>b
  <2> HIDE DEF was
  <2> QED  BY <2>1, <2>2, <2>4
<1>12. /\ stream # <<>> => stream[1] \in Seqs /\ stream[2] \in 0..HiSeq
       /\ stream' # <<>> /\ stream' \in {<<>>} \cup (Seqs \X (0..HiSeq))
       /\ stream = <<>> => stream'[1] = rseq + 1 /\ stream'[2] = 0
       /\ stream # <<>> => stream' = stream
       /\ rec[2] \in 0..HiSeq
  <2>1. CASE stream = <<>>
    <3>1. 0 \in 0..HiSeq
      BY <1>n
    <3>2. stream' = <<rseq + 1, 0>> /\ rec = <<rseq + 1, 0>>
      BY <1>2, <2>1
    <3> HIDE DEF rec
    <3> QED  BY <1>t, <1>3, <2>1, <3>1, <3>2, StreamIs
  <2>2. CASE stream # <<>>
    BY <1>t, <1>2, <2>2, StreamIs DEF RpTypeOK
  <2> QED  BY <2>1, <2>2
<1>13. Remembered' => Remembered \/ rseq = LoSeq - 1
  BY <1>n, <1>12 DEF Remembered
<1>14. was \in 0..HiSeq /\ (Remembered' => was = IF rseq - Len(kept) < LoSeq THEN 0 ELSE rseq - Len(kept))
  <2>1. CASE exists
    <3>1. was = dropped /\ dropped \in 0..HiSeq /\ rseq >= LoSeq
      BY <1>t, <2>1 DEF RpTypeOK, BufferSound
    <3>2. Remembered' => Remembered
      BY <1>n, <1>13, <3>1
    <3> QED  BY <1>t, <2>1, <3>1, <3>2 DEF RetainedIsSuffix
  <2>2. CASE ~exists
    <3>1. was = rec[2] /\ kept = <<>> /\ Len(kept) = 0
      BY <1>t, <2>2 DEF BufferSound
    <3>2. CASE stream = <<>>
      <4>1. rec[2] = 0 /\ (Remembered' => rseq + 1 = LoSeq)
        BY <1>2, <1>12, <3>2 DEF Remembered
      <4> QED  BY <1>n, <3>1, <4>1
    <3>3. CASE stream # <<>>
      <4>1. rec[2] = stream[2] /\ (Remembered' => Remembered)
        BY <1>12, <3>3 DEF Remembered
      <4>2. rseq >= LoSeq /\ (Remembered => stream[2] = rseq)
        BY <1>t, <2>2, <3>3 DEF BufferSound
      <4>3. rec[2] \in 0..HiSeq
        BY <1>12
      <4> HIDE DEF rec, was
      <4>4. ~(rseq - Len(kept) < LoSeq) /\ rseq - Len(kept) = rseq
        BY <1>n, <3>1, <4>2
      <4> QED  BY <3>1, <4>1, <4>2, <4>3, <4>4
    <3> QED  BY <3>2, <3>3
  <2> QED  BY <2>1, <2>2
<1> HIDE DEF was, rec
<1>15. dropped' \in 0..HiSeq
       /\ (Remembered' => dropped' = IF rseq' - Len(r) < LoSeq THEN 0 ELSE rseq' - Len(r))
  <2>1. CASE r = full
    <3>1. dropped' = was
      BY <1>2, <1>9, <1>11, <2>1
    <3>2. rseq' - Len(r) = rseq - Len(kept)
      <4>1. rseq' = rseq + 1 /\ Len(r) = Len(kept) + 1
        BY <1>2, <1>6, <2>1
      <4> HIDE DEF Consecutive
      <4> QED  BY <1>n, <1>5, <4>1
    <3> QED  BY <1>14, <3>1, <3>2
  <2>2. CASE r # full
    <3>1. dropped' = rseq' - Len(r) /\ rseq' - Len(r) \in Seqs
      BY <1>2, <1>9, <1>11, <2>2
    <3> QED  BY <1>n, <3>1 DEF Seqs
  <2> QED  BY <2>1, <2>2
<1>16. RpTypeOK'
  <2>1. got' \subseteq Seqs
    BY <1>t, <1>2, <1>3 DEF RpTypeOK
  <2>2. rseq' \in LoSeq - 1..HiSeq /\ old' \in LoSeq - 1..rseq'
    BY <1>t, <1>n, <1>2 DEF RpTypeOK
  <2> QED  BY <1>t, <1>2, <1>9, <1>12, <1>15, <2>1, <2>2 DEF RpTypeOK
<1>17. RetainedIsSuffix'
  BY <1>2, <1>9, <1>10, <1>15 DEF RetainedIsSuffix, Consecutive
<1>18. BufferSound'
  BY <1>n, <1>2 DEF BufferSound
<1>19. got \subseteq got' /\ (reader # "away" => rseq + 1 \in got')
  BY <1>2
<1>20. ReaderSound'
  <2>1. pos' <= rseq'
    BY <1>t, <1>n, <1>2 DEF ReaderSound
  <2>2. ASSUME Remembered', NEW n \in matching, n <= pos
        PROVE  n \in got'
    BY <1>t, <1>n, <1>13, <1>19, <2>2 DEF ReaderSound
  <2> QED  BY <1>2, <2>1, <2>2 DEF ReaderSound
<1>21. SplicedIsComplete'
  <2> SUFFICES ASSUME reader = "spliced", ~missed, Remembered', NEW n \in matching, n <= rseq + 1
               PROVE  n \in got'
    BY <1>2 DEF SplicedIsComplete, Lost
  <2>1. CASE n = rseq + 1
    BY <1>19, <2>1
  <2>2. CASE n # rseq + 1
    <3>1. n <= rseq /\ rseq # LoSeq - 1
      BY <1>n, <2>2
    <3>2. Lost = {}
      BY <1>t, <1>13, <3>1 DEF SplicedIsComplete
    <3> QED  BY <1>19, <3>1, <3>2 DEF Lost
  <2> QED  BY <2>1, <2>2
<1> QED  BY <1>16, <1>17, <1>18, <1>20, <1>21 DEF RpInv

\* What age leaves of the buffer.
LEMMA AgedBuffer ==
  ASSUME RpInv, exists
  PROVE  \E r \in Seq(Events) :
           /\ r = Aged(kept) /\ Consecutive(r, rseq) /\ Bytes(r) <= MaxBytes
           /\ DroppedBy(kept, r, dropped) \in 0..HiSeq
           /\ Remembered => DroppedBy(kept, r, dropped) =
                              IF rseq - Len(r) < LoSeq THEN 0 ELSE rseq - Len(r)
<1>t. RpTypeOK /\ RetainedIsSuffix /\ BufferSound
  BY DEF RpInv
<1>n. rseq \in Int /\ rseq <= HiSeq /\ LoSeq \in Nat /\ LoSeq >= 1 /\ HiSeq \in Nat
  BY <1>t, RpNumbers
<1>2. kept \in Seq(Events) /\ Len(kept) \in Nat /\ Consecutive(kept, rseq) /\ Bytes(kept) <= MaxBytes
      /\ dropped \in 0..HiSeq
  BY <1>t DEF RpTypeOK, RetainedIsSuffix, Consecutive
<1>3. PICK k \in 1..Len(kept) + 1 : Aged(kept) = From(kept, k)
  BY <1>t, <1>2, EvictionFacts
<1>4. PICK r \in Seq(Events) : r = From(kept, k) /\ r = Aged(kept)
  BY <1>2, <1>3, FromFacts
<1>5. Consecutive(r, rseq)
  BY <1>n, <1>2, <1>4, FromIsConsecutive
<1>6. Bytes(r) <= MaxBytes
  <2>1. Bytes(r) <= Bytes(kept) /\ Bytes(kept) \in Nat /\ Bytes(r) \in Nat
    BY <1>2, <1>4, FromIsSmaller
  <2> QED  BY <1>2, <2>1, ReplayConstants
<1>7. PICK d : d = DroppedBy(kept, r, dropped)
  OBVIOUS
<1>8. /\ r = kept => d = dropped
      /\ r # kept => d = rseq - Len(r) /\ rseq - Len(r) \in Seqs
  <2>1. \/ r = kept
        \/ r # kept /\ kept[Len(kept) - Len(r)].seq = rseq - Len(r) /\ rseq - Len(r) \in Seqs
    BY <1>n, <1>2, <1>4, DroppedIs
  <2>2. /\ r = kept => d = dropped
        /\ r # kept => d = kept[Len(kept) - Len(r)].seq
    BY <1>7 DEF DroppedBy
  <2> QED  BY <2>1, <2>2
<1>9. d \in 0..HiSeq /\ (Remembered => d = IF rseq - Len(r) < LoSeq THEN 0 ELSE rseq - Len(r))
  <2>1. CASE r = kept
    <3>1. d = dropped
      BY <1>8, <2>1
    <3> QED  BY <1>t, <1>2, <2>1, <3>1 DEF RetainedIsSuffix
  <2>2. CASE r # kept
    <3>1. d = rseq - Len(r) /\ rseq - Len(r) \in Seqs
      BY <1>8, <2>2
    <3> QED  BY <1>n, <3>1 DEF Seqs
  <2> QED  BY <2>1, <2>2
<1> QED  BY <1>4, <1>5, <1>6, <1>7, <1>9

\* The sweeper runs.
LEMMA SweepKeeps ==
  ASSUME RpInv, EvictAged
  PROVE  RpInv'
<1>t. RpTypeOK /\ RetainedIsSuffix /\ BufferSound /\ ReaderSound /\ SplicedIsComplete
  BY DEF RpInv
<1>n. /\ rseq \in Int /\ rseq >= LoSeq - 1 /\ rseq <= HiSeq
      /\ LoSeq \in Nat /\ LoSeq >= 1 /\ HiSeq \in Nat
  BY <1>t, RpNumbers
<1>1. /\ exists /\ kept' = Aged(kept) /\ exists' = (kept' # <<>>)
      /\ dropped' = IF exists' THEN DroppedBy(kept, kept', dropped) ELSE 0
      /\ stream' = IF exists' \/ stream = <<>> THEN stream
                   ELSE <<stream[1], DroppedBy(kept, kept', dropped)>>
      /\ UNCHANGED <<rseq, old, matching, reader, pos, got, missed>>
  BY DEF EvictAged
<1>2. kept \in Seq(Events) /\ Len(kept) \in Nat /\ Consecutive(kept, rseq) /\ Bytes(kept) <= MaxBytes
      /\ dropped \in 0..HiSeq /\ rseq >= LoSeq
  BY <1>t, <1>1 DEF RpTypeOK, RetainedIsSuffix, Consecutive, BufferSound
<1>4. PICK r \in Seq(Events) :
        /\ r = Aged(kept) /\ Consecutive(r, rseq) /\ Bytes(r) <= MaxBytes
        /\ DroppedBy(kept, r, dropped) \in 0..HiSeq
        /\ Remembered => DroppedBy(kept, r, dropped) =
                           IF rseq - Len(r) < LoSeq THEN 0 ELSE rseq - Len(r)
  BY <1>1, AgedBuffer
<1>7. PICK d : d = DroppedBy(kept, r, dropped)
  OBVIOUS
<1>9. /\ r = kept' /\ Consecutive(r, rseq) /\ Bytes(r) <= MaxBytes
      /\ d \in 0..HiSeq /\ (Remembered => d = IF rseq - Len(r) < LoSeq THEN 0 ELSE rseq - Len(r))
  BY <1>1, <1>4, <1>7
<1>10. /\ stream # <<>> => stream[1] \in Seqs
       /\ stream' \in {<<>>} \cup (Seqs \X (0..HiSeq)) /\ (stream' # <<>> <=> stream # <<>>)
       /\ stream # <<>> => stream'[1] = stream[1]
       /\ stream # <<>> /\ ~exists' => stream'[2] = d
  <2>1. stream # <<>> => stream[1] \in Seqs
    BY <1>t, StreamIs
  <2>2. CASE exists' \/ stream = <<>>
    BY <1>t, <1>1, <2>1, <2>2 DEF RpTypeOK
  <2>3. CASE ~(exists' \/ stream = <<>>)
    <3>1. stream' = <<stream[1], d>>
      BY <1>1, <1>7, <1>9, <2>3
    <3> QED  BY <1>t, <1>9, <2>1, <2>3, <3>1, StreamIs
  <2> QED  BY <2>1, <2>2, <2>3
<1>11. Remembered' <=> Remembered
  BY <1>10 DEF Remembered
<1>12. dropped' = IF exists' THEN d ELSE 0
  BY <1>1, <1>7, <1>9
<1>13. RpTypeOK'
  <2>1. dropped' \in 0..HiSeq /\ exists' \in BOOLEAN
    BY <1>n, <1>1, <1>9, <1>12
  <2> QED  BY <1>t, <1>1, <1>9, <1>10, <2>1 DEF RpTypeOK
<1>14. RetainedIsSuffix'
  BY <1>1, <1>9, <1>11, <1>12 DEF RetainedIsSuffix, Consecutive
<1>15. BufferSound'
  <2>1. ~exists' => kept' = <<>> /\ r = <<>> /\ Len(r) = 0
    <3>1. ~exists' => kept' = <<>>
      BY <1>1, Zenon
    <3> QED  BY <1>9, <3>1
  <2>2. ASSUME ~exists', Remembered'
        PROVE  stream'[2] = rseq'
    <3>1. stream'[2] = d /\ Remembered
      BY <1>10, <1>11, <2>2 DEF Remembered
    <3>2. d = rseq
      BY <1>n, <1>2, <1>9, <2>1, <2>2, <3>1
    <3> QED  BY <1>1, <3>1, <3>2
  <2> QED  BY <1>t, <1>1, <1>2, <1>10, <2>1, <2>2 DEF BufferSound
<1>16. ReaderSound' /\ SplicedIsComplete'
  BY <1>t, <1>1, <1>11 DEF ReaderSound, SplicedIsComplete, Lost
<1> QED  BY <1>13, <1>14, <1>15, <1>16 DEF RpInv

\* The greatest of a set of numbers with a bound.
LEMMA GreatestIs ==
  ASSUME NEW N \in Nat, NEW T, T \subseteq 0..N, T # {}
  PROVE  Max(T) \in T /\ \A y \in T : y <= Max(T)
<1> DEFINE U == {N - x : x \in T}
<1>1. U \subseteq Nat /\ U # {}
  <2>1. \A x \in T : N - x \in Nat
    OBVIOUS
  <2>2. U \subseteq Nat
    BY <2>1
  <2>3. PICK x : x \in T
    OBVIOUS
  <2>4. N - x \in U
    BY <2>3
  <2> QED  BY <2>2, <2>4
<1>2. PICK u \in U : \A v \in U : u <= v
  <2> HIDE DEF U
  <2> QED  BY <1>1, LeastNatural
<1>3. PICK x \in T : u = N - x
  OBVIOUS
<1>4. ASSUME NEW y \in T
      PROVE  x >= y
  <2>1. N - x <= N - y
    BY <1>2, <1>3
  <2>2. x \in Int /\ y \in Int
    OBVIOUS
  <2> QED  BY <2>1, <2>2
<1>5. Max(T) \in T /\ \A y \in T : Max(T) >= y
  BY <1>4 DEF Max
<1>6. \A y \in T : y \in Int
  OBVIOUS
<1> QED  BY <1>5, <1>6

\* What a fetch selects: the first of what is there to select.
LEMMA SelectFacts ==
  ASSUME RpTypeOK, NEW b \in Seq(Events), Consecutive(b, rseq), NEW lower \in Int,
         NEW batch, batch = Select(b, lower)
  PROVE  /\ batch \subseteq Seqs /\ \A n \in batch : n <= rseq
         /\ batch # {} => Max(batch) \in batch
         /\ \A n \in matching : n > lower /\ n > rseq - Len(b) /\ n <= rseq =>
              batch # {} /\ (n <= Max(batch) => n \in batch)
<1>n. /\ rseq \in Int /\ rseq <= HiSeq /\ LoSeq \in Nat /\ LoSeq >= 1 /\ HiSeq \in Nat
      /\ \A n \in matching : n \in Seqs /\ n \in Nat
      /\ BatchMax \in Nat \ {0}
  BY RpNumbers, ReplayConstants
<1> DEFINE found == {i \in 1..Len(b) : b[i].seq > lower /\ EventMatches(b[i])}
           Under(i) == {j \in found : j < i}
<1>1. batch = {b[i].seq : i \in {i \in found : Cardinality(Under(i)) < BatchMax}}
  BY DEF Select
<1>2. Len(b) \in Nat /\ \A i \in 1..Len(b) : b[i].seq \in Seqs /\ b[i].seq = rseq - Len(b) + i
  <2>1. \A i \in 1..Len(b) : b[i] \in Events
    BY SeqElements
  <2> QED  BY <2>1 DEF Consecutive, Events
<1>3. /\ found \subseteq 1..Len(b) /\ IsFiniteSet(found) /\ found \subseteq Nat
      /\ \A i : Under(i) \subseteq found
  <2>1. IsFiniteSet(1..Len(b))
    BY <1>2, FS_Interval
  <2>2. found \subseteq 1..Len(b) /\ found \in SUBSET (1..Len(b)) /\ found \subseteq Nat
    BY <1>2
  <2> QED  BY <2>1, <2>2, FS_Subset
<1>4. batch \subseteq Seqs /\ \A n \in batch : n <= rseq
  <2> SUFFICES ASSUME NEW n \in batch
               PROVE  n \in Seqs /\ n <= rseq
    OBVIOUS
  <2>1. PICK i \in found : n = b[i].seq
    BY <1>1
  <2>2. i \in 1..Len(b) /\ n \in Seqs /\ n = rseq - Len(b) + i
    BY <1>2, <1>3, <2>1
  <2> QED  BY <1>n, <1>2, <2>2
<1>5. ASSUME batch # {}
      PROVE  Max(batch) \in batch /\ \A y \in batch : y <= Max(batch)
  <2>1. batch \subseteq 0..HiSeq
    BY <1>n, <1>4 DEF Seqs
  <2> QED  BY <1>n, <1>5, <2>1, GreatestIs
<1>6. ASSUME NEW n \in matching, n > lower, n > rseq - Len(b), n <= rseq
      PROVE  \E k \in found : b[k].seq = n /\ k = n - rseq + Len(b)
  <2>1. n - rseq + Len(b) \in 1..Len(b)
    BY <1>n, <1>2, <1>6
  <2>2. PICK k \in 1..Len(b) : k = n - rseq + Len(b)
    BY <2>1
  <2>3. b[k].seq = n
    <3>1. b[k].seq = rseq - Len(b) + k
      BY <1>2
    <3> QED  BY <1>n, <1>2, <2>2, <3>1
  <2>4. EventMatches(b[k])
    BY <1>6, <2>3 DEF EventMatches
  <2>5. k \in found
    BY <1>6, <2>3, <2>4
  <2> HIDE DEF found
  <2> QED  BY <2>2, <2>3, <2>5
<1>7. ASSUME found # {}
      PROVE  batch # {}
  <2>1. PICK i \in found : \A j \in found : i <= j
    <3> HIDE DEF found
    <3> QED  BY <1>3, <1>7, LeastNatural
  <2>2. Under(i) = {}
    BY <1>3, <2>1
  <2>3. Cardinality(Under(i)) = 0
    BY <2>2, FS_EmptySet
  <2>4. Cardinality(Under(i)) < BatchMax
    BY <1>n, <2>3
  <2> HIDE DEF found, Under
  <2> QED  BY <1>1, <2>4
<1>8. ASSUME NEW n \in matching, n > lower, n > rseq - Len(b), n <= rseq, batch # {}, n <= Max(batch)
      PROVE  n \in batch
  <2>1. PICK k \in found : b[k].seq = n /\ k = n - rseq + Len(b)
    BY <1>6, <1>8
  <2>2. PICK i \in found : Max(batch) = b[i].seq /\ Cardinality(Under(i)) < BatchMax
    BY <1>1, <1>5, <1>8
  <2>3. k <= i /\ k \in Nat /\ i \in Nat
    <3>1. i \in 1..Len(b) /\ k \in 1..Len(b)
      BY <1>3
    <3>2. b[i].seq = rseq - Len(b) + i /\ b[k].seq = rseq - Len(b) + k
      BY <1>2, <3>1
    <3> QED  BY <1>n, <1>2, <1>8, <2>1, <2>2, <3>1, <3>2
  <2>4. Under(k) \subseteq Under(i) /\ IsFiniteSet(Under(i)) /\ IsFiniteSet(Under(k))
    <3>1. Under(k) \subseteq Under(i)
      BY <1>3, <2>3
    <3>2. Under(i) \in SUBSET found /\ Under(k) \in SUBSET found
      BY <1>3
    <3> HIDE DEF Under, found
    <3> QED  BY <1>3, <3>1, <3>2, FS_Subset
  <2>5. Cardinality(Under(k)) <= Cardinality(Under(i)) /\ Cardinality(Under(k)) \in Nat
        /\ Cardinality(Under(i)) \in Nat
    <3> HIDE DEF Under, found
    <3> QED  BY <2>4, FS_Subset, FS_CardinalityType
  <2>6. Cardinality(Under(k)) < BatchMax
    <3> HIDE DEF Under, found
    <3> QED  BY <1>n, <2>2, <2>5
  <2> HIDE DEF found, Under
  <2> QED  BY <1>1, <2>1, <2>6
<1>9. ASSUME NEW n \in matching, n > lower, n > rseq - Len(b), n <= rseq
      PROVE  batch # {}
  <2>1. found # {}
    BY <1>6, <1>9
  <2> HIDE DEF found
  <2> QED  BY <1>7, <2>1
<1> HIDE DEF found, Under
<1> QED  BY <1>4, <1>5, <1>8, <1>9

\* A fetch is answered from the buffer.
LEMMA ReplayFetches ==
  ASSUME RpInv, Fetch
  PROVE  RpInv'
<1>t. RpTypeOK /\ RetainedIsSuffix /\ BufferSound /\ ReaderSound /\ SplicedIsComplete
  BY DEF RpInv
<1>n. /\ rseq \in Int /\ rseq >= LoSeq - 1 /\ rseq <= HiSeq /\ pos \in Int /\ pos >= -1
      /\ LoSeq \in Nat /\ LoSeq >= 1 /\ HiSeq \in Nat
      /\ \A n \in matching : n \in Seqs /\ n \in Nat /\ n >= LoSeq
  BY <1>t, RpNumbers
<1>1. exists /\ reader = "draining"
  BY DEF Fetch
<1>2. PICK r \in Seq(Events) :
        /\ r = Aged(kept) /\ Consecutive(r, rseq) /\ Bytes(r) <= MaxBytes
        /\ DroppedBy(kept, r, dropped) \in 0..HiSeq
        /\ Remembered => DroppedBy(kept, r, dropped) =
                           IF rseq - Len(r) < LoSeq THEN 0 ELSE rseq - Len(r)
  BY <1>1, AgedBuffer
<1>3. PICK d : d = DroppedBy(kept, r, dropped)
  OBVIOUS
<1>4. PICK batch : batch = Select(r, pos)
  OBVIOUS
<1> DEFINE gap == Gap(pos, r, d, FirstHeld)
           off == IF gap THEN LoSeq..rseq - Len(r) ELSE {}
<1>5. /\ kept' = r /\ dropped' = d
      /\ got' = got \cup batch \cup off
      /\ pos' = IF batch = {} THEN pos ELSE Max(batch)
      /\ reader' = IF batch = {} THEN "spliced" ELSE reader
      /\ UNCHANGED <<rseq, old, exists, stream, matching, missed>>
  BY <1>2, <1>3, <1>4 DEF Fetch, ReplayIter
<1>6. /\ batch \subseteq Seqs /\ \A n \in batch : n <= rseq
      /\ batch # {} => Max(batch) \in batch
      /\ \A n \in matching : n > pos /\ n > rseq - Len(r) /\ n <= rseq =>
           batch # {} /\ (n <= Max(batch) => n \in batch)
  BY <1>t, <1>n, <1>2, <1>4, SelectFacts
<1>7. ASSUME Remembered, NEW n \in matching, n > pos, n <= rseq - Len(r), n <= rseq
      PROVE  n \in off
  <2>0. Len(r) \in Nat /\ FirstHeld = LoSeq
    BY <1>7 DEF FirstHeld, Remembered
  <2>1. CASE r # <<>>
    <3>1. 1 \in 1..Len(r) /\ r[1].seq = rseq - Len(r) + 1
      <4>1. 1 \in 1..Len(r)
        BY <2>0, <2>1
      <4> QED  BY <1>2, <4>1 DEF Consecutive
    <3>2. r[1].seq > IF pos >= 0 THEN pos + 1 ELSE LoSeq
      BY <1>n, <1>7, <2>0, <3>1
    <3>3. gap
      BY <2>0, <2>1, <3>2 DEF Gap
    <3> HIDE DEF gap
    <3> QED  BY <1>n, <1>7, <2>0, <3>3
  <2>2. CASE r = <<>>
    <3>1. Len(r) = 0 /\ d = IF rseq - Len(r) < LoSeq THEN 0 ELSE rseq - Len(r)
      BY <1>2, <1>3, <1>7, <2>2
    <3>2. d = rseq /\ d # 0 /\ d > pos
      BY <1>n, <1>7, <3>1
    <3>3. gap
      BY <3>2 DEF Gap
    <3> HIDE DEF gap
    <3> QED  BY <1>n, <1>7, <2>0, <3>3
  <2> QED  BY <2>1, <2>2
<1>8. off \subseteq Seqs
  BY <1>n DEF Seqs
<1> HIDE DEF off, gap
<1>9. got \subseteq got' /\ batch \subseteq got' /\ off \subseteq got' /\ (Remembered' <=> Remembered)
  BY <1>5 DEF Remembered
<1>10. pos' \in -1..HiSeq /\ pos' <= rseq /\ pos' \in Int
  <2>1. CASE batch = {}
    BY <1>t, <1>n, <1>5, <2>1 DEF ReaderSound
  <2>2. CASE batch # {}
    <3>1. pos' \in Seqs /\ pos' <= rseq
      BY <1>5, <1>6, <2>2
    <3> QED  BY <1>n, <3>1 DEF Seqs
  <2> QED  BY <2>1, <2>2
<1>11. RpTypeOK'
  <2>1. d \in 0..HiSeq /\ got' \subseteq Seqs
    BY <1>t, <1>2, <1>3, <1>5, <1>6, <1>8 DEF RpTypeOK
  <2>2. reader' \in {"away", "draining", "spliced"}
    BY <1>1, <1>5
  <2> QED  BY <1>t, <1>5, <1>10, <2>1, <2>2 DEF RpTypeOK
<1>12. RetainedIsSuffix'
  BY <1>2, <1>3, <1>5, <1>9 DEF RetainedIsSuffix, Consecutive
<1>13. BufferSound'
  BY <1>t, <1>1, <1>5, <1>9 DEF BufferSound
<1>14. ReaderSound'
  <2>1. ASSUME Remembered, NEW n \in matching, n <= pos'
        PROVE  n \in got'
    <3>1. CASE n <= pos
      BY <1>t, <1>9, <2>1, <3>1 DEF ReaderSound
    <3>2. CASE n > pos
      <4>1. batch # {} /\ pos' = Max(batch) /\ n <= rseq
        BY <1>n, <1>5, <1>10, <2>1, <3>2
      <4>2. CASE n <= rseq - Len(r)
        BY <1>7, <1>9, <2>1, <3>2, <4>1, <4>2
      <4>3. CASE n > rseq - Len(r)
        BY <1>6, <1>9, <2>1, <3>2, <4>1, <4>3
      <4>4. Len(r) \in Nat /\ n \in Nat /\ rseq \in Int
        BY <1>n
      <4> QED  BY <4>2, <4>3, <4>4
    <3> QED  BY <1>n, <3>1, <3>2
  <2> QED  BY <1>5, <1>9, <1>10, <2>1 DEF ReaderSound
<1>15. SplicedIsComplete'
  <2> SUFFICES ASSUME reader' = "spliced", Remembered, NEW n \in matching, n <= rseq
               PROVE  n \in got'
    BY <1>5, <1>9 DEF SplicedIsComplete, Lost
  <2>1. batch = {}
    BY <1>1, <1>5
  <2>2. CASE n <= pos
    BY <1>t, <1>9, <2>2 DEF ReaderSound
  <2>3. CASE n > pos
    <3>1. CASE n <= rseq - Len(r)
      BY <1>7, <1>9, <2>3, <3>1
    <3>2. CASE n > rseq - Len(r)
      BY <1>6, <2>1, <2>3, <3>2
    <3>3. Len(r) \in Nat /\ n \in Nat /\ rseq \in Int
      BY <1>n
    <3> QED  BY <3>1, <3>2, <3>3
  <2> QED  BY <1>n, <2>2, <2>3
<1> QED  BY <1>11, <1>12, <1>13, <1>14, <1>15 DEF RpInv

\* Every step.
LEMMA RpNextKeeps ==
  ASSUME RpInv, [RpNext]_rpVars
  PROVE  RpInv'
<1>t. RpTypeOK /\ RetainedIsSuffix /\ BufferSound /\ ReaderSound /\ SplicedIsComplete
  BY DEF RpInv
<1>1. CASE TimeAges
  <2>1. PICK k \in old + 1..rseq : old' = k
    BY <1>1 DEF TimeAges
  <2>2. UNCHANGED <<rseq, kept, exists, dropped, stream, matching, reader, pos, got, missed>>
    BY <1>1 DEF TimeAges
  <2>3. old' \in LoSeq - 1..rseq
    BY <1>t, <2>1, RpNumbers
  <2> QED  BY <1>t, <2>2, <2>3 DEF RpInv, RpTypeOK, RetainedIsSuffix, BufferSound, ReaderSound,
                                  SplicedIsComplete, Remembered, Lost
<1>2. CASE ForgetStream
  <2>1. stream' = <<>> /\ UNCHANGED <<rseq, old, kept, exists, dropped, matching, reader, pos, got, missed>>
    BY <1>2 DEF ForgetStream
  <2>2. ~Remembered'
    BY <2>1 DEF Remembered
  <2> QED  BY <1>t, <2>1, <2>2 DEF RpInv, RpTypeOK, RetainedIsSuffix, BufferSound, ReaderSound,
                                  SplicedIsComplete
<1>3. CASE Join \/ Drop
  <2>1. /\ UNCHANGED <<rseq, old, kept, exists, dropped, stream, matching, pos, got>>
        /\ reader' \in {"draining", "away"} /\ missed' \in {FALSE, missed}
    BY <1>3 DEF Join, Drop
  <2> QED  BY <1>t, <2>1 DEF RpInv, RpTypeOK, RetainedIsSuffix, BufferSound, ReaderSound,
                            SplicedIsComplete, Remembered
<1>4. CASE FetchNothing
  <2>1. /\ UNCHANGED <<rseq, old, kept, exists, dropped, stream, matching, pos, got>>
        /\ reader' = "spliced" /\ missed' = TRUE
    BY <1>4 DEF FetchNothing
  <2> QED  BY <1>t, <2>1 DEF RpInv, RpTypeOK, RetainedIsSuffix, BufferSound, ReaderSound,
                            SplicedIsComplete, Remembered
<1>5. CASE UNCHANGED rpVars
  BY <1>t, <1>5 DEF rpVars, RpInv, RpTypeOK, RetainedIsSuffix, BufferSound, ReaderSound,
                    SplicedIsComplete, Remembered, Lost
<1> QED  BY <1>1, <1>2, <1>3, <1>4, <1>5, ReplayStores, SweepKeeps, ReplayFetches DEF RpNext

\* The first state.
LEMMA RpInitSound == RpInit => RpInv
<1> SUFFICES ASSUME RpInit
             PROVE  RpInv
  OBVIOUS
<1>1. <<>> \in Seq(Events) /\ Bytes(<<>>) = 0 /\ Len(<<>>) = 0
  BY NoBytes
<1>2. RpTypeOK
  <2>1. rseq \in LoSeq - 1..HiSeq /\ old \in LoSeq - 1..rseq /\ pos \in -1..HiSeq /\ dropped \in 0..HiSeq
    BY ReplayConstants DEF RpInit
  <2>2. kept \in Seq(Events) /\ exists \in BOOLEAN /\ missed \in BOOLEAN /\ stream = <<>>
        /\ reader = "away" /\ got \subseteq Seqs /\ matching \subseteq Seqs
    BY <1>1 DEF RpInit
  <2> QED  BY <2>1, <2>2 DEF RpTypeOK
<1>3. ~Remembered
  BY DEF RpInit, Remembered
<1>4. RetainedIsSuffix
  BY <1>1, <1>3, ReplayConstants DEF RpInit, RetainedIsSuffix
<1>5. BufferSound /\ ReaderSound /\ SplicedIsComplete
  BY <1>3, ReplayConstants DEF RpInit, BufferSound, ReaderSound, SplicedIsComplete
<1> QED  BY <1>2, <1>4, <1>5 DEF RpInv

\* Replay: a consumer that drained it has or was told to have missed every event
\* it asked for, unless the buffer or the stream's record was gone, and the
\* buffer is the end of the stream within its bounds (plugin_replay).
THEOREM ReplayIsComplete == RpSpec => [](RpTypeOK /\ SplicedIsComplete /\ RetainedIsSuffix)
<1>1. RpInv => RpTypeOK /\ SplicedIsComplete /\ RetainedIsSuffix
  BY DEF RpInv
<1> QED  BY <1>1, RpInitSound, RpNextKeeps, PTL DEF RpSpec

-----------------------------------------------------------------------------
(* The parts together, as the runs check them. *)

\* Workflows: one run at a time, and whatever it started remotely is answered
\* for when it ends (plugin_xgfabric, plugin_lucid, lucid_flow).
THEOREM WorkflowsAreAnswered == XgSpec /\ LuSpec => []WorkflowSound
<1>1. (XgTypeOK /\ OneWorkflow /\ SimsAreAnsweredFor)
      /\ (LuTypeOK /\ OneRun /\ FreeIsReported /\ NothingLeftRemote /\ PackedIsDone /\ RunsBeforeRuntime)
      => WorkflowSound
  BY DEF WorkflowSound
<1> QED  BY <1>1, WorkflowsAreSound, LucidRunsAreSound, PTL

\* Credentials and remote calls: none is kept without a session, a rotation
\* disturbs no call, good credentials are not refused, and a wait says what is
\* true (plugin_globus, plugin_sfapi_*, plugin_iri_*).
THEOREM FacilitiesAreSound == GcSpec /\ GwSpec /\ FcSpec => []FacilitySound
<1>1. (GcTypeOK /\ ClientsAreHeld /\ RotationSparesCalls /\ NeverRevived)
      /\ (GwTypeOK /\ FalseIsCurrent /\ PollsOnSchedule)
      /\ (FcTypeOK /\ GoodIsNotRejected /\ ManagersAreHeld) => FacilitySound
  BY DEF FacilitySound
<1> QED  BY <1>1, CredentialsAreSound, WaitsAreSound, FacilityCallsAreSound, PTL

\* What consumers see: no gap goes untold, answers are recent, no event is
\* missed by a client that kept up (plugin_replay, queue_info, gateway).
THEOREM ViewsAreSound == RpSpec /\ QcSpec /\ GtSpec => []ViewsSound
<1>1. (RpTypeOK /\ SplicedIsComplete /\ RetainedIsSuffix)
      /\ (QcTypeOK /\ AnswersAreRecent /\ ForcedIsFresh)
      /\ (GtTypeOK /\ NoEventMissed /\ TopologyIsCurrent) => ViewsSound
  BY DEF ViewsSound
<1> QED  BY <1>1, ReplayIsComplete, AnswersAreSound, EventsAreStreamed, PTL

\* What no step of a service does: end the clean-up of a failed workflow without
\* its pilot, drop the cached client of a live session (_cleanup_on_failure,
\* _touch_child_sessions).
THEOREM ServiceStepsHold == XgSpec /\ CcSpec => ServiceSteps
<1> QED  BY FailedRunsTakePilot, LiveClientsStay, PTL DEF ServiceSteps
=============================================================================
