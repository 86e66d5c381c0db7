-------------------------- MODULE PluginProofs --------------------------
(***************************************************************************)
(* Proofs about the plugins of an endpoint: the sessions they keep and the *)
(* host that tells them of the topology, rhapsody, psij with its tunnels,  *)
(* and the polling of status; for every set of sessions, jobs and plugins  *)
(* and every bound.                                                        *)
(*                                                                         *)
(* Each part has an inductive invariant of its own: PsInv, HlInv, RsInv,   *)
(* SpInv, PjInv and PtInv.                                                 *)
(***************************************************************************)
EXTENDS MCPlugins, SeqFacts

(***************************************************************************)
(* Sessions of plugins (PluginSessions).                                   *)
(***************************************************************************)

\* Every sid of the table leads to a session of that sid.
TableBySid == \A s \in PSids : table[s] # NoObj => obj[table[s]].sid = s

\* The reserved sid has no timeout and never answers 410.
DefaultStays ==
  /\ Default \notin ended
  /\ \A o \in 1..made : obj[o].sid = Default => ~obj[o].ttl

\* No reason to end is written to a session that is open.
OpenIsUnjudged == \A o \in 1..made : obj[o].st = "open" => obj[o].why = "none"

SessionsSound ==
  TableBySid /\ TableIsOpen /\ EndedStaysEnded /\ DefaultStays /\ OpenIsUnjudged

\* The host awaits the one session that it is closing.
HostAwaits ==
  /\ \A o \in 1..made : obj[o].by = "host" => host = "close"
  /\ \A o, q \in 1..made : obj[o].by = "host" /\ obj[q].by = "host" => o = q

\* What the shutdown has still to drop is on its list, but for sessions that
\* came after it began.
ListedApart ==
  host \in {"drop", "close"} =>
    \A o \in 1..made : obj[o].st = "open" => obj[o].late \/ obj[o].sid \in todo

PsInv ==
  PsTypeOK /\ SessionsSound /\ HostAwaits /\ ListedApart /\ GoneIsClosedApart

\* The host's part of the invariant.
HostSide == HostAwaits /\ ListedApart /\ GoneIsClosedApart

\* The types of the table and of the session objects.
TableTyped ==
  /\ made \in 0..MaxObj /\ table \in [PSids -> 0..made]
  /\ obj \in [1..made -> ObjRec] /\ ended \subseteq PSids

\* The types of the requests, the sweep and the host.
OthersTyped ==
  /\ psReq \in [Reqs -> [pc: {"idle", "run", "close"}, obj: 0..made]]
  /\ sweep \in {"off", "sleep", "work", "close"} /\ overdue \subseteq 1..made
  /\ host \in {"up", "cancel", "list", "drop", "close", "gone"} /\ todo \subseteq PSids

\* A step that opens no session, ends none and changes nothing of an object but
\* its age, its work and who awaits its close.
Mild ==
  /\ UNCHANGED <<table, ended, made>>
  /\ obj' \in [1..made -> ObjRec]
  /\ \A o \in 1..made :
       /\ obj'[o].sid = obj[o].sid /\ obj'[o].ttl = obj[o].ttl
       /\ obj'[o].late = obj[o].late /\ obj'[o].why = obj[o].why
       /\ obj'[o].st = "open" <=> obj[o].st = "open"
       /\ obj'[o].by \in {obj[o].by, "none"}

\* A mild step keeps what the table says of the sessions.
LEMMA MildKeepsTable ==
  ASSUME PsInv, Mild
  PROVE  TableTyped' /\ SessionsSound'
<1>0. PsTypeOK /\ SessionsSound
  BY DEF PsInv
<1>1. TableTyped'
  BY <1>0 DEF PsTypeOK, Mild, TableTyped
<1>2. TableBySid'
  BY <1>0 DEF SessionsSound, PsTypeOK, Mild, TableBySid, NoObj
<1>3. TableIsOpen'
  <2>1. \A q \in PSids : table[q] # NoObj => table[q] \in 1..made
    BY <1>0 DEF PsTypeOK, NoObj
  <2> QED  BY <1>0, <2>1 DEF SessionsSound, Mild, TableIsOpen
<1>4. EndedStaysEnded'
  BY <1>0 DEF SessionsSound, Mild, EndedStaysEnded
<1>5. DefaultStays'
  BY <1>0 DEF SessionsSound, Mild, DefaultStays
<1>6. OpenIsUnjudged'
  BY <1>0 DEF SessionsSound, Mild, OpenIsUnjudged
<1> QED  BY <1>1, <1>2, <1>3, <1>4, <1>5, <1>6 DEF SessionsSound

\* A mild step of which the host knows nothing keeps the host's part.
LEMMA MildKeepsHost ==
  ASSUME PsInv, Mild, UNCHANGED <<host, todo>>
  PROVE  HostSide'
<1>1. HostAwaits'
  BY DEF PsInv, HostAwaits, Mild
<1>2. ListedApart'
  BY DEF PsInv, ListedApart, Mild
<1>3. GoneIsClosedApart'
  BY DEF PsInv, GoneIsClosedApart, Mild
<1> QED  BY <1>1, <1>2, <1>3 DEF HostSide

\* Touching a session is mild.
LEMMA TouchedIsMild ==
  ASSUME PsTypeOK, NEW o, obj' = Touched(o), UNCHANGED <<table, ended, made>>
  PROVE  Mild
<1>1. obj' \in [1..made -> ObjRec]
  <2>1. obj \in [1..made -> ObjRec] /\ obj' = [q \in 1..made |-> IF q = o THEN [obj[q] EXCEPT !.age = 0] ELSE obj[q]]
    BY DEF PsTypeOK, Touched
  <2>2. ASSUME NEW x \in ObjRec
        PROVE  [x EXCEPT !.age = 0] \in ObjRec
    BY PluginSids DEF ObjRec
  <2> QED  BY <2>1, <2>2
<1>2. ASSUME NEW q \in 1..made
      PROVE  /\ obj'[q].sid = obj[q].sid /\ obj'[q].ttl = obj[q].ttl
             /\ obj'[q].late = obj[q].late /\ obj'[q].why = obj[q].why
             /\ obj'[q].st = obj[q].st /\ obj'[q].by = obj[q].by
  BY DEF PsTypeOK, ObjRec, Touched
<1> QED  BY <1>1, <1>2 DEF Mild

\* What _end_session does to the objects.
LEMMA EndFacts ==
  ASSUME PsTypeOK, NEW o \in 1..made, NEW why \in {"expired", "closed", "dropped"},
         NEW by \in Reqs \cup {"sweep", "host"}, End(o, why, by)
  PROVE  /\ obj' \in [1..made -> ObjRec]
         /\ obj'[o].st = "closing" /\ obj'[o].why = why /\ obj'[o].by = by
         /\ obj'[o].sid = obj[o].sid /\ obj'[o].ttl = obj[o].ttl
         /\ \A q \in 1..made : q # o => obj'[q] = obj[q]
         /\ obj[o].sid \in PSids
         /\ table' = [table EXCEPT ![obj[o].sid] = NoObj]
<1>1. obj \in [1..made -> ObjRec] /\ table' = [table EXCEPT ![obj[o].sid] = NoObj]
  BY DEF PsTypeOK, End
<1>2. PICK x \in ObjRec : x = obj[o]
  BY <1>1
<1>3. PICK y : y = [x EXCEPT !.st = "closing", !.why = why, !.by = by]
  OBVIOUS
<1>4. y \in ObjRec /\ y.st = "closing" /\ y.why = why /\ y.by = by /\ y.sid = x.sid /\ y.ttl = x.ttl /\ x.sid \in PSids
  BY <1>3 DEF ObjRec
<1>5. obj' = [obj EXCEPT ![o] = y]
  BY <1>1, <1>2, <1>3 DEF End
<1> QED  BY <1>1, <1>2, <1>4, <1>5

\* Ending an open session keeps what the table says of the sessions.
LEMMA EndKeepsTable ==
  ASSUME PsInv, NEW o \in 1..made, obj[o].st = "open",
         NEW why \in {"expired", "closed", "dropped"},
         NEW by \in Reqs \cup {"sweep", "host"}, End(o, why, by), UNCHANGED made
  PROVE  TableTyped' /\ SessionsSound'
<1>0. PsTypeOK /\ SessionsSound
  BY DEF PsInv
<1>1. /\ obj' \in [1..made -> ObjRec]
      /\ obj'[o].st = "closing" /\ obj'[o].sid = obj[o].sid /\ obj'[o].ttl = obj[o].ttl
      /\ \A q \in 1..made : q # o => obj'[q] = obj[q]
      /\ obj[o].sid \in PSids
      /\ table' = [table EXCEPT ![obj[o].sid] = NoObj]
  BY <1>0, EndFacts
<1>2. table \in [PSids -> 0..made] /\ made \in 0..MaxObj /\ ended \subseteq PSids
  BY <1>0 DEF PsTypeOK
<1>3. table[obj[o].sid] = o
  BY <1>0 DEF SessionsSound, TableIsOpen
<1>4. ended' \in {ended, ended \cup {obj[o].sid}} /\ (obj[o].sid \in ended' => obj[o].sid \in ended \/ obj[o].ttl)
  BY DEF End
<1>5. TableTyped'
  BY <1>1, <1>2, <1>4, PluginSids DEF TableTyped, NoObj
<1>6. \A s \in PSids : table'[s] # NoObj => table[s] # NoObj /\ table'[s] = table[s] /\ table[s] \in 1..made /\ table[s] # o
  BY <1>0, <1>1, <1>2, <1>3 DEF SessionsSound, TableBySid, NoObj
<1>7. TableBySid'
  BY <1>0, <1>1, <1>6 DEF SessionsSound, TableBySid
<1>8. TableIsOpen'
  <2>1. ASSUME NEW s \in PSids, table'[s] # NoObj
        PROVE  obj'[table'[s]].st = "open"
    BY <1>0, <1>1, <1>6, <2>1 DEF SessionsSound, TableIsOpen
  <2>2. ASSUME NEW q \in 1..made, obj'[q].st = "open"
        PROVE  table'[obj'[q].sid] = q
    <3>1. q # o /\ obj'[q] = obj[q] /\ obj[q].sid \in PSids
      BY <1>1, <2>2 DEF ObjRec
    <3>2. table[obj[q].sid] = q
      BY <1>0, <2>2, <3>1 DEF SessionsSound, TableIsOpen
    <3> QED  BY <1>1, <1>2, <1>3, <3>1, <3>2
  <2> QED  BY <2>1, <2>2 DEF TableIsOpen
<1>9. EndedStaysEnded'
  BY <1>0, <1>1, <1>2, <1>4 DEF SessionsSound, EndedStaysEnded
<1>10. DefaultStays'
  BY <1>0, <1>1, <1>4 DEF SessionsSound, DefaultStays
<1>11. OpenIsUnjudged'
  BY <1>0, <1>1 DEF SessionsSound, OpenIsUnjudged
<1> QED  BY <1>5, <1>7, <1>8, <1>9, <1>10, <1>11 DEF SessionsSound

\* Ending a session that the host does not await keeps the host's part.
LEMMA EndKeepsHost ==
  ASSUME PsInv, NEW o \in 1..made, obj[o].st = "open",
         NEW why \in {"expired", "closed", "dropped"},
         NEW by \in Reqs \cup {"sweep"}, End(o, why, by), UNCHANGED <<made, host, todo>>
  PROVE  HostSide'
<1>1. /\ obj'[o].st = "closing" /\ obj'[o].by = by /\ by # "host"
      /\ \A q \in 1..made : q # o => obj'[q] = obj[q]
  BY EndFacts, PluginSids DEF PsInv
<1>2. HostAwaits'
  BY <1>1 DEF PsInv, HostAwaits
<1>3. ListedApart'
  BY <1>1 DEF PsInv, ListedApart
<1>4. GoneIsClosedApart'
  BY <1>1 DEF PsInv, GoneIsClosedApart
<1> QED  BY <1>2, <1>3, <1>4 DEF HostSide

\* A new session keeps the table sound and is late when the shutdown has begun.
LEMMA NewKeeps ==
  ASSUME PsInv, NEW s \in PSids, NEW ttl \in BOOLEAN, New(s, ttl), UNCHANGED <<ended, host, todo>>,
         table[s] = NoObj, s \notin ended, s = Default => ~ttl
  PROVE  TableTyped' /\ SessionsSound' /\ HostSide' /\ made' = made + 1
<1>0. PsTypeOK /\ SessionsSound
  BY DEF PsInv
<1>1. /\ made \in Nat /\ made' \in 1..MaxObj /\ made' = made + 1
      /\ table \in [PSids -> 0..made] /\ table' = [table EXCEPT ![s] = made']
      /\ obj \in [1..made -> ObjRec]
  BY <1>0, PluginSids DEF PsTypeOK, New
<1>2. /\ obj' \in [1..made' -> ObjRec]
      /\ obj'[made'].sid = s /\ obj'[made'].ttl = ttl /\ obj'[made'].st = "open"
      /\ obj'[made'].why = "none" /\ obj'[made'].by = "none" /\ obj'[made'].late = (host # "up")
      /\ \A o \in 1..made : obj'[o] = obj[o]
  <2>1. [sid |-> s, ttl |-> ttl, age |-> 0, busy |-> FALSE, late |-> host # "up",
         st |-> "open", why |-> "none", by |-> "none"] \in ObjRec
    BY PluginSids DEF ObjRec
  <2> QED  BY <1>1, <2>1 DEF New
<1>3. \A o \in 1..made' : o = made' \/ (o \in 1..made /\ o # made')
  BY <1>1
<1>4. TableTyped'
  BY <1>0, <1>1, <1>2 DEF PsTypeOK, TableTyped
<1>5. TableBySid'
  BY <1>0, <1>1, <1>2 DEF SessionsSound, TableBySid, NoObj
<1>6. TableIsOpen'
  BY <1>0, <1>1, <1>2, <1>3 DEF SessionsSound, TableIsOpen, NoObj
<1>7. EndedStaysEnded'
  BY <1>0, <1>1 DEF SessionsSound, EndedStaysEnded
<1>8. DefaultStays'
  BY <1>0, <1>2, <1>3 DEF SessionsSound, DefaultStays
<1>9. OpenIsUnjudged'
  BY <1>0, <1>2, <1>3 DEF SessionsSound, OpenIsUnjudged
<1>10. HostAwaits'
  BY <1>2, <1>3 DEF PsInv, HostAwaits
<1>11. ListedApart'
  BY <1>2, <1>3 DEF PsInv, ListedApart
<1>12. GoneIsClosedApart'
  BY <1>2, <1>3 DEF PsInv, GoneIsClosedApart
<1> QED  BY <1>1, <1>4, <1>5, <1>6, <1>7, <1>8, <1>9, <1>10, <1>11, <1>12
         DEF SessionsSound, HostSide

\* The parts make up the invariant.
LEMMA PsParts == TableTyped /\ OthersTyped /\ SessionsSound /\ HostSide => PsInv
BY DEF TableTyped, OthersTyped, HostSide, PsInv, PsTypeOK

\* Requests stay typed when one of them moves on.
LEMMA RequestMoves ==
  ASSUME PsTypeOK, made' \in {made, made + 1}, NEW r \in Reqs, NEW x, x \in [pc: {"idle", "run", "close"}, obj: 0..made'],
         psReq' \in {psReq, [psReq EXCEPT ![r] = x]}
  PROVE  psReq' \in [Reqs -> [pc: {"idle", "run", "close"}, obj: 0..made']]
<1>1. 0..made \subseteq 0..made'
  BY PluginSids DEF PsTypeOK
<1>2. psReq \in [Reqs -> [pc: {"idle", "run", "close"}, obj: 0..made']]
  BY <1>1 DEF PsTypeOK
<1> QED  BY <1>2

\* A request that ends a session that is due.
LEMMA ExpireIfDueKeeps ==
  ASSUME PsInv, NEW r \in Reqs, NEW s \in PSids, ExpireIfDue(r, table[s]), UNCHANGED <<overdue, host, todo>>,
         sweep' \in {"off", "sleep", "work", "close"}
  PROVE  PsInv'
<1>1. table[s] \in 1..made /\ obj[table[s]].st = "open"
  BY DEF PsInv, PsTypeOK, SessionsSound, TableIsOpen, ExpireIfDue, NoObj
<1>2. PICK o \in 1..made : o = table[s]
  BY <1>1
<1>3. End(o, "expired", r) /\ UNCHANGED made /\ psReq' = [psReq EXCEPT ![r] = [pc |-> "close", obj |-> o]]
  BY <1>2 DEF ExpireIfDue
<1>4. TableTyped' /\ SessionsSound'
  BY <1>1, <1>2, <1>3, EndKeepsTable
<1>5. HostSide'
  BY <1>1, <1>2, <1>3, EndKeepsHost
<1>6. psReq' \in [Reqs -> [pc: {"idle", "run", "close"}, obj: 0..made']]
  <2>1. [pc |-> "close", obj |-> o] \in [pc: {"idle", "run", "close"}, obj: 0..made']
    BY <1>3
  <2> QED  BY <1>3, <2>1, RequestMoves DEF PsInv
<1>7. OthersTyped'
  BY <1>3, <1>6 DEF PsInv, PsTypeOK, OthersTyped
<1> QED  BY <1>4, <1>5, <1>7, PsParts, PTL

\* _open_session and _accessed keep the invariant.
LEMMA SessionRegisters ==
  ASSUME PsInv, NEW r \in Reqs, NEW s \in PSids, NEW ttl \in BOOLEAN, Register(r, s, ttl)
  PROVE  PsInv'
<1>0. PsTypeOK
  BY DEF PsInv
<1>1. sweep' \in {"off", "sleep", "work", "close"} /\ UNCHANGED <<overdue, host, todo>>
  BY <1>0 DEF Register, Sweeping, PsTypeOK
<1>2. CASE ExpireIfDue(r, table[s])
  BY <1>1, <1>2, ExpireIfDueKeeps
<1>3. CASE table[s] = NoObj /\ ~Refused(s) /\ OpenSession(s, ttl) /\ UNCHANGED psReq
  <2>1. New(s, ttl) /\ UNCHANGED ended /\ s \notin ended /\ (s = Default => ~ttl)
    BY <1>3 DEF OpenSession, Register, Refused
  <2>2. TableTyped' /\ SessionsSound' /\ HostSide' /\ made' = made + 1
    BY <1>1, <1>3, <2>1, NewKeeps
  <2>3. OthersTyped'
    <3>1. 0..made \subseteq 0..made' /\ 1..made \subseteq 1..made'
      BY <1>0, <2>2 DEF PsTypeOK
    <3>2. psReq' \in [Reqs -> [pc: {"idle", "run", "close"}, obj: 0..made']]
      BY <1>0, <1>3, <3>1 DEF PsTypeOK
    <3> QED  BY <1>0, <1>1, <3>1, <3>2 DEF PsTypeOK, OthersTyped
  <2> QED  BY <2>2, <2>3, PsParts, PTL
<1>4. CASE table[s] # NoObj /\ OpenSession(s, ttl) /\ UNCHANGED psReq
  <2>1. Mild
    BY <1>0, <1>4, TouchedIsMild DEF OpenSession
  <2>2. OthersTyped'
    BY <1>0, <1>1, <1>4, <2>1 DEF Mild, PsTypeOK, OthersTyped
  <2>3. TableTyped' /\ SessionsSound' /\ HostSide'
    BY <1>1, <2>1, MildKeepsTable, MildKeepsHost
  <2> QED  BY <2>2, <2>3, PsParts, PTL
<1> QED  BY <1>2, <1>3, <1>4 DEF Register

\* A request to a session.
LEMMA RequestKeeps ==
  ASSUME PsInv, NEW r \in Reqs, NEW s \in PSids, Request(r, s)
  PROVE  PsInv'
<1>0. PsTypeOK
  BY DEF PsInv
<1>1. UNCHANGED <<sweep, overdue, host, todo>>
  BY DEF Request
<1>2. CASE ExpireIfDue(r, table[s])
  BY <1>0, <1>1, <1>2, ExpireIfDueKeeps DEF PsTypeOK
<1>3. CASE /\ table[s] = NoObj /\ s = Default /\ EnsureDefault
           /\ psReq' = [psReq EXCEPT ![r] = [pc |-> "run", obj |-> made']]
  <2>1. New(s, FALSE) /\ UNCHANGED ended /\ s \notin ended
    BY <1>3 DEF EnsureDefault, PsInv, SessionsSound, DefaultStays
  <2>2. TableTyped' /\ SessionsSound' /\ HostSide' /\ made' = made + 1
    BY <1>1, <1>3, <2>1, NewKeeps
  <2>3. OthersTyped'
    <3>1. 0..made \subseteq 0..made' /\ 1..made \subseteq 1..made' /\ made' \in 0..made'
      BY <1>0, <2>2 DEF PsTypeOK
    <3>2. [pc |-> "run", obj |-> made'] \in [pc: {"idle", "run", "close"}, obj: 0..made']
      BY <3>1
    <3>3. psReq' \in [Reqs -> [pc: {"idle", "run", "close"}, obj: 0..made']]
      BY <1>0, <1>3, <2>2, <3>2, RequestMoves
    <3> QED  BY <1>0, <1>1, <3>1, <3>3 DEF PsTypeOK, OthersTyped
  <2> QED  BY <2>2, <2>3, PsParts, PTL
<1>4. CASE table[s] # NoObj /\ Forward(r, table[s])
  <2>1. Mild
    BY <1>0, <1>4, TouchedIsMild DEF Forward
  <2>2. psReq' \in [Reqs -> [pc: {"idle", "run", "close"}, obj: 0..made']]
    <3>1. [pc |-> "run", obj |-> table[s]] \in [pc: {"idle", "run", "close"}, obj: 0..made']
      BY <1>0, <2>1 DEF PsTypeOK, Mild
    <3>2. made' \in {made, made + 1} /\ psReq' = [psReq EXCEPT ![r] = [pc |-> "run", obj |-> table[s]]]
      BY <1>4 DEF Forward
    <3> QED  BY <1>0, <3>1, <3>2, RequestMoves
  <2>3. OthersTyped'
    BY <1>0, <1>1, <2>1, <2>2 DEF Mild, PsTypeOK, OthersTyped
  <2>4. TableTyped' /\ SessionsSound' /\ HostSide'
    BY <1>1, <2>1, MildKeepsTable, MildKeepsHost
  <2> QED  BY <2>3, <2>4, PsParts, PTL
<1> QED  BY <1>2, <1>3, <1>4 DEF Request

\* A request that is answered.
LEMMA RequestEndsKeeps ==
  ASSUME PsInv, NEW r \in Reqs, RequestEnds(r)
  PROVE  PsInv'
<1>0. PsTypeOK
  BY DEF PsInv
<1>1. UNCHANGED <<table, made, ended, sweep, overdue, host, todo>>
  BY DEF RequestEnds
<1>2. Mild
  <2>1. CASE obj' = obj
    BY <1>0, <1>1, <2>1 DEF Mild, PsTypeOK
  <2>2. CASE obj' = Touched(psReq[r].obj)
    BY <1>0, <1>1, <2>2, TouchedIsMild
  <2> QED  BY <2>1, <2>2 DEF RequestEnds
<1>3. psReq' \in [Reqs -> [pc: {"idle", "run", "close"}, obj: 0..made']]
  <2>1. [pc |-> "idle", obj |-> NoObj] \in [pc: {"idle", "run", "close"}, obj: 0..made']
    BY <1>0, <1>1, PluginSids DEF PsTypeOK, NoObj
  <2> QED  BY <1>0, <1>1, <2>1, RequestMoves DEF RequestEnds
<1>4. OthersTyped'
  BY <1>0, <1>1, <1>3 DEF PsTypeOK, OthersTyped
<1>5. TableTyped' /\ SessionsSound' /\ HostSide'
  BY <1>1, <1>2, MildKeepsTable, MildKeepsHost
<1> QED  BY <1>4, <1>5, PsParts, PTL

\* A session is unregistered.
LEMMA SessionUnregisters ==
  ASSUME PsInv, NEW r \in Reqs, NEW s \in PSids, Unregister(r, s)
  PROVE  PsInv'
<1>1. table[s] \in 1..made /\ obj[table[s]].st = "open"
  BY DEF PsInv, PsTypeOK, SessionsSound, TableIsOpen, Unregister, NoObj
<1>2. PICK o \in 1..made : o = table[s]
  BY <1>1
<1>3. End(o, "closed", r) /\ UNCHANGED <<made, host, todo, sweep, overdue>> /\ psReq' = [psReq EXCEPT ![r] = [pc |-> "close", obj |-> o]]
  BY <1>2 DEF Unregister
<1>4. TableTyped' /\ SessionsSound'
  BY <1>1, <1>2, <1>3, EndKeepsTable
<1>5. HostSide'
  BY <1>1, <1>2, <1>3, EndKeepsHost
<1>6. psReq' \in [Reqs -> [pc: {"idle", "run", "close"}, obj: 0..made']]
  <2>1. [pc |-> "close", obj |-> o] \in [pc: {"idle", "run", "close"}, obj: 0..made']
    BY <1>3
  <2> QED  BY <1>3, <2>1, RequestMoves DEF PsInv
<1>7. OthersTyped'
  BY <1>3, <1>6 DEF PsInv, PsTypeOK, OthersTyped
<1> QED  BY <1>4, <1>5, <1>7, PsParts, PTL

\* A step of which requests, sweep and host know nothing.
LEMMA MildKeeps ==
  ASSUME PsInv, Mild, OthersTyped'
  PROVE  UNCHANGED <<host, todo>> => PsInv'
<1> SUFFICES ASSUME UNCHANGED <<host, todo>>
             PROVE  PsInv'
  OBVIOUS
<1>1. TableTyped' /\ SessionsSound' /\ HostSide'
  BY MildKeepsTable, MildKeepsHost
<1> QED  BY <1>1, PsParts, PTL

\* session.close() returns.
LEMMA CloseReturnsKeeps ==
  ASSUME PsInv, NEW o \in 1..made, CloseReturns(o)
  PROVE  PsInv'
<1>0. PsTypeOK /\ HostAwaits
  BY DEF PsInv
<1>1. UNCHANGED <<table, made, ended, overdue, todo>> /\ obj[o].st = "closing"
  BY DEF CloseReturns
<1>2. /\ obj' \in [1..made -> ObjRec] /\ obj'[o].st = "closed" /\ obj'[o].by = "none"
      /\ obj'[o].sid = obj[o].sid /\ obj'[o].ttl = obj[o].ttl
      /\ obj'[o].late = obj[o].late /\ obj'[o].why = obj[o].why
      /\ \A q \in 1..made : q # o => obj'[q] = obj[q]
  <2>1. obj \in [1..made -> ObjRec]
    BY <1>0 DEF PsTypeOK
  <2>2. PICK x \in ObjRec : x = obj[o]
    BY <2>1
  <2>3. PICK y : y = [x EXCEPT !.st = "closed", !.age = 0, !.busy = FALSE, !.by = "none"]
    OBVIOUS
  <2>4. /\ y \in ObjRec /\ y.st = "closed" /\ y.by = "none" /\ y.sid = x.sid /\ y.ttl = x.ttl
        /\ y.late = x.late /\ y.why = x.why
    <3>1. /\ y.st = "closed" /\ y.by = "none" /\ y.sid = x.sid /\ y.ttl = x.ttl
          /\ y.late = x.late /\ y.why = x.why
      BY <2>3 DEF ObjRec
    <3>2. y = [sid |-> x.sid, ttl |-> x.ttl, age |-> 0, busy |-> FALSE, late |-> x.late,
               st |-> "closed", why |-> x.why, by |-> "none"]
      BY <2>3 DEF ObjRec
    <3>3. y \in ObjRec
      BY <3>2, PluginSids DEF ObjRec
    <3> QED  BY <3>1, <3>3
  <2>5. obj' = [obj EXCEPT ![o] = y]
    BY <2>2, <2>3 DEF CloseReturns
  <2> QED  BY <2>1, <2>2, <2>4, <2>5
<1>3. Mild
  <2>1. ASSUME NEW q \in 1..made
        PROVE  /\ obj'[q].sid = obj[q].sid /\ obj'[q].ttl = obj[q].ttl
               /\ obj'[q].late = obj[q].late /\ obj'[q].why = obj[q].why
               /\ obj'[q].st = "open" <=> obj[q].st = "open"
               /\ obj'[q].by \in {obj[q].by, "none"}
    BY <1>1, <1>2
  <2> QED  BY <1>1, <1>2, <2>1 DEF Mild
<1>4. psReq' \in [Reqs -> [pc: {"idle", "run", "close"}, obj: 0..made']]
  <2>1. [pc |-> "idle", obj |-> NoObj] \in [pc: {"idle", "run", "close"}, obj: 0..made']
    BY <1>0, <1>1, PluginSids DEF PsTypeOK, NoObj
  <2>2. CASE obj[o].by \in Reqs
    <3>1. PICK r \in Reqs : r = obj[o].by
      BY <2>2
    <3>2. psReq' = [psReq EXCEPT ![r] = [pc |-> "idle", obj |-> NoObj]]
      BY <2>2, <3>1 DEF CloseReturns
    <3> QED  BY <1>0, <1>1, <2>1, <3>2, RequestMoves
  <2>3. CASE obj[o].by \notin Reqs
    BY <1>0, <1>1, <2>3 DEF CloseReturns, PsTypeOK
  <2> QED  BY <2>2, <2>3
<1>5. OthersTyped'
  BY <1>0, <1>1, <1>4 DEF CloseReturns, PsTypeOK, OthersTyped
<1>6. CASE obj[o].by # "host"
  <2>1. UNCHANGED <<host, todo>>
    BY <1>1, <1>6 DEF CloseReturns
  <2> QED  BY <1>3, <1>5, <2>1, MildKeeps
<1>7. CASE obj[o].by = "host"
  <2>1. host = "close" /\ host' = "drop"
    BY <1>0, <1>7 DEF HostAwaits, CloseReturns
  <2>2. \A q \in 1..made : obj'[q].by # "host"
    BY <1>0, <1>2, <1>7 DEF HostAwaits
  <2>3. HostAwaits'
    BY <1>1, <2>2 DEF HostAwaits
  <2>4. ListedApart'
    BY <1>1, <1>3, <2>1 DEF PsInv, ListedApart, Mild
  <2>5. GoneIsClosedApart'
    BY <2>1 DEF GoneIsClosedApart
  <2>6. TableTyped' /\ SessionsSound'
    BY <1>3, MildKeepsTable
  <2>7. HostSide'
    BY <2>3, <2>4, <2>5 DEF HostSide
  <2> QED  BY <1>5, <2>6, <2>7, PsParts, PTL
<1> QED  BY <1>6, <1>7

\* The session's own work, and the passing of time.
LEMMA SessionWorks ==
  ASSUME PsInv, NEW o \in 1..made, Work(o)
  PROVE  PsInv'
<1>0. PsTypeOK
  BY DEF PsInv
<1>1. UNCHANGED <<table, made, ended, psReq, sweep, overdue, host, todo>>
  BY DEF Work
<1>2. Mild
  <2>1. CASE obj' = [obj EXCEPT ![o].busy = ~@]
    <3>1. obj \in [1..made -> ObjRec]
      BY <1>0 DEF PsTypeOK
    <3>2. PICK x \in ObjRec : x = obj[o]
      BY <3>1
    <3>3. PICK y : y = [x EXCEPT !.busy = ~x.busy]
      OBVIOUS
    <3>4. /\ y \in ObjRec /\ y.st = x.st /\ y.by = x.by /\ y.sid = x.sid /\ y.ttl = x.ttl
          /\ y.late = x.late /\ y.why = x.why
      BY <3>3 DEF ObjRec
    <3>5. obj' = [obj EXCEPT ![o] = y]
      BY <2>1, <3>2, <3>3
    <3>6. obj' \in [1..made -> ObjRec] /\ obj'[o] = y /\ \A q \in 1..made : q # o => obj'[q] = obj[q]
      BY <3>1, <3>4, <3>5
    <3> QED  BY <1>1, <3>2, <3>4, <3>6 DEF Mild
  <2>2. CASE obj' = Touched(o)
    BY <1>0, <1>1, <2>2, TouchedIsMild
  <2> QED  BY <2>1, <2>2 DEF Work
<1>3. OthersTyped'
  BY <1>0, <1>1 DEF PsTypeOK, OthersTyped
<1>4. UNCHANGED <<host, todo>>
  BY <1>1
<1> QED  BY <1>2, <1>3, <1>4, MildKeeps

\* Time passes.
LEMMA TickKeeps ==
  ASSUME PsInv, Tick
  PROVE  PsInv'
<1>0. PsTypeOK
  BY DEF PsInv
<1>1. UNCHANGED <<table, made, ended, psReq, sweep, overdue, host, todo>>
  BY DEF Tick
<1>2. obj \in [1..made -> ObjRec]
  BY <1>0 DEF PsTypeOK
<1>3. ASSUME NEW q \in 1..made
      PROVE  /\ obj'[q] \in ObjRec /\ obj'[q].sid = obj[q].sid /\ obj'[q].ttl = obj[q].ttl
             /\ obj'[q].late = obj[q].late /\ obj'[q].why = obj[q].why
             /\ obj'[q].st = obj[q].st /\ obj'[q].by = obj[q].by
  <2>1. CASE obj[q].st = "open" /\ obj[q].age <= Timeout
    <3>1. obj'[q] = [obj[q] EXCEPT !.age = @ + 1]
      BY <2>1 DEF Tick
    <3>2. PICK x \in ObjRec : x = obj[q]
      BY <1>2
    <3>3. PICK y : y = [x EXCEPT !.age = x.age + 1]
      OBVIOUS
    <3>4. /\ y \in ObjRec /\ y.st = x.st /\ y.by = x.by /\ y.sid = x.sid /\ y.ttl = x.ttl
          /\ y.late = x.late /\ y.why = x.why
      BY <2>1, <3>2, <3>3, PluginSids DEF ObjRec
    <3> QED  BY <3>1, <3>2, <3>3, <3>4
  <2>2. CASE ~(obj[q].st = "open" /\ obj[q].age <= Timeout)
    BY <1>2, <2>2 DEF Tick
  <2> QED  BY <2>1, <2>2
<1>4. obj' \in [1..made -> ObjRec]
  BY <1>3 DEF Tick
<1>5. Mild
  BY <1>1, <1>3, <1>4 DEF Mild
<1>6. OthersTyped'
  BY <1>0, <1>1 DEF PsTypeOK, OthersTyped
<1>7. UNCHANGED <<host, todo>>
  BY <1>1
<1> QED  BY <1>5, <1>6, <1>7, MildKeeps

\* The sweep wakes, ends, and decides on one of its candidates.
LEMMA SweepKeeps ==
  ASSUME PsInv, SweepWakes \/ SweepEnds
  PROVE  PsInv'
<1>0. PsTypeOK
  BY DEF PsInv
<1>1. UNCHANGED <<table, obj, made, ended, psReq, host, todo>>
  BY DEF SweepWakes, SweepEnds
<1>2. Mild
  BY <1>0, <1>1 DEF Mild, PsTypeOK
<1>3. overdue' \subseteq 1..made /\ sweep' \in {"off", "sleep", "work", "close"}
  BY <1>0 DEF SweepWakes, SweepEnds, PsTypeOK
<1>4. OthersTyped'
  BY <1>0, <1>1, <1>3 DEF PsTypeOK, OthersTyped
<1>5. UNCHANGED <<host, todo>>
  BY <1>1
<1> QED  BY <1>2, <1>4, <1>5, MildKeeps

\* The sweep decides on one of its candidates.
LEMMA SweepNextKeeps ==
  ASSUME PsInv, NEW o \in 1..made, SweepNext(o)
  PROVE  PsInv'
<1>0. PsTypeOK
  BY DEF PsInv
<1>1. UNCHANGED <<made, psReq, host, todo>> /\ overdue' \subseteq 1..made
  BY <1>0 DEF SweepNext, PsTypeOK
<1>2. CASE /\ table[obj[o].sid] = o /\ End(o, "expired", "sweep") /\ sweep' = "close"
  <2>1. obj[o].sid \in PSids /\ o # NoObj
    BY <1>0 DEF PsTypeOK, ObjRec, NoObj
  <2>2. obj[o].st = "open"
    BY <1>2, <2>1 DEF PsInv, SessionsSound, TableIsOpen
  <2>3. TableTyped' /\ SessionsSound' /\ HostSide'
    BY <1>1, <1>2, <2>2, EndKeepsTable, EndKeepsHost
  <2>4. OthersTyped'
    BY <1>0, <1>1, <1>2 DEF PsTypeOK, OthersTyped
  <2> QED  BY <2>3, <2>4, PsParts, PTL
<1>3. CASE UNCHANGED <<table, ended, sweep>> /\ obj' \in {obj, Touched(o)}
  <2>1. Mild
    <3>1. CASE obj' = obj
      BY <1>0, <1>1, <1>3, <3>1 DEF Mild, PsTypeOK
    <3>2. CASE obj' = Touched(o)
      BY <1>0, <1>1, <1>3, <3>2, TouchedIsMild
    <3> QED  BY <1>3, <3>1, <3>2
  <2>2. OthersTyped'
    BY <1>0, <1>1, <1>3 DEF PsTypeOK, OthersTyped
  <2>3. UNCHANGED <<host, todo>>
    BY <1>1
  <2> QED  BY <2>1, <2>2, <2>3, MildKeeps
<1> QED  BY <1>2, <1>3 DEF SweepNext, Swept

\* The host begins to take the plugin down, lists its sessions and is done.
LEMMA HostStopKeeps ==
  ASSUME PsInv, HostStop
  PROVE  PsInv'
<1>0. PsTypeOK
  BY DEF PsInv
<1>1. UNCHANGED <<table, made, ended, psReq, todo>> /\ host = "up" /\ host' \in {"list", "cancel"}
  BY DEF HostStop
<1>2. obj \in [1..made -> ObjRec]
  BY <1>0 DEF PsTypeOK
<1>3. ASSUME NEW q \in 1..made
      PROVE  /\ obj'[q] \in ObjRec /\ obj'[q].sid = obj[q].sid /\ obj'[q].ttl = obj[q].ttl
             /\ obj'[q].late = obj[q].late /\ obj'[q].why = obj[q].why
             /\ obj'[q].st = "open" <=> obj[q].st = "open"
             /\ obj'[q].by \in {obj[q].by, "none"}
  <2>1. CASE obj[q].st = "closing" /\ obj[q].by = "sweep"
    <3>1. obj'[q] = [obj[q] EXCEPT !.st = "cut", !.by = "none"]
      BY <2>1 DEF HostStop
    <3>2. PICK x \in ObjRec : x = obj[q]
      BY <1>2
    <3>3. PICK y : y = [x EXCEPT !.st = "cut", !.by = "none"]
      OBVIOUS
    <3>4. /\ y \in ObjRec /\ y.st = "cut" /\ y.by = "none" /\ y.sid = x.sid /\ y.ttl = x.ttl
          /\ y.late = x.late /\ y.why = x.why
      BY <3>3 DEF ObjRec
    <3> QED  BY <2>1, <3>1, <3>2, <3>3, <3>4
  <2>2. CASE ~(obj[q].st = "closing" /\ obj[q].by = "sweep")
    BY <1>2, <2>2 DEF HostStop
  <2> QED  BY <2>1, <2>2
<1>4. obj' \in [1..made -> ObjRec]
  BY <1>3 DEF HostStop
<1>5. Mild
  BY <1>1, <1>3, <1>4 DEF Mild
<1>6. OthersTyped'
  BY <1>0, <1>1 DEF PsTypeOK, OthersTyped, HostStop
<1>7. TableTyped' /\ SessionsSound'
  BY <1>5, MildKeepsTable
<1>8. \A q \in 1..made : obj'[q].by # "host"
  BY <1>1, <1>3 DEF PsInv, HostAwaits
<1>9. HostSide'
  BY <1>1, <1>8 DEF HostSide, HostAwaits, ListedApart, GoneIsClosedApart
<1> QED  BY <1>6, <1>7, <1>9, PsParts, PTL

\* shutdown takes the sids it has to drop.
LEMMA HostListsKeeps ==
  ASSUME PsInv, HostLists
  PROVE  PsInv'
<1>0. PsTypeOK
  BY DEF PsInv
<1>1. /\ UNCHANGED <<table, obj, made, ended, psReq, sweep, overdue>> /\ host \in {"list", "cancel"}
      /\ host' = "drop" /\ todo' = ToDrop /\ todo' \subseteq PSids
  BY DEF HostLists, ToDrop
<1>2. Mild
  BY <1>0, <1>1 DEF Mild, PsTypeOK
<1>3. OthersTyped'
  BY <1>0, <1>1 DEF PsTypeOK, OthersTyped
<1>4. TableTyped' /\ SessionsSound'
  BY <1>2, MildKeepsTable
<1>5. HostAwaits'
  BY <1>1 DEF PsInv, HostAwaits
<1>6. ListedApart'
  <2>1. \A o \in 1..made : obj[o].st = "open" => obj[o].sid \in ToDrop
    BY <1>0 DEF PsInv, SessionsSound, TableIsOpen, ToDrop, PsTypeOK, ObjRec, NoObj
  <2> QED  BY <1>1, <2>1 DEF ListedApart
<1>7. HostSide'
  BY <1>1, <1>5, <1>6 DEF HostSide, GoneIsClosedApart
<1> QED  BY <1>3, <1>4, <1>7, PsParts, PTL

\* shutdown drops one sid.
LEMMA HostDropsKeeps ==
  ASSUME PsInv, NEW s \in PSids, HostDrops(s)
  PROVE  PsInv'
<1>0. PsTypeOK
  BY DEF PsInv
<1>1. UNCHANGED <<made, psReq, sweep, overdue>> /\ host = "drop" /\ todo' = todo \ {s}
  BY DEF HostDrops
<1>2. CASE table[s] = NoObj
  <2>1. UNCHANGED <<table, obj, ended, host>>
    BY <1>2 DEF HostDrops
  <2>2. Mild
    BY <1>0, <1>1, <2>1 DEF Mild, PsTypeOK
  <2>3. OthersTyped'
    BY <1>0, <1>1, <2>1 DEF PsTypeOK, OthersTyped
  <2>4. TableTyped' /\ SessionsSound'
    BY <2>2, MildKeepsTable
  <2>5. HostAwaits'
    BY <1>1, <2>1 DEF PsInv, HostAwaits
  <2>6. ListedApart'
    <3>1. \A o \in 1..made : obj[o].st = "open" => obj[o].sid # s
      BY <1>0, <1>2 DEF PsInv, SessionsSound, TableIsOpen, PsTypeOK, NoObj
    <3> QED  BY <1>1, <2>1, <3>1 DEF PsInv, ListedApart
  <2>7. HostSide'
    BY <1>1, <2>1, <2>5, <2>6 DEF HostSide, GoneIsClosedApart
  <2> QED  BY <2>3, <2>4, <2>7, PsParts, PTL
<1>3. CASE table[s] # NoObj
  <2>1. table[s] \in 1..made /\ obj[table[s]].st = "open" /\ obj[table[s]].sid = s
    BY <1>0, <1>3 DEF PsInv, PsTypeOK, SessionsSound, TableIsOpen, TableBySid, NoObj
  <2>2. PICK o \in 1..made : o = table[s]
    BY <2>1
  <2>3. End(o, "dropped", "host") /\ host' = "close"
    BY <1>3, <2>2 DEF HostDrops
  <2>4. TableTyped' /\ SessionsSound'
    BY <1>1, <2>1, <2>2, <2>3, EndKeepsTable
  <2>5. /\ obj'[o].st = "closing" /\ obj'[o].by = "host"
        /\ \A q \in 1..made : q # o => obj'[q] = obj[q]
    BY <1>0, <2>3, EndFacts
  <2>6. HostAwaits'
    BY <1>1, <2>3, <2>5 DEF PsInv, HostAwaits
  <2>7. ListedApart'
    <3>1. \A q \in 1..made : q # o /\ obj[q].st = "open" => obj[q].sid # s
      BY <2>2 DEF PsInv, SessionsSound, TableIsOpen
    <3> QED  BY <1>1, <2>3, <2>5, <3>1 DEF PsInv, ListedApart
  <2>8. HostSide'
    BY <2>3, <2>6, <2>7 DEF HostSide, GoneIsClosedApart
  <2>9. OthersTyped'
    BY <1>0, <1>1, <2>3 DEF PsTypeOK, OthersTyped
  <2> QED  BY <2>4, <2>8, <2>9, PsParts, PTL
<1> QED  BY <1>2, <1>3

\* The host strips the routes.
LEMMA HostStripsKeeps ==
  ASSUME PsInv, HostStrips
  PROVE  PsInv'
<1>0. PsTypeOK
  BY DEF PsInv
<1>1. /\ UNCHANGED <<table, obj, made, ended, psReq, sweep, overdue, todo>>
      /\ host = "drop" /\ todo = {} /\ host' = "gone"
  BY DEF HostStrips
<1>2. Mild
  BY <1>0, <1>1 DEF Mild, PsTypeOK
<1>3. OthersTyped'
  BY <1>0, <1>1 DEF PsTypeOK, OthersTyped
<1>4. TableTyped' /\ SessionsSound'
  BY <1>2, MildKeepsTable
<1>5. HostAwaits'
  BY <1>1 DEF PsInv, HostAwaits
<1>6. GoneIsClosedApart'
  BY <1>1 DEF PsInv, ListedApart, GoneIsClosedApart
<1>7. HostSide'
  BY <1>1, <1>5, <1>6 DEF HostSide, ListedApart
<1> QED  BY <1>3, <1>4, <1>7, PsParts, PTL

\* Every step keeps the invariant.
LEMMA PsNextKeeps == PsInv /\ [PsNext]_psVars => PsInv'
<1> SUFFICES ASSUME PsInv, [PsNext]_psVars
             PROVE  PsInv'
  OBVIOUS
<1>1. CASE \E r \in Reqs : \/ RequestEnds(r)
                           \/ \E s \in PSids : \/ Request(r, s) \/ Unregister(r, s)
                                               \/ \E ttl \in BOOLEAN : Register(r, s, ttl)
  BY <1>1, RequestEndsKeeps, RequestKeeps, SessionUnregisters, SessionRegisters
<1>2. CASE \E o \in 1..made : CloseReturns(o) \/ Work(o) \/ SweepNext(o)
  BY <1>2, CloseReturnsKeeps, SessionWorks, SweepNextKeeps
<1>3. CASE Tick
  BY <1>3, TickKeeps
<1>4. CASE SweepWakes \/ SweepEnds
  BY <1>4, SweepKeeps
<1>5. CASE HostStop \/ HostLists \/ HostStrips \/ \E s \in PSids : HostDrops(s)
  BY <1>5, HostStopKeeps, HostListsKeeps, HostStripsKeeps, HostDropsKeeps
<1>6. CASE UNCHANGED psVars
  BY <1>6, Zenon DEF psVars, PsInv, PsTypeOK, SessionsSound, TableBySid, TableIsOpen,
       EndedStaysEnded,
     DefaultStays, OpenIsUnjudged, HostAwaits, ListedApart, GoneIsClosedApart
<1> QED  BY <1>1, <1>2, <1>3, <1>4, <1>5, <1>6 DEF PsNext

\* An open session is ended as expired only if it is idle past its timeout.
JudgedIdle ==
  \A o \in 1..made :
    (obj[o].st = "open" /\ obj'[o].why = "expired") => Due(o) /\ ~InUse(o)

\* A step that writes no reason ends nothing.
LEMMA NothingJudged ==
  ASSUME PsInv, \A o \in 1..made : obj'[o].why = obj[o].why
  PROVE  JudgedIdle
BY DEF PsInv, SessionsSound, OpenIsUnjudged, JudgedIdle

\* Ending one session judges that one only.
LEMMA EndJudges ==
  ASSUME PsInv, NEW o \in 1..made, NEW why \in {"expired", "closed", "dropped"},
         NEW by \in Reqs \cup {"sweep", "host"}, End(o, why, by),
         why = "expired" => Due(o) /\ ~InUse(o)
  PROVE  JudgedIdle
<1>1. obj'[o].why = why /\ \A q \in 1..made : q # o => obj'[q] = obj[q]
  BY EndFacts DEF PsInv
<1> QED  BY <1>1 DEF PsInv, SessionsSound, OpenIsUnjudged, JudgedIdle

\* Every step judges idle sessions only.
LEMMA PsNextJudges ==
  ASSUME PsInv, [PsNext]_psVars
  PROVE  JudgedIdle
<1>0. /\ obj \in [1..made -> ObjRec] /\ made \in Nat /\ table \in [PSids -> 0..made]
      /\ overdue \subseteq 1..made
  BY PluginSids DEF PsInv, PsTypeOK
<1>1. \A o : obj' = Touched(o) => \A q \in 1..made : obj'[q].why = obj[q].why
  <2>1. \A x \in ObjRec : [x EXCEPT !.age = 0].why = x.why
    BY DEF ObjRec
  <2> QED  BY <1>0, <2>1 DEF Touched
<1>2. \A s \in PSids, ttl \in BOOLEAN : New(s, ttl) => \A q \in 1..made : obj'[q] = obj[q]
  BY <1>0 DEF New
<1>3. ASSUME NEW r \in Reqs, NEW s \in PSids, ExpireIfDue(r, table[s])
      PROVE  JudgedIdle
  <2>1. PICK o \in 1..made : o = table[s]
    BY <1>0, <1>3 DEF ExpireIfDue, NoObj
  <2>2. End(o, "expired", r) /\ Due(o) /\ ~InUse(o)
    BY <1>3, <2>1 DEF ExpireIfDue, Expires
  <2> QED  BY <2>2, EndJudges
<1>4. ASSUME NEW r \in Reqs, RequestEnds(r)
      PROVE  JudgedIdle
  BY <1>1, <1>4, NothingJudged DEF RequestEnds
<1>5. ASSUME NEW r \in Reqs, NEW s \in PSids, Request(r, s)
      PROVE  JudgedIdle
  <2>1. CASE ExpireIfDue(r, table[s])
    BY <1>3, <2>1
  <2>2. CASE EnsureDefault
    BY <1>2, <2>2, NothingJudged, PluginSids DEF EnsureDefault
  <2>3. CASE Forward(r, table[s])
    BY <1>1, <2>3, NothingJudged DEF Forward
  <2> QED  BY <1>5, <2>1, <2>2, <2>3 DEF Request
<1>6. ASSUME NEW r \in Reqs, NEW s \in PSids, Unregister(r, s)
      PROVE  JudgedIdle
  <2>1. PICK o \in 1..made : o = table[s]
    BY <1>0, <1>6 DEF Unregister, NoObj
  <2> QED  BY <1>6, <2>1, EndJudges DEF Unregister
<1>7. ASSUME NEW r \in Reqs, NEW s \in PSids, NEW ttl \in BOOLEAN, Register(r, s, ttl)
      PROVE  JudgedIdle
  <2>1. CASE ExpireIfDue(r, table[s])
    BY <1>3, <2>1
  <2>2. CASE OpenSession(s, ttl)
    BY <1>1, <1>2, <2>2, NothingJudged DEF OpenSession
  <2> QED  BY <1>7, <2>1, <2>2 DEF Register
<1>8. ASSUME NEW o \in 1..made, CloseReturns(o) \/ Work(o)
      PROVE  JudgedIdle
  <2>1. \A x \in ObjRec : /\ [x EXCEPT !.busy = ~x.busy].why = x.why
                          /\ [x EXCEPT !.st = "closed", !.age = 0, !.busy = FALSE, !.by = "none"].why = x.why
    BY DEF ObjRec
  <2>2. CASE CloseReturns(o)
    BY <1>0, <2>1, <2>2, NothingJudged DEF CloseReturns
  <2>3. CASE Work(o)
    <3>1. CASE obj' = [obj EXCEPT ![o].busy = ~@]
      <4>1. obj' = [obj EXCEPT ![o] = [obj[o] EXCEPT !.busy = ~obj[o].busy]]
        BY <3>1
      <4> QED  BY <1>0, <2>1, <4>1, NothingJudged
    <3>2. CASE obj' = Touched(o)
      BY <1>1, <3>2, NothingJudged
    <3> QED  BY <2>3, <3>1, <3>2 DEF Work
  <2> QED  BY <1>8, <2>2, <2>3
<1>9. ASSUME NEW o \in 1..made, SweepNext(o)
      PROVE  JudgedIdle
  <2>1. CASE End(o, "expired", "sweep") /\ Due(o) /\ ~InUse(o)
    BY <2>1, EndJudges
  <2>2. CASE obj' = Touched(o)
    BY <1>1, <2>2, NothingJudged
  <2>3. CASE obj' = obj
    BY <2>3, NothingJudged
  <2> QED  BY <1>9, <2>1, <2>2, <2>3 DEF SweepNext, Swept
<1>10. CASE Tick
  <2>1. \A x \in ObjRec : [x EXCEPT !.age = x.age + 1].why = x.why
    BY DEF ObjRec
  <2> QED  BY <1>0, <1>10, <2>1, NothingJudged DEF Tick
<1>11. CASE HostStop
  <2>1. \A x \in ObjRec : [x EXCEPT !.st = "cut", !.by = "none"].why = x.why
    BY DEF ObjRec
  <2> QED  BY <1>0, <1>11, <2>1, NothingJudged DEF HostStop
<1>12. ASSUME NEW s \in PSids, HostDrops(s)
       PROVE  JudgedIdle
  <2>1. CASE table[s] = NoObj
    BY <1>12, <2>1, NothingJudged DEF HostDrops
  <2>2. CASE table[s] # NoObj
    <3>1. PICK o \in 1..made : o = table[s]
      BY <1>0, <2>2 DEF NoObj
    <3> QED  BY <1>12, <2>2, <3>1, EndJudges DEF HostDrops
  <2> QED  BY <2>1, <2>2
<1>13. CASE SweepWakes \/ SweepEnds \/ HostLists \/ HostStrips \/ UNCHANGED psVars
  BY <1>13, NothingJudged DEF SweepWakes, SweepEnds, HostLists, HostStrips, psVars
<1> QED  BY <1>4, <1>5, <1>6, <1>7, <1>8, <1>9, <1>10, <1>11, <1>12, <1>13 DEF PsNext

\* The first states.
LEMMA PsInitInv == PsInit => PsInv
<1> SUFFICES ASSUME PsInit
             PROVE  PsInv
  OBVIOUS
<1>1. made = 0 /\ 1..made = {} /\ 0..made = {0} /\ \A s \in PSids : table[s] = NoObj
  BY DEF PsInit
<1>2. PsTypeOK
  <2>1. obj \in [1..made -> ObjRec]
    BY <1>1 DEF PsInit
  <2>2. table \in [PSids -> 0..made] /\ made \in 0..MaxObj
    BY <1>1, PluginSids DEF PsInit, NoObj
  <2>3. psReq \in [Reqs -> [pc: {"idle", "run", "close"}, obj: 0..made]]
    BY <1>1 DEF PsInit, NoObj
  <2> QED  BY <1>1, <2>1, <2>2, <2>3 DEF PsInit, PsTypeOK
<1>3. SessionsSound
  BY <1>1 DEF PsInit, SessionsSound, TableBySid, TableIsOpen, EndedStaysEnded, DefaultStays,
       OpenIsUnjudged
<1>4. HostSide
  BY <1>1 DEF PsInit, HostSide, HostAwaits, ListedApart, GoneIsClosedApart
<1> QED  BY <1>2, <1>3, <1>4 DEF PsInv, HostSide

\* The table holds the open sessions, an ended sid stays ended, and a plugin
\* that was taken down leaves no session open but those that came late: for
\* any number of sids, requests and sessions (Plugin, BrokerPluginHost).
THEOREM SessionsAreSound ==
  PsSpec => [](PsTypeOK /\ TableIsOpen /\ EndedStaysEnded /\ GoneIsClosedApart)
<1>1. PsInv => PsTypeOK /\ TableIsOpen /\ EndedStaysEnded /\ GoneIsClosedApart
  BY DEF PsInv, SessionsSound
<1> QED  BY <1>1, PsInitInv, PsNextKeeps, PTL DEF PsSpec

\* A session expires only while it is idle past its timeout, whoever finds it
\* (_expire_if_due, the sweep).
THEOREM SessionsExpireIdle == PsSpec => ExpiresOnlyIdle
<1>1. PsInv /\ [PsNext]_psVars => [JudgedIdle]_psVars
  BY PsNextJudges
<1>2. PsSpec => [][JudgedIdle]_psVars
  BY <1>1, PsInitInv, PsNextKeeps, PTL DEF PsSpec
<1> QED  BY <1>2 DEF ExpiresOnlyIdle, JudgedIdle

-----------------------------------------------------------------------------
(***************************************************************************)
(* Deliveries of the plugin host (HostLoop).                               *)
(***************************************************************************)

\* A delivery.
WalkRec ==
  [says: {"present", "lost", "absent"}, over: BOOLEAN, broken: BOOLEAN, size: Nat,
   heard: SUBSET HNames]

\* The types that the steps rely on, and what is so before the start.
HlTyped ==
  /\ HlTypeOK
  /\ hosted \in Seq(HNames) /\ walks \in Seq(WalkRec)
  /\ life = "new" => hosted = << >> /\ walks = << >> /\ hloop = "off"

\* While the host believes the child is there, no loss is the newest news.
PrevIsPresent ==
  prev => \A i \in 1..Len(walks) :
            walks[i].says = "lost" => \E k \in i + 1..Len(walks) : walks[k].says = "present"

HlInv == HlTyped /\ DeliveredToAll /\ LostToldOnce /\ PrevIsPresent

\* The iterator goes one handler further: what the walk says stays, and it is
\* over without a break only when every plugin that is loaded has heard.
LEMMA AdvancedFacts ==
  ASSUME HlTyped, NEW w \in WalkRec, ~w.over, NEW size \in Nat
  PROVE  /\ Advanced(w, size) \in WalkRec /\ Advanced(w, size).says = w.says
         /\ Advanced(w, size).over /\ ~Advanced(w, size).broken
              => StaticsLoaded \subseteq Advanced(w, size).heard
<1>1. CASE size # Len(hosted)
  <2>1. PICK x : x = [w EXCEPT !.over = TRUE, !.broken = TRUE, !.size = 0]
    OBVIOUS
  <2>2. x \in WalkRec /\ x.says = w.says /\ x.broken
    BY <2>1 DEF WalkRec
  <2>3. Advanced(w, size) = x
    BY <1>1, <2>1 DEF Advanced, Over
  <2> QED  BY <2>2, <2>3
<1>2. CASE size = Len(hosted) /\ RestOf(w) = {}
  <2>1. PICK x : x = [w EXCEPT !.over = TRUE, !.broken = FALSE, !.size = 0]
    OBVIOUS
  <2>2. x \in WalkRec /\ x.says = w.says /\ x.heard = w.heard
    BY <2>1 DEF WalkRec
  <2>3. Advanced(w, size) = x
    BY <1>2, <2>1 DEF Advanced, Over
  <2>4. StaticsLoaded \subseteq w.heard
    BY <1>2 DEF RestOf, StaticsLoaded, ToSet, HlTyped
  <2> QED  BY <2>2, <2>3, <2>4
<1>3. CASE size = Len(hosted) /\ RestOf(w) # {}
  <2>0. RestOf(w) \subseteq Nat
    BY DEF RestOf
  <2>1. \E n \in RestOf(w) : \A m \in RestOf(w) : n <= m
    BY <1>3, <2>0, LeastNatural, Zenon
  <2>2. Min(RestOf(w)) \in RestOf(w)
    BY <2>1 DEF Min
  <2>3. hosted[Min(RestOf(w))] \in HNames
    BY <2>2 DEF RestOf, HlTyped
  <2>4. PICK h \in HNames : h = hosted[Min(RestOf(w))]
    BY <2>3
  <2>5. PICK x : x = [w EXCEPT !.size = size, !.heard = w.heard \cup {h}]
    OBVIOUS
  <2>6. x \in WalkRec /\ x.says = w.says /\ x.over = w.over
    BY <2>5 DEF WalkRec
  <2>7. Advanced(w, size) = x
    BY <1>3, <2>4, <2>5 DEF Advanced
  <2> QED  BY <2>6, <2>7
<1> QED  BY <1>1, <1>2, <1>3

\* What the steps do to the deliveries: they stay what they say, and one that
\* is over unbroken was so before or has reached everybody.
WalksGoOn ==
  /\ Len(walks') = Len(walks) /\ UNCHANGED <<prev, life>>
  /\ \A i \in 1..Len(walks) :
       /\ walks'[i] \in WalkRec /\ walks'[i].says = walks[i].says
       /\ walks'[i].over /\ ~walks'[i].broken =>
            (walks'[i] = walks[i] \/ StaticsLoaded \subseteq walks'[i].heard)

\* The news depends on what the deliveries say only.
LEMMA SameNews ==
  ASSUME HlInv, WalksGoOn
  PROVE  LostToldOnce' /\ PrevIsPresent'
<1>1. LostToldOnce'
  BY DEF HlInv, WalksGoOn, LostToldOnce
<1>2. PrevIsPresent'
  BY DEF HlInv, WalksGoOn, PrevIsPresent
<1> QED  BY <1>1, <1>2

\* One walk advances.
LEMMA AdvanceKeeps ==
  ASSUME HlInv, NEW i \in 1..Len(walks), NEW size \in Nat, ~walks[i].over, hloop = "running",
         walks' = [walks EXCEPT ![i] = Advanced(walks[i], size)], HostOnly
  PROVE  HlInv'
<1>0. \A j \in 1..Len(walks) : walks[j] \in WalkRec
  BY DEF HlInv, HlTyped
<1>1. PICK x : x = Advanced(walks[i], size)
  OBVIOUS
<1>2. x \in WalkRec /\ x.says = walks[i].says /\ (x.over /\ ~x.broken => StaticsLoaded \subseteq x.heard)
  BY <1>0, <1>1, AdvancedFacts DEF HlInv
<1>3. /\ Len(walks') = Len(walks) /\ walks'[i] = x
      /\ \A j \in 1..Len(walks) : j # i => walks'[j] = walks[j]
  BY <1>1
<1>4. UNCHANGED <<life, hloop, hosted, dyn, prev, hcall, winding>>
  BY DEF HostOnly
<1>5. WalksGoOn
  BY <1>0, <1>2, <1>3, <1>4 DEF WalksGoOn
<1>6. HlTyped'
  <2>1. walks' \in Seq(WalkRec)
    BY <1>1, <1>2 DEF HlInv, HlTyped
  <2>2. life # "new"
    BY DEF HlInv, HlTyped
  <2>3. HlTypeOK'
    <3>1. \A j \in 1..Len(walks') : walks'[j] \in WalkRec
      BY <1>0, <1>2, <1>3
    <3> QED  BY <1>4, <3>1 DEF HlInv, HlTyped, HlTypeOK, WalkRec
  <2> QED  BY <1>4, <2>1, <2>2, <2>3 DEF HlInv, HlTyped
<1>7. DeliveredToAll'
  BY <1>2, <1>3, <1>4 DEF HlInv, DeliveredToAll, StaticsLoaded
<1> QED  BY <1>5, <1>6, <1>7, SameNews DEF HlInv

\* on_topology_change: a walk begins, a handler returns or raises.
LEMMA WalkStepKeeps ==
  ASSUME HlInv, NEW i \in 1..MaxDeliver, Begin(i) \/ HandlerReturns(i) \/ HandlerRaises(i)
  PROVE  HlInv'
<1>1. i \in 1..Len(walks) /\ hloop = "running" /\ HostOnly
  BY DEF Begin, HandlerReturns, HandlerRaises
<1>2. walks[i] \in WalkRec /\ Len(hosted) \in Nat
  BY <1>1 DEF HlInv, HlTyped, HlTypeOK
<1>3. CASE Begin(i)
  <2>1. ~walks[i].over
    BY <1>3 DEF Begin, Begun
  <2> QED  BY <1>1, <1>2, <1>3, <2>1, AdvanceKeeps DEF Begin
<1>4. CASE HandlerReturns(i) \/ HandlerRaises(i)
  <2>1. walks[i].size \in Nat /\ ~walks[i].over
    BY <1>2, <1>4 DEF HandlerReturns, HandlerRaises, WalkRec
  <2>2. walks' = [walks EXCEPT ![i] = Advanced(walks[i], walks[i].size)]
    BY <1>4 DEF HandlerReturns, HandlerRaises, RaiseNoted
  <2> QED  BY <1>1, <2>1, <2>2, AdvanceKeeps
<1> QED  BY <1>3, <1>4

\* A topology is handed to the host.
LEMMA DeliverKeeps ==
  ASSUME HlInv, NEW listed \in BOOLEAN, DeliverToHost(listed)
  PROVE  HlInv'
<1>0. walks \in Seq(WalkRec) /\ Len(walks) \in Nat
  BY DEF HlInv, HlTyped
<1>1. PICK says : says = IF listed THEN "present" ELSE IF prev THEN "lost" ELSE "absent"
  OBVIOUS
<1>2. PICK x : x = [says |-> says, over |-> FALSE, broken |-> FALSE, size |-> 0, heard |-> {}]
  OBVIOUS
<1>3. x \in WalkRec /\ ~x.over /\ x.says = says
  BY <1>1, <1>2 DEF WalkRec
<1>4. walks' = Append(walks, x)
  BY <1>1, <1>2 DEF DeliverToHost
<1>5. /\ walks' \in Seq(WalkRec) /\ Len(walks') = Len(walks) + 1
      /\ walks'[Len(walks) + 1] = x
      /\ \A i \in 1..Len(walks) : walks'[i] = walks[i]
  BY <1>0, <1>3, <1>4, AppendFacts
<1>6. \A i \in 1..Len(walks') : i = Len(walks) + 1 \/ (i \in 1..Len(walks) /\ walks'[i] = walks[i])
  BY <1>0, <1>5
<1>7. UNCHANGED <<life, hloop, hosted, dyn, hcall, winding>> /\ prev' = listed /\ life # "new"
  BY DEF DeliverToHost, TakesPrev, Routing
<1>8. HlTyped'
  <2>1. \A i \in 1..Len(walks') : walks'[i] \in WalkRec
    BY <1>0, <1>3, <1>5, <1>6
  <2>2. HlTypeOK'
    BY <1>7, <2>1 DEF HlInv, HlTyped, HlTypeOK, WalkRec
  <2> QED  BY <1>5, <1>7, <2>2 DEF HlInv, HlTyped
<1>9. DeliveredToAll'
  BY <1>3, <1>5, <1>6, <1>7 DEF HlInv, DeliveredToAll, StaticsLoaded
<1>10. LostToldOnce'
  <2> SUFFICES ASSUME NEW i \in 1..Len(walks'), NEW j \in 1..Len(walks'), i < j,
                      walks'[i].says = "lost", walks'[j].says = "lost"
               PROVE  \E k \in i + 1..j - 1 : walks'[k].says = "present"
    BY DEF LostToldOnce
  <2>1. i \in 1..Len(walks) /\ walks[i].says = "lost"
    BY <1>0, <1>5, <1>6
  <2>2. CASE j = Len(walks) + 1
    <3>1. prev
      BY <1>1, <1>3, <1>5, <2>2
    <3>2. PICK k \in i + 1..Len(walks) : walks[k].says = "present"
      BY <2>1, <3>1 DEF HlInv, PrevIsPresent
    <3>3. k \in i + 1..j - 1 /\ walks'[k] = walks[k]
      BY <1>0, <1>5, <2>1, <2>2, <3>2
    <3> QED  BY <3>2, <3>3
  <2>3. CASE j \in 1..Len(walks) /\ walks'[j] = walks[j]
    <3>1. PICK k \in i + 1..j - 1 : walks[k].says = "present"
      BY <2>1, <2>3 DEF HlInv, LostToldOnce
    <3>2. walks'[k] = walks[k]
      BY <1>0, <1>5, <2>1, <2>3, <3>1
    <3> QED  BY <3>1, <3>2
  <2> QED  BY <1>6, <2>2, <2>3
<1>11. PrevIsPresent'
  <2> SUFFICES ASSUME listed, NEW i \in 1..Len(walks'), walks'[i].says = "lost"
               PROVE  \E k \in i + 1..Len(walks') : walks'[k].says = "present"
    BY <1>7 DEF PrevIsPresent
  <2>1. x.says = "present"
    BY <1>1, <1>3
  <2>2. i \in 1..Len(walks)
    BY <1>5, <1>6, <2>1
  <2>3. Len(walks) + 1 \in i + 1..Len(walks')
    BY <1>0, <1>5, <2>2
  <2> QED  BY <1>5, <2>1, <2>3
<1> QED  BY <1>8, <1>9, <1>10, <1>11 DEF HlInv

\* A step that touches neither deliveries nor plugins.
LEMMA OtherHostKeeps ==
  ASSUME HlInv, UNCHANGED <<hosted, dyn, prev, walks>>,
         life' \in {"up", "closing", "blocked", "down"} \/ UNCHANGED <<life, hloop>>,
         hloop' \in {"off", "running", "stopped"}, winding' \in {"off", "running", "over"},
         life' \in {"new", "up", "closing", "blocked", "down"},
         hcall' \in [HCalls -> {"idle", "posted", "handling", "handled", "answered"}]
  PROVE  HlInv'
<1>1. HlTypeOK'
  BY DEF HlInv, HlTyped, HlTypeOK
<1>2. HlTyped'
  BY <1>1 DEF HlInv, HlTyped
<1>3. DeliveredToAll' /\ LostToldOnce' /\ PrevIsPresent'
  BY DEF HlInv, DeliveredToAll, StaticsLoaded, LostToldOnce, PrevIsPresent
<1> QED  BY <1>2, <1>3 DEF HlInv

\* The plugin table changes: the static plugins stay.
LEMMA TableKeeps ==
  ASSUME HlInv, UNCHANGED <<life, hloop, prev, walks, hcall, winding>>, life # "new",
         dyn' \in 0..MaxDyn, hosted' \in Seq(HNames), StaticsLoaded' \subseteq StaticsLoaded
  PROVE  HlInv'
<1>1. ToSet(hosted)' \subseteq HNames
  BY DEF ToSet
<1>2. HlTypeOK'
  BY <1>1 DEF HlInv, HlTyped, HlTypeOK
<1>3. HlTyped'
  BY <1>2 DEF HlInv, HlTyped
<1>4. DeliveredToAll'
  BY DEF HlInv, DeliveredToAll
<1>5. LostToldOnce' /\ PrevIsPresent'
  BY DEF HlInv, LostToldOnce, PrevIsPresent
<1> QED  BY <1>3, <1>4, <1>5 DEF HlInv

\* Dynamic plugins come and go.
LEMMA DynamicKeeps ==
  ASSUME HlInv, RegisterDynamic \/ DeregisterDynamic
  PROVE  HlInv'
<1>0. hosted \in Seq(HNames) /\ Len(hosted) \in Nat /\ dyn \in 0..MaxDyn /\ life # "new"
  BY DEF HlInv, HlTyped, HlTypeOK, RegisterDynamic, DeregisterDynamic
<1>1. CASE RegisterDynamic
  <2>1. Dyn(dyn + 1) \in HNames /\ Dyn(dyn + 1) \notin Statics /\ dyn' \in 0..MaxDyn
    BY <1>0, <1>1, HostConstants DEF RegisterDynamic, Dyn, HNames, Statics
  <2>2. /\ hosted' \in Seq(HNames) /\ Len(hosted') = Len(hosted) + 1
        /\ \A i \in 1..(Len(hosted) + 1) :
             hosted'[i] = IF i = Len(hosted) + 1 THEN Dyn(dyn + 1) ELSE hosted[i]
    BY <1>0, <1>1, <2>1, AppendFacts DEF RegisterDynamic
  <2>3. StaticsLoaded' \subseteq StaticsLoaded
    <3> SUFFICES ASSUME NEW p \in Statics, NEW i \in 1..Len(hosted'), hosted'[i] = p
                 PROVE  \E j \in 1..Len(hosted) : hosted[j] = p
      BY <1>0, <2>2 DEF StaticsLoaded, ToSet
    <3> QED  BY <1>0, <2>1, <2>2
  <2> QED  BY <1>0, <1>1, <2>1, <2>2, <2>3, TableKeeps DEF RegisterDynamic
<1>2. CASE DeregisterDynamic
  <2>1. PICK i \in 1..Len(hosted) : hosted' = RemoveAt(hosted, i)
    BY <1>2 DEF DeregisterDynamic
  <2>2. /\ hosted' \in Seq(HNames) /\ Len(hosted') = Len(hosted) - 1
        /\ \A j \in 1..(Len(hosted) - 1) : hosted'[j] = IF j < i THEN hosted[j] ELSE hosted[j + 1]
    BY <1>0, <2>1, RemoveAtFacts
  <2>3. StaticsLoaded' \subseteq StaticsLoaded
    <3>1. ASSUME NEW j \in 1..Len(hosted')
          PROVE  hosted'[j] \in ToSet(hosted)
      <4>1. /\ j \in 1..Len(hosted) /\ j + 1 \in 1..Len(hosted)
            /\ hosted'[j] = hosted[j] \/ hosted'[j] = hosted[j + 1]
        BY <1>0, <2>2
      <4> QED  BY <4>1 DEF ToSet
    <3>2. ToSet(hosted)' \subseteq ToSet(hosted)
      BY <3>1 DEF ToSet
    <3> QED  BY <3>2, Zenon DEF StaticsLoaded
  <2> QED  BY <1>0, <1>2, <2>2, <2>3, TableKeeps DEF DeregisterDynamic
<1> QED  BY <1>1, <1>2

\* The plugins are loaded before there are deliveries.
LEMMA StartupKeeps ==
  ASSUME HlInv, Startup
  PROVE  HlInv'
<1>1. hosted' \in Seq(HNames)
  <2>1. PICK n \in 0..NHosted : hosted' \in [1..n -> Statics]
    BY DEF Startup, Loaded
  <2>2. n \in Nat /\ Statics \subseteq HNames
    BY HostConstants DEF Statics, HNames
  <2> QED  BY <2>1, <2>2
<1>2. /\ walks = << >> /\ life' = "up" /\ hloop' = "running"
      /\ UNCHANGED <<dyn, prev, walks, hcall, winding>>
  BY DEF HlInv, HlTyped, Startup
<1>3. ToSet(hosted)' \subseteq HNames
  BY <1>1 DEF ToSet
<1>4. HlTypeOK'
  BY <1>2, <1>3 DEF HlInv, HlTyped, HlTypeOK
<1>5. HlTyped'
  BY <1>1, <1>2, <1>4 DEF HlInv, HlTyped
<1>6. DeliveredToAll' /\ LostToldOnce' /\ PrevIsPresent'
  BY <1>2 DEF HlInv, DeliveredToAll, LostToldOnce, PrevIsPresent
<1> QED  BY <1>5, <1>6 DEF HlInv

\* Every step of the two loops keeps the invariant.
LEMMA HlNextKeeps == HlInv /\ [HlNext]_hlVars => HlInv'
<1> SUFFICES ASSUME HlInv, [HlNext]_hlVars
             PROVE  HlInv'
  OBVIOUS
<1>1. CASE Startup
  BY <1>1, StartupKeeps
<1>2. CASE \E listed \in BOOLEAN : DeliverToHost(listed)
  BY <1>2, DeliverKeeps
<1>3. CASE \E i \in 1..MaxDeliver : Begin(i) \/ HandlerReturns(i) \/ HandlerRaises(i)
  BY <1>3, WalkStepKeeps
<1>4. CASE RegisterDynamic \/ DeregisterDynamic
  BY <1>4, DynamicKeeps
<1>5. CASE \E c \in HCalls : CallHost(c) \/ HandleRequest(c) \/ HostRequestEnds(c) \/ Respond(c)
  <2>1. /\ UNCHANGED <<life, hloop, hosted, dyn, prev, walks, winding>>
        /\ hcall' \in [HCalls -> {"idle", "posted", "handling", "handled", "answered"}]
    BY <1>5 DEF CallHost, HandleRequest, HostRequestEnds, RaiseAnswered, Respond, HlInv, HlTyped,
         HlTypeOK
  <2>2. /\ hloop \in {"off", "running", "stopped"} /\ winding \in {"off", "running", "over"}
        /\ life \in {"new", "up", "closing", "blocked", "down"}
    BY DEF HlInv, HlTyped, HlTypeOK
  <2> QED  BY <2>1, <2>2, OtherHostKeeps
<1>6. CASE ShutdownCloses \/ ShutdownPosts \/ PluginsShutDown \/ StopHost
  <2>1. /\ UNCHANGED <<hosted, dyn, prev, walks, hcall>>
        /\ life' \in {"closing", "blocked", "down"} \/ UNCHANGED <<life, hloop>>
        /\ hloop' \in {hloop, "stopped"} /\ winding' \in {winding, "running", "over"}
    BY <1>6 DEF ShutdownCloses, ShutdownPosts, PluginsShutDown, StopHost
  <2>2. /\ hloop \in {"off", "running", "stopped"} /\ winding \in {"off", "running", "over"}
        /\ life \in {"new", "up", "closing", "blocked", "down"}
        /\ hcall \in [HCalls -> {"idle", "posted", "handling", "handled", "answered"}]
    BY DEF HlInv, HlTyped, HlTypeOK
  <2> QED  BY <2>1, <2>2, OtherHostKeeps
<1>7. CASE UNCHANGED hlVars
  <2>1. UNCHANGED <<life, hloop, hosted, dyn, prev, walks, hcall, winding>>
    BY <1>7 DEF hlVars
  <2>2. /\ hloop \in {"off", "running", "stopped"} /\ winding \in {"off", "running", "over"}
        /\ life \in {"new", "up", "closing", "blocked", "down"}
        /\ hcall \in [HCalls -> {"idle", "posted", "handling", "handled", "answered"}]
    BY DEF HlInv, HlTyped, HlTypeOK
  <2> QED  BY <2>1, <2>2, OtherHostKeeps
<1> QED  BY <1>1, <1>2, <1>3, <1>4, <1>5, <1>6, <1>7 DEF HlNext

\* Every delivery that was not broken off reaches every plugin, and a loss is
\* told once: for any number of plugins, requests and deliveries.
THEOREM DeliveriesAreSound == HlSpec => [](HlTypeOK /\ DeliveredToAll /\ LostToldOnce)
<1>1. HlInit => HlInv
  <2> SUFFICES ASSUME HlInit
               PROVE  HlInv
    OBVIOUS
  <2>1. hosted = << >> /\ walks = << >> /\ hosted \in Seq(HNames) /\ walks \in Seq(WalkRec)
    BY DEF HlInit
  <2>2. ToSet(hosted) \subseteq HNames
    BY <2>1 DEF ToSet
  <2>3. HlTypeOK
    <3>1. \A i \in 1..Len(walks) : /\ walks[i].says \in {"present", "lost", "absent"}
                                   /\ walks[i].heard \subseteq HNames
      BY <2>1
    <3>2. dyn \in 0..MaxDyn /\ life = "new" /\ hloop = "off" /\ winding = "off"
      BY HostConstants DEF HlInit
    <3>4. prev \in BOOLEAN
      BY DEF HlInit
    <3>3. hcall \in [HCalls -> {"idle", "posted", "handling", "handled", "answered"}]
      BY DEF HlInit
    <3> QED  BY <2>2, <3>1, <3>2, <3>3, <3>4 DEF HlTypeOK
  <2>4. HlTyped
    BY <2>1, <2>3 DEF HlInit, HlTyped
  <2> QED  BY <2>1, <2>4 DEF HlInit, HlInv, DeliveredToAll, LostToldOnce, PrevIsPresent
<1>2. HlInv => HlTypeOK /\ DeliveredToAll /\ LostToldOnce
  BY DEF HlInv, HlTyped
<1> QED  BY <1>1, <1>2, HlNextKeeps, PTL DEF HlSpec

-----------------------------------------------------------------------------
(***************************************************************************)
(* Sessions of the rhapsody plugin (RhapsodySession).                      *)
(***************************************************************************)

\* Before the teardown took over, and while it closes rhapsody.
Begins  == td \in {"no", "drain"}
Closes  == td \in {"unwind", "rhclose"}
StopsAll   == td \in {"stores", "done"}
Runs(s) == run[s] \in {"starting", "half", "up"}

\* What is open of the rhapsody session has somebody who will see to its end.
OpenIsHeld ==
  /\ closing <=> td # "no"
  /\ held => Begins
  /\ ini \in {"backends", "session"} => ~held /\ rh = "none" /\ tele = "off" /\ ~Closes
  /\ rh = "open" => held \/ Closes
  /\ ini = "telemetry" => held \/ ~Begins
  /\ tele = "starting" => ini = "telemetry"
  /\ tele = "on" => held \/ td = "unwind"
  /\ execs = "up" => ini = "session" \/ held \/ Closes \/ rh = "broken"

\* Requests in flight have the session, or the drain gave up on them.
RoutesHeld ==
  /\ \A r \in Routes : route[r] \in {"first", "second"} => held \/ late
  /\ gone # {} => late
  /\ late => ~Begins

\* Where a store and its start are.
StoreStart(s) ==
  /\ starter[s] = "idle" <=> run[s] = "none"
  /\ starter[s] = "idle" =>
       /\ entry[s].starting = FALSE /\ entry[s].stop = "none"
       /\ s \notin mounted /\ s \notin left /\ s \notin taken /\ s \notin stopper /\ s \notin awaited
       /\ \A n \in Names : data[n] # s
  /\ starter[s] # "idle" => name[s] \in Names /\ (Begins => held)
  /\ entry[s].starting <=> starter[s] = "start"
  /\ run[s] = "starting" <=> starter[s] = "start"

\* A stop has somebody who waits for it.
StoreStop(s) ==
  /\ entry[s].stop = "waiting" => entry[s].starting /\ entry[s].doomed
  /\ entry[s].starting => entry[s].stop \in {"none", "waiting"}
  /\ starter[s] \in {"quiet", "clean"} => entry[s].stop = "running"
  /\ entry[s].stop = "running" =>
       s \in awaited \/ s \in stopper \/ starter[s] \in {"quiet", "clean"}
  /\ entry[s].stop = "done" => run[s] = "down"

\* A store that the rhapsody session holds.
StoreMounted(s) ==
  /\ s \in left => starter[s] = "over"
  /\ s \in mounted => starter[s] = "over" /\ s \notin left
  /\ s \in mounted /\ ~StopsAll => entry[s].stop = "none"
  /\ s \in mounted /\ Begins => data[name[s]] = s
  /\ s \in mounted /\ entry[s].stop = "running" => rh = "broken"

\* Who will stop a store that runs.
StoreTaken(s) ==
  /\ Begins /\ Runs(s) => data[name[s]] = s \/ s \in left
  /\ ~Begins /\ Runs(s) => s \in taken
  /\ StopsAll /\ Runs(s) => entry[s].stop \in {"waiting", "running"} \/ s \in gaveup

StoreInv(s) == StoreStart(s) /\ StoreStop(s) /\ StoreMounted(s) /\ StoreTaken(s)

\* The teardown waits for stores only at its end, and while it closes the
\* rhapsody session, a store it has to stop itself has no mounted namesake.
NamesApart ==
  /\ td # "stores" => awaited = {}
  /\ Closes => \A s \in taken \ left, t \in mounted : name[s] = name[t] => s = t

InitTyped ==
  /\ ini \in {"backends", "session", "telemetry", "ready", "failed"}
  /\ execs \in {"none", "up", "down", "leaked"}
  /\ rh \in {"none", "open", "closed", "broken"} /\ held \in BOOLEAN
  /\ tele \in {"off", "starting", "on"}
CloseTyped ==
  /\ closing \in BOOLEAN /\ late \in BOOLEAN
  /\ td \in {"no", "drain", "unwind", "rhclose", "stores", "done"}
  /\ taken \subseteq Stores /\ awaited \subseteq Stores /\ gaveup \subseteq Stores
RouteTyped ==
  /\ route \in [Routes -> {"idle", "first", "second", "over"}]
  /\ gone \subseteq Routes
StoreTyped ==
  /\ name \in [Stores -> Names \cup {"none"}]
  /\ data \in [Names -> Stores \cup {NoStore}]
  /\ left \subseteq Stores /\ mounted \subseteq Stores
  /\ run \in [Stores -> {"none", "starting", "half", "up", "down"}]
  /\ entry \in [Stores -> EntryRec]
  /\ starter \in [Stores -> {"idle", "start", "quiet", "clean", "cleaned", "over"}]
  /\ stopper \subseteq Stores
  /\ \A n \in Names : data[n] # NoStore => name[data[n]] = n
RsTyped == InitTyped /\ CloseTyped /\ RouteTyped /\ StoreTyped

RsInv ==
  /\ RsTyped /\ OpenIsHeld /\ RoutesHeld /\ NamesApart
  /\ \A s \in Stores : StoreInv(s)

\* The teardown is where it was, as far as the stores are concerned.
SamePhase ==
  /\ Begins' <=> Begins
  /\ Closes' <=> Closes
  /\ StopsAll' <=> StopsAll
  /\ held => held'
  /\ rh = "broken" => rh' = "broken"

\* A step that does nothing to this store.
SameStore(s) ==
  /\ run'[s] = run[s] /\ entry'[s] = entry[s] /\ starter'[s] = starter[s] /\ name'[s] = name[s]
  /\ s \in mounted' <=> s \in mounted
  /\ s \in left' <=> s \in left
  /\ s \in taken' <=> s \in taken
  /\ s \in stopper' <=> s \in stopper
  /\ s \in awaited' <=> s \in awaited
  /\ s \in gaveup => s \in gaveup'
  /\ \A n \in Names : data'[n] = s <=> data[n] = s

\* A step that does nothing to a store keeps what is known of it.
LEMMA OtherStoreKeeps ==
  ASSUME NEW s \in Stores, StoreInv(s), SameStore(s), SamePhase
  PROVE  StoreInv(s)'
<1>1. StoreStart(s)'
  BY DEF StoreInv, StoreStart, SameStore, SamePhase
<1>2. StoreStop(s)'
  BY DEF StoreInv, StoreStop, SameStore
<1>3. StoreMounted(s)'
  BY DEF StoreInv, StoreStart, StoreMounted, SameStore, SamePhase
<1>4. Runs(s)' <=> Runs(s)
  BY DEF Runs, SameStore
<1>5. Runs(s) => name[s] \in Names
  BY DEF Runs, StoreInv, StoreStart
<1>6. StoreTaken(s)'
  BY <1>4, <1>5 DEF StoreInv, StoreTaken, SameStore, SamePhase
<1> QED  BY <1>1, <1>2, <1>3, <1>6 DEF StoreInv

\* The initialization touches no store and no request.
LEMMA InitKeeps ==
  ASSUME RsInv, InitBackends \/ InitSession \/ InitTelemetry
  PROVE  RsInv'
<1>1. UNCHANGED <<rsClose, rsRoute, rsData>>
  BY DEF InitBackends, InitSession, InitTelemetry
<1>2. UNCHANGED rsClose /\ UNCHANGED rsRoute /\ UNCHANGED rsData
  BY <1>1
<1>3. /\ UNCHANGED <<closing, td, late, taken, awaited, gaveup>> /\ UNCHANGED <<route, gone>>
      /\ UNCHANGED <<name, data, left, mounted, run, entry, starter, stopper>>
  BY <1>2 DEF rsClose, rsRoute, rsData
<1>4. CloseTyped' /\ RouteTyped' /\ StoreTyped'
  BY <1>3 DEF RsInv, RsTyped, CloseTyped, RouteTyped, StoreTyped
<1>5. InitTyped' /\ OpenIsHeld' /\ (held => held') /\ (rh = "broken" => rh' = "broken")
  <2>1. CASE InitBackends
    BY <1>3, <2>1 DEF RsInv, RsTyped, InitTyped, OpenIsHeld, InitBackends, Begins, Closes
  <2>2. CASE InitSession
    <3>1. CASE \E tm \in BOOLEAN : SessionBuilt(tm)
      BY <1>3, <2>2, <3>1 DEF RsInv, RsTyped, InitTyped, OpenIsHeld, InitSession, SessionBuilt,
           Begins, Closes
    <3>2. CASE ini' = "failed" /\ execs' = "leaked" /\ UNCHANGED <<rh, held, tele>>
      BY <1>3, <2>2, <3>2 DEF RsInv, RsTyped, InitTyped, OpenIsHeld, InitSession, Begins, Closes
    <3> QED  BY <2>2, <3>1, <3>2 DEF InitSession
  <2>3. CASE InitTelemetry
    BY <1>3, <2>3 DEF RsInv, RsTyped, InitTyped, OpenIsHeld, InitTelemetry, TelemetryStarted,
         Begins, Closes
  <2> QED  BY <2>1, <2>2, <2>3
<1>6. RoutesHeld'
  BY <1>3, <1>5 DEF RsInv, RoutesHeld, Begins
<1>7. NamesApart'
  BY <1>3 DEF RsInv, NamesApart, Closes
<1>8. SamePhase
  BY <1>3, <1>5 DEF SamePhase, Begins, Closes, StopsAll
<1>9. ASSUME NEW s \in Stores
      PROVE  StoreInv(s)'
  <2>1. StoreInv(s)
    BY DEF RsInv
  <2>2. SameStore(s)
    BY <1>3 DEF SameStore
  <2> QED  BY <1>8, <2>1, <2>2, OtherStoreKeeps
<1> QED  BY <1>4, <1>5, <1>6, <1>7, <1>9 DEF RsInv, RsTyped

\* Requests touch no store.
LEMMA RoutesKeep ==
  ASSUME RsInv, NEW r \in Routes, RouteStart(r) \/ RouteResumes(r) \/ RouteEnds(r)
  PROVE  RsInv'
<1>1. UNCHANGED rsClose /\ UNCHANGED rsInit /\ UNCHANGED rsData
  BY DEF RouteStart, RouteResumes, RouteEnds
<1>3. /\ UNCHANGED <<closing, td, late, taken, awaited, gaveup>>
      /\ UNCHANGED <<ini, execs, rh, held, tele>>
      /\ UNCHANGED <<name, data, left, mounted, run, entry, starter, stopper>>
  BY <1>1 DEF rsClose, rsInit, rsData
<1>4. CloseTyped' /\ InitTyped' /\ StoreTyped'
  BY <1>3 DEF RsInv, RsTyped, CloseTyped, InitTyped, StoreTyped
<1>5. RouteTyped'
  BY DEF RsInv, RsTyped, RouteTyped, RouteStart, RouteResumes, RouteEnds
<1>6. RoutesHeld'
  <2>0. /\ route \in [Routes -> {"idle", "first", "second", "over"}] /\ (held => Begins)
        /\ (Begins' <=> Begins)
    BY <1>3 DEF RsInv, RsTyped, RouteTyped, OpenIsHeld, Begins
  <2>1. CASE RouteStart(r)
    BY <1>3, <2>0, <2>1 DEF RsInv, RoutesHeld, RouteStart, Ready
  <2>2. CASE RouteResumes(r)
    <3>1. held \/ late
      BY <2>2 DEF RouteResumes, RsInv, RoutesHeld
    <3>2. gone' # {} => late /\ ~Begins
      <4>1. CASE held
        BY <2>2, <4>1 DEF RouteResumes, RsInv, RoutesHeld
      <4>2. CASE ~held
        <5>1. late
          BY <3>1, <4>2
        <5>2. ~Begins
          BY <5>1 DEF RsInv, RoutesHeld
        <5> QED  BY <5>1, <5>2
      <4> QED  BY <4>1, <4>2
    <3> QED  BY <1>3, <2>0, <2>2, <3>1, <3>2 DEF RsInv, RoutesHeld, RouteResumes
  <2>3. CASE RouteEnds(r)
    BY <1>3, <2>0, <2>3 DEF RsInv, RoutesHeld, RouteEnds
  <2> QED  BY <2>1, <2>2, <2>3
<1>7. NamesApart' /\ OpenIsHeld'
  BY <1>3 DEF RsInv, NamesApart, OpenIsHeld, Closes, Begins
<1>8. SamePhase
  BY <1>3 DEF SamePhase, Begins, Closes, StopsAll
<1>9. ASSUME NEW s \in Stores
      PROVE  StoreInv(s)'
  <2>1. StoreInv(s)
    BY DEF RsInv
  <2>2. SameStore(s)
    BY <1>3 DEF SameStore
  <2> QED  BY <1>8, <2>1, <2>2, OtherStoreKeeps
<1> QED  BY <1>4, <1>5, <1>6, <1>7, <1>9 DEF RsInv, RsTyped

\* What a step of the stores' own has to show.
LEMMA StoreStepKeeps ==
  ASSUME RsInv, UNCHANGED rsInit, UNCHANGED rsRoute, UNCHANGED <<closing, td, late, taken>>,
         awaited' \subseteq awaited, gaveup' \subseteq Stores, StoreTyped',
         Closes => mounted' \subseteq mounted /\ left \subseteq left' /\ UNCHANGED name,
         \A s \in Stores : StoreInv(s)'
  PROVE  RsInv'
<1>1. UNCHANGED <<ini, execs, rh, held, tele>> /\ UNCHANGED <<route, gone>>
  BY DEF rsInit, rsRoute
<1>2. InitTyped' /\ RouteTyped' /\ OpenIsHeld' /\ RoutesHeld'
  BY <1>1 DEF RsInv, RsTyped, InitTyped, RouteTyped, OpenIsHeld, RoutesHeld, Begins, Closes
<1>3. CloseTyped'
  BY DEF RsInv, RsTyped, CloseTyped
<1>4. NamesApart'
  <2>1. td' # "stores" => awaited' = {}
    BY DEF RsInv, NamesApart
  <2>2. ASSUME Closes', NEW s \in taken' \ left', NEW t \in mounted', name'[s] = name'[t]
        PROVE  s = t
    BY <2>2 DEF RsInv, NamesApart, Closes
  <2> QED  BY <2>1, <2>2 DEF NamesApart
<1> QED  BY <1>2, <1>3, <1>4 DEF RsInv, RsTyped

\* What the types say of one store.
LEMMA StoreTypes ==
  ASSUME RsInv, NEW s \in Stores
  PROVE  /\ name \in [Stores -> Names \cup {"none"}] /\ data \in [Names -> Stores \cup {NoStore}]
         /\ run \in [Stores -> {"none", "starting", "half", "up", "down"}]
         /\ starter \in [Stores -> {"idle", "start", "quiet", "clean", "cleaned", "over"}]
         /\ entry[s].starting \in BOOLEAN /\ entry[s].doomed \in BOOLEAN
         /\ entry[s].stop \in {"none", "waiting", "running", "done"}
         /\ StoreInv(s)
BY DEF RsInv, RsTyped, StoreTyped, EntryRec

\* The shutdown task of a store ends.
LEMMA ShutdownEndsKeeps ==
  ASSUME RsInv, NEW s \in Stores, NEW ok \in BOOLEAN, ShutdownEnds(s, ok)
  PROVE  RsInv'
<1>0. entry \in [Stores -> EntryRec] /\ entry[s].stop = "running" /\ NoStore \notin Stores
  BY RsNames DEF RsInv, RsTyped, StoreTyped, ShutdownEnds
<1>1. /\ UNCHANGED rsInit /\ UNCHANGED rsRoute /\ UNCHANGED <<closing, td, late, taken>>
      /\ UNCHANGED <<name, left, mounted>> /\ UNCHANGED <<ini, execs, rh, held, tele>>
  BY DEF ShutdownEnds, rsInit
<1>2. PICK y \in EntryRec :
        y = [starting |-> entry[s].starting, doomed |-> entry[s].doomed,
             stop |-> IF ok THEN "done" ELSE "none"]
  BY StoreTypes DEF EntryRec
<1>3. entry' = [entry EXCEPT ![s] = y]
  <2>1. entry[s] \in EntryRec
    BY <1>0
  <2>2. y = [entry[s] EXCEPT !.stop = IF ok THEN "done" ELSE "none"]
    BY <1>2, <2>1 DEF EntryRec
  <2> QED  BY <2>2 DEF ShutdownEnds, ShutdownSettled
<1>4. /\ y.starting = entry[s].starting /\ y.stop = IF ok THEN "done" ELSE "none"
  BY <1>2
<1>5. /\ run' = IF ok THEN [run EXCEPT ![s] = "down"] ELSE run
      /\ data' = [n \in Names |-> IF ok /\ data[n] = s THEN NoStore ELSE data[n]]
      /\ starter' = [starter EXCEPT ![s] = CASE @ = "quiet" -> "over"
                                             [] @ = "clean" -> "cleaned"
                                             [] OTHER -> @]
      /\ stopper' = stopper \ {s} /\ awaited' = awaited \ {s}
      /\ gaveup' = IF ok \/ Begins THEN gaveup ELSE gaveup \cup {s}
  BY DEF ShutdownEnds, ShutdownSettled, Begins
<1>6. starter'[s] = CASE starter[s] = "quiet" -> "over"
                      [] starter[s] = "clean" -> "cleaned"
                      [] OTHER -> starter[s]
  BY <1>5, StoreTypes
<1>7. starter'[s] \in {"idle", "start", "quiet", "clean", "cleaned", "over"}
      /\ starter' \in [Stores -> {"idle", "start", "quiet", "clean", "cleaned", "over"}]
  BY <1>5, <1>6, StoreTypes
<1>8. StoreTyped'
  <2>1. entry' \in [Stores -> EntryRec]
    BY <1>0, <1>3
  <2>2. run' \in [Stores -> {"none", "starting", "half", "up", "down"}] /\ stopper' \subseteq Stores
    BY <1>5 DEF RsInv, RsTyped, StoreTyped
  <2>3. data' \in [Names -> Stores \cup {NoStore}] /\ \A n \in Names : data'[n] # NoStore => name[data'[n]] = n
    BY <1>5 DEF RsInv, RsTyped, StoreTyped
  <2> QED  BY <1>1, <1>7, <2>1, <2>2, <2>3 DEF RsInv, RsTyped, StoreTyped
<1>9. ASSUME NEW t \in Stores
      PROVE  StoreInv(t)'
  <2>0. SamePhase /\ StoreInv(t)
    BY <1>1, StoreTypes DEF SamePhase, Begins, Closes, StopsAll
  <2>1. CASE t # s
    <3>1. SameStore(t)
      BY <1>0, <1>1, <1>3, <1>5, <2>1, StoreTypes DEF SameStore
    <3> QED  BY <2>0, <3>1, OtherStoreKeeps
  <2>2. CASE t = s
    <3>0. /\ entry'[s].starting = entry[s].starting /\ entry'[s].stop = IF ok THEN "done" ELSE "none"
          /\ run'[s] = IF ok THEN "down" ELSE run[s]
          /\ starter[s] \notin {"idle", "start"} /\ starter'[s] \notin {"idle", "start", "quiet", "clean"}
          /\ StoreInv(s)
      <4>1. StoreInv(s) /\ starter[s] \in {"idle", "start", "quiet", "clean", "cleaned", "over"}
        BY StoreTypes
      <4>2. starter[s] \notin {"idle", "start"}
        BY <1>0, <4>1 DEF StoreInv, StoreStart, StoreStop
      <4> QED  BY <1>0, <1>3, <1>4, <1>5, <1>6, <4>1, <4>2, StoreTypes
    <3>1. StoreStart(s)'
      BY <1>1, <2>0, <3>0 DEF StoreInv, StoreStart, SamePhase
    <3>2. StoreStop(s)'
      BY <3>0 DEF StoreInv, StoreStop, StoreStart
    <3>3. s \in mounted => starter'[s] = "over" /\ (~StopsAll => FALSE)
      BY <1>0, <1>6, <3>0 DEF StoreInv, StoreMounted
    <3>4. StoreMounted(s)'
      <4>1. s \in left => starter'[s] = "over"
        BY <1>6, <3>0 DEF StoreInv, StoreMounted
      <4>2. s \in mounted => s \notin left
        BY <3>0 DEF StoreInv, StoreMounted
      <4>3. Begins => ~StopsAll
        BY DEF Begins, StopsAll
      <4> QED  BY <1>1, <2>0, <3>0, <3>3, <4>1, <4>2, <4>3 DEF SamePhase, StoreMounted
    <3>5. StoreTaken(s)'
      <4>1. CASE ok
        BY <3>0, <4>1 DEF StoreTaken, Runs
      <4>2. CASE ~ok
        <5>1. data' = data /\ (Runs(s)' <=> Runs(s)) /\ (~Begins => s \in gaveup')
          BY <1>5, <3>0, <4>2, StoreTypes DEF Runs
        <5>2. StopsAll => ~Begins
          BY DEF Begins, StopsAll
        <5> QED  BY <1>1, <2>0, <3>0, <5>1, <5>2 DEF StoreInv, StoreTaken, SamePhase
      <4> QED  BY <4>1, <4>2
    <3> QED  BY <2>2, <3>1, <3>2, <3>4, <3>5 DEF StoreInv
  <2> QED  BY <2>1, <2>2
<1>10. awaited' \subseteq awaited /\ gaveup' \subseteq Stores
  BY <1>5 DEF RsInv, RsTyped, CloseTyped
<1> QED  BY <1>1, <1>8, <1>9, <1>10, StoreStepKeeps

\* What becomes of one store, if a step is about it alone.
LEMMA OneStoreKeeps ==
  ASSUME RsInv, UNCHANGED rsInit, UNCHANGED rsRoute, UNCHANGED rsClose, StoreTyped',
         Closes => mounted' \subseteq mounted /\ left \subseteq left' /\ UNCHANGED name,
         NEW s \in Stores, StoreInv(s)',
         \A t \in Stores : t # s => SameStore(t)
  PROVE  RsInv'
<1>1. /\ UNCHANGED <<ini, execs, rh, held, tele>>
      /\ UNCHANGED <<closing, td, late, taken, awaited, gaveup>>
  BY DEF rsInit, rsClose
<1>2. SamePhase
  BY <1>1 DEF SamePhase, Begins, Closes, StopsAll
<1>3. \A t \in Stores : StoreInv(t)'
  <2>1. ASSUME NEW t \in Stores, t # s
        PROVE  StoreInv(t)'
    BY <1>2, <2>1, StoreTypes, OtherStoreKeeps
  <2> QED  BY <2>1
<1>4. awaited' \subseteq awaited /\ gaveup' \subseteq Stores
  BY <1>1 DEF RsInv, RsTyped, CloseTyped
<1> QED  BY <1>1, <1>3, <1>4, StoreStepKeeps

\* data_start reserves the name.
LEMMA DataStartKeeps ==
  ASSUME RsInv, NEW s \in Stores, NEW n \in Names, DataStart(s, n)
  PROVE  RsInv'
<1>0. /\ entry \in [Stores -> EntryRec] /\ entry[s] \in EntryRec /\ NoStore \notin Stores
      /\ starter[s] = "idle" /\ StoreInv(s) /\ data[n] = NoStore /\ held /\ Begins
  BY RsNames, StoreTypes DEF RsInv, RsTyped, StoreTyped, DataStart, OpenIsHeld, Ready
<1>1. /\ UNCHANGED rsInit /\ UNCHANGED rsRoute /\ UNCHANGED rsClose
      /\ UNCHANGED <<left, mounted, stopper>>
      /\ UNCHANGED <<ini, execs, rh, held, tele>>
      /\ UNCHANGED <<closing, td, late, taken, awaited, gaveup>>
  BY DEF DataStart, rsInit, rsClose
<1>2. PICK y \in EntryRec :
        y = [starting |-> TRUE, doomed |-> entry[s].doomed, stop |-> entry[s].stop]
  BY StoreTypes DEF EntryRec
<1>3. entry' = [entry EXCEPT ![s] = y]
  <2>2. y = [entry[s] EXCEPT !.starting = TRUE]
    BY <1>0, <1>2 DEF EntryRec
  <2> QED  BY <2>2 DEF DataStart
<1>4. y.starting = TRUE /\ y.stop = entry[s].stop /\ entry'[s] = y
  BY <1>0, <1>2, <1>3
<1>5. /\ name' = [name EXCEPT ![s] = n] /\ data' = [data EXCEPT ![n] = s]
      /\ run' = [run EXCEPT ![s] = "starting"] /\ starter' = [starter EXCEPT ![s] = "start"]
  BY DEF DataStart
<1>6. \A m \in Names : data[m] # s
  BY <1>0 DEF StoreInv, StoreStart
<1>7. StoreTyped'
  <2>1. /\ name' \in [Stores -> Names \cup {"none"}] /\ data' \in [Names -> Stores \cup {NoStore}]
        /\ run' \in [Stores -> {"none", "starting", "half", "up", "down"}]
        /\ starter' \in [Stores -> {"idle", "start", "quiet", "clean", "cleaned", "over"}]
    BY <1>5, StoreTypes
  <2>2. entry' \in [Stores -> EntryRec]
    BY <1>0, <1>3
  <2>3. ASSUME NEW m \in Names, data'[m] # NoStore
        PROVE  name'[data'[m]] = m
    BY <1>5, <1>6, <2>3, StoreTypes DEF RsInv, RsTyped, StoreTyped
  <2> QED  BY <1>1, <2>1, <2>2, <2>3 DEF RsInv, RsTyped, StoreTyped
<1>8. StoreInv(s)'
  <2>0. /\ name'[s] = n /\ data'[n] = s /\ run'[s] = "starting" /\ starter'[s] = "start"
        /\ Begins' /\ held'
    BY <1>0, <1>1, <1>5, StoreTypes DEF Begins
  <2>1. StoreStart(s)' /\ StoreStop(s)'
    BY <1>0, <1>4, <2>0 DEF StoreInv, StoreStart, StoreStop
  <2>2. StoreMounted(s)' /\ StoreTaken(s)'
    BY <1>0, <1>1, <2>0 DEF StoreInv, StoreStart, StoreMounted, StoreTaken, Begins, StopsAll
  <2> QED  BY <2>1, <2>2 DEF StoreInv
<1>9. \A t \in Stores : t # s => SameStore(t)
  BY <1>0, <1>1, <1>3, <1>5, StoreTypes DEF SameStore
<1>10. ~Closes
  BY <1>0 DEF Begins, Closes
<1> QED  BY <1>1, <1>7, <1>8, <1>9, <1>10, OneStoreKeeps

\* The cleanup after a failed start is over.
LEMMA StartCleanedKeeps ==
  ASSUME RsInv, NEW s \in Stores, StartCleaned(s)
  PROVE  RsInv'
<1>0. /\ NoStore \notin Stores /\ starter[s] = "cleaned" /\ StoreInv(s) /\ name[s] \in Names
      /\ s \notin mounted
  BY RsNames, StoreTypes DEF StartCleaned, StoreInv, StoreStart, StoreMounted
<1>1. /\ UNCHANGED rsInit /\ UNCHANGED rsRoute /\ UNCHANGED rsClose
      /\ UNCHANGED <<name, mounted, run, entry, stopper>>
      /\ UNCHANGED <<ini, execs, rh, held, tele>>
      /\ UNCHANGED <<closing, td, late, taken, awaited, gaveup>>
  BY DEF StartCleaned, rsInit, rsClose
<1>2. /\ left' = IF data[name[s]] = s /\ Begins THEN left \cup {s} ELSE left
      /\ data' = IF data[name[s]] = s THEN [data EXCEPT ![name[s]] = NoStore] ELSE data
      /\ starter' = [starter EXCEPT ![s] = "over"]
  BY DEF StartCleaned, Leave, Begins
<1>3. \A m \in Names : data[m] = s => m = name[s]
  BY <1>0 DEF RsInv, RsTyped, StoreTyped
<1>4. StoreTyped'
  <2>1. /\ data' \in [Names -> Stores \cup {NoStore}] /\ left' \subseteq Stores
        /\ starter' \in [Stores -> {"idle", "start", "quiet", "clean", "cleaned", "over"}]
    BY <1>2, StoreTypes DEF RsInv, RsTyped, StoreTyped
  <2>2. ASSUME NEW m \in Names, data'[m] # NoStore
        PROVE  name[data'[m]] = m
    BY <1>2, <2>2, StoreTypes DEF RsInv, RsTyped, StoreTyped
  <2> QED  BY <1>1, <2>1, <2>2 DEF RsInv, RsTyped, StoreTyped
<1>5. StoreInv(s)'
  <2>0. starter'[s] = "over" /\ (Begins' <=> Begins) /\ (StopsAll' <=> StopsAll) /\ (Begins => held)
    BY <1>0, <1>1, <1>2, StoreTypes DEF Begins, StopsAll, StoreInv, StoreStart
  <2>1. StoreStart(s)' /\ StoreStop(s)'
    BY <1>0, <1>1, <2>0 DEF StoreInv, StoreStart, StoreStop
  <2>2. StoreMounted(s)'
    BY <1>0, <1>1, <2>0 DEF StoreMounted
  <2>3. StoreTaken(s)'
    BY <1>0, <1>1, <1>2, <2>0 DEF StoreInv, StoreTaken, Runs
  <2> QED  BY <2>1, <2>2, <2>3 DEF StoreInv
<1>6. \A t \in Stores : t # s => SameStore(t)
  <2>1. \A t \in Stores : t # s => \A m \in Names : data'[m] = t <=> data[m] = t
    BY <1>0, <1>2, StoreTypes
  <2>2. \A t \in Stores : t # s => (t \in left' <=> t \in left) /\ starter'[t] = starter[t]
    BY <1>2, StoreTypes
  <2> QED  BY <1>1, <2>1, <2>2 DEF SameStore
<1> QED  BY <1>1, <1>2, <1>4, <1>5, <1>6, OneStoreKeeps

\* _stop: the entry of a store that is to stop.
LEMMA StopsStores ==
  ASSUME RsInv, NEW S, Stop(S)
  PROVE  /\ entry' \in [Stores -> EntryRec]
         /\ \A t \in Stores : t \notin S => entry'[t] = entry[t]
         /\ \A t \in Stores : t \in S =>
              /\ entry'[t].starting = entry[t].starting /\ entry'[t].doomed = TRUE
              /\ entry'[t].stop = IF entry[t].stop # "none" THEN entry[t].stop
                                  ELSE IF entry[t].starting THEN "waiting" ELSE "running"
<1>1. \A t \in Stores : t \notin S => entry'[t] = entry[t]
  BY DEF Stop
<1>2. ASSUME NEW t \in Stores, t \in S
      PROVE  /\ entry'[t].starting = entry[t].starting /\ entry'[t].doomed = TRUE
             /\ entry'[t].stop = IF entry[t].stop # "none" THEN entry[t].stop
                                 ELSE IF entry[t].starting THEN "waiting" ELSE "running"
             /\ entry'[t] \in EntryRec
  <2>0. entry[t] \in EntryRec
    BY DEF RsInv, RsTyped, StoreTyped
  <2>1. PICK z \in {"none", "waiting", "running", "done"} :
          z = IF entry[t].stop # "none" THEN entry[t].stop
              ELSE IF entry[t].starting THEN "waiting" ELSE "running"
    BY StoreTypes
  <2>2. entry'[t] = [entry[t] EXCEPT !.doomed = TRUE, !.stop = z]
    BY <1>2, <2>0, <2>1 DEF Stop, EntryRec
  <2> QED  BY <2>0, <2>1, <2>2 DEF EntryRec
<1>3. entry' \in [Stores -> EntryRec]
  <2>1. entry' = [t \in Stores |-> entry'[t]]
    BY DEF Stop
  <2>2. \A t \in Stores : entry'[t] \in EntryRec
    <3>1. entry \in [Stores -> EntryRec]
      BY DEF RsInv, RsTyped, StoreTyped
    <3> QED  BY <1>1, <1>2, <3>1
  <2> QED  BY <2>1, <2>2
<1> QED  BY <1>1, <1>2, <1>3

\* data_shutdown asks for a stop and waits.
LEMMA DataShutdownKeeps ==
  ASSUME RsInv, NEW n \in Names, DataShutdown(n)
  PROVE  RsInv'
<1>0. PICK s \in Stores : s = data[n]
  BY StoreTypes DEF DataShutdown, RsInv, RsTyped, StoreTyped
<1>1. /\ UNCHANGED rsInit /\ UNCHANGED rsRoute /\ UNCHANGED rsClose
      /\ UNCHANGED <<name, data, left, run, starter>>
      /\ UNCHANGED <<ini, execs, rh, held, tele>>
      /\ UNCHANGED <<closing, td, late, taken, awaited, gaveup>>
  BY DEF DataShutdown, rsInit, rsClose
<1>2. /\ entry \in [Stores -> EntryRec] /\ entry[s] \in EntryRec /\ StoreInv(s) /\ starter[s] # "idle"
      /\ Begins /\ held
  BY <1>0, StoreTypes DEF RsInv, RsTyped, StoreTyped, StoreInv, StoreStart, DataShutdown,
       OpenIsHeld, Ready
<1>3. Stop({s})
  BY <1>0 DEF DataShutdown
<1>4. /\ entry' \in [Stores -> EntryRec]
      /\ \A t \in Stores : t # s => entry'[t] = entry[t]
  <2>1. \A t \in Stores : t # s => t \notin {s}
    OBVIOUS
  <2> QED  BY <1>3, <2>1, StopsStores
<1>5. /\ mounted' = mounted \ {s}
      /\ stopper' = IF entry[s].stop = "done" THEN stopper ELSE stopper \cup {s}
  BY <1>0 DEF DataShutdown
<1>6. /\ entry'[s].starting = entry[s].starting /\ entry'[s].doomed = TRUE
      /\ entry'[s].stop = IF entry[s].stop # "none" THEN entry[s].stop
                          ELSE IF entry[s].starting THEN "waiting" ELSE "running"
  BY <1>3, StopsStores
<1>7. StoreTyped'
  <2>1. entry' \in [Stores -> EntryRec]
    BY <1>4
  <2>2. mounted' \subseteq Stores /\ stopper' \subseteq Stores
    BY <1>5 DEF RsInv, RsTyped, StoreTyped
  <2> QED  BY <1>1, <2>1, <2>2 DEF RsInv, RsTyped, StoreTyped
<1>8. StoreInv(s)'
  <2>0. (Begins' <=> Begins) /\ (StopsAll' <=> StopsAll)
    BY <1>1 DEF Begins, StopsAll
  <2>1. StoreStart(s)'
    BY <1>1, <1>2, <1>6, <2>0 DEF StoreInv, StoreStart
  <2>2. StoreStop(s)'
    BY <1>1, <1>2, <1>5, <1>6, StoreTypes DEF StoreInv, StoreStart, StoreStop
  <2>3. StoreMounted(s)'
    BY <1>1, <1>2, <1>5 DEF StoreInv, StoreMounted
  <2>4. StoreTaken(s)'
    BY <1>1, <1>2, <2>0 DEF StoreInv, StoreTaken, Runs, Begins, StopsAll
  <2> QED  BY <2>1, <2>2, <2>3, <2>4 DEF StoreInv
<1>9. \A t \in Stores : t # s => SameStore(t)
  BY <1>1, <1>4, <1>5 DEF SameStore
<1>10. Closes => mounted' \subseteq mounted /\ left \subseteq left' /\ UNCHANGED name
  BY <1>1, <1>5
<1> QED  BY <1>1, <1>7, <1>8, <1>9, <1>10, OneStoreKeeps

\* data_start goes on: the store is registered, or it is stopped again.
LEMMA StartReturnsKeeps ==
  ASSUME RsInv, NEW s \in Stores, NEW ok \in BOOLEAN, StartReturns(s, ok)
  PROVE  RsInv'
<1>0. /\ starter[s] = "start" /\ StoreInv(s) /\ entry[s].starting /\ name[s] \in Names
      /\ entry \in [Stores -> EntryRec] /\ entry[s] \in EntryRec
      /\ s \notin mounted /\ s \notin left /\ entry[s].stop \in {"none", "waiting"}
      /\ run[s] = "starting" /\ (entry[s].stop = "waiting" => entry[s].doomed)
  BY StoreTypes DEF RsInv, RsTyped, StoreTyped, StartReturns, StoreInv, StoreStart, StoreStop,
       StoreMounted
<1>1. /\ UNCHANGED rsInit /\ UNCHANGED rsRoute /\ UNCHANGED rsClose
      /\ UNCHANGED <<name, data, left, stopper>>
      /\ UNCHANGED <<ini, execs, rh, held, tele>>
      /\ UNCHANGED <<closing, td, late, taken, awaited, gaveup>>
  BY DEF StartReturns, rsInit, rsClose
<1>2. /\ run' = [run EXCEPT ![s] = IF ok THEN "up" ELSE "half"]
      /\ run' \in [Stores -> {"none", "starting", "half", "up", "down"}]
      /\ run'[s] \in {"up", "half"}
  BY StoreTypes DEF StartReturns
<1>3. \/ /\ ~Unwanted(s)
         /\ entry' = [entry EXCEPT ![s] = Started(s)]
         /\ mounted' = mounted \cup {s}
         /\ starter' = [starter EXCEPT ![s] = "over"]
      \/ /\ StartedAndStop(s)
         /\ starter' = [starter EXCEPT ![s] = "quiet"] \/ starter' = [starter EXCEPT ![s] = "clean"]
  BY DEF StartReturns, StartOk
<1>4. (Begins' <=> Begins) /\ (StopsAll' <=> StopsAll) /\ (Begins => held)
  BY <1>0, <1>1 DEF Begins, StopsAll, StoreInv, StoreStart
<1>5. CASE /\ ~Unwanted(s)
           /\ entry' = [entry EXCEPT ![s] = Started(s)]
           /\ mounted' = mounted \cup {s}
           /\ starter' = [starter EXCEPT ![s] = "over"]
  <2>1. td = "no" /\ ~entry[s].doomed /\ data[name[s]] = s
    BY <1>5 DEF Unwanted, RsInv, OpenIsHeld
  <2>2. PICK y \in EntryRec : y = [starting |-> FALSE, doomed |-> entry[s].doomed, stop |-> "none"]
    BY StoreTypes DEF EntryRec
  <2>4. y = Started(s)
    <3>1. entry[s].stop = "none"
      BY <1>0, <2>1
    <3> QED  BY <1>0, <2>2, <3>1 DEF Started, EntryRec
  <2>5. entry' = [entry EXCEPT ![s] = y] /\ entry'[s] = y /\ y.starting = FALSE /\ y.stop = "none"
    <3>1. entry' = [entry EXCEPT ![s] = y]
      BY <1>5, <2>4, Zenon
    <3> QED  BY <1>0, <2>2, <3>1
  <2>6. StoreTyped'
    <3>1. entry' \in [Stores -> EntryRec] /\ mounted' \subseteq Stores
          /\ starter' \in [Stores -> {"idle", "start", "quiet", "clean", "cleaned", "over"}]
      BY <1>0, <1>5, <2>5, StoreTypes DEF RsInv, RsTyped, StoreTyped
    <3> QED  BY <1>1, <1>2, <3>1 DEF RsInv, RsTyped, StoreTyped
  <2>7. StoreInv(s)'
    <3>0. starter'[s] = "over" /\ s \in mounted' /\ Begins /\ ~StopsAll
      BY <1>5, <2>1, StoreTypes DEF Begins, StopsAll
    <3>1. StoreStart(s)' /\ StoreStop(s)'
      BY <1>0, <1>1, <1>2, <1>4, <2>5, <3>0 DEF StoreStart, StoreStop
    <3>2. StoreMounted(s)' /\ StoreTaken(s)'
      BY <1>0, <1>1, <1>4, <2>1, <2>5, <3>0 DEF StoreMounted, StoreTaken
    <3> QED  BY <3>1, <3>2 DEF StoreInv
  <2>8. \A t \in Stores : t # s => SameStore(t)
    BY <1>1, <1>2, <1>5, <2>5, StoreTypes DEF SameStore
  <2>9. ~Closes
    BY <2>1 DEF Closes
  <2> QED  BY <1>1, <2>6, <2>7, <2>8, <2>9, OneStoreKeeps
<1>6. CASE /\ StartedAndStop(s)
           /\ starter' = [starter EXCEPT ![s] = "quiet"] \/ starter' = [starter EXCEPT ![s] = "clean"]
  <2>2. PICK y \in EntryRec : y = [starting |-> FALSE, doomed |-> TRUE, stop |-> "running"]
    BY DEF EntryRec
  <2>5. entry' = [entry EXCEPT ![s] = y] /\ entry'[s] = y /\ y.starting = FALSE /\ y.stop = "running"
    <3>1. y = [starting |-> FALSE, doomed |-> TRUE,
               stop |-> IF entry[s].stop = "done" THEN "done" ELSE "running"]
      BY <1>0, <2>2
    <3>2. entry' = [entry EXCEPT ![s] = y]
      BY <1>6, <3>1 DEF StartedAndStop
    <3> QED  BY <1>0, <2>2, <3>2
  <2>6. /\ mounted' = mounted
        /\ starter'[s] \in {"quiet", "clean"}
        /\ starter' \in [Stores -> {"idle", "start", "quiet", "clean", "cleaned", "over"}]
        /\ \A t \in Stores : t # s => starter'[t] = starter[t]
    BY <1>0, <1>6, StoreTypes DEF StartedAndStop
  <2>7. StoreTyped'
    <3>1. entry' \in [Stores -> EntryRec]
      BY <1>0, <2>5
    <3> QED  BY <1>1, <1>2, <2>6, <3>1 DEF RsInv, RsTyped, StoreTyped
  <2>8. StoreInv(s)'
    <3>1. StoreStart(s)' /\ StoreStop(s)'
      BY <1>0, <1>1, <1>2, <1>4, <2>5, <2>6 DEF StoreStart, StoreStop
    <3>2. StoreMounted(s)'
      BY <1>0, <1>1, <2>6 DEF StoreMounted
    <3>3. StoreTaken(s)'
      BY <1>0, <1>1, <1>4, <2>5 DEF StoreInv, StoreTaken, Runs
    <3> QED  BY <3>1, <3>2, <3>3 DEF StoreInv
  <2>9. \A t \in Stores : t # s => SameStore(t)
    BY <1>1, <1>2, <2>5, <2>6, StoreTypes DEF SameStore
  <2> QED  BY <1>1, <2>6, <2>7, <2>8, <2>9, OneStoreKeeps
<1> QED  BY <1>3, <1>5, <1>6

\* Steps of close() that touch no store: it begins, unwinds telemetry, ends.
LEMMA ClosePhasesKeep ==
  ASSUME RsInv, Close \/ TeardownUnwinds \/ TeardownEnds
  PROVE  RsInv'
<1>1. /\ UNCHANGED rsRoute /\ UNCHANGED rsData
      /\ UNCHANGED <<late, taken, awaited, gaveup>> /\ UNCHANGED <<ini, execs, rh, held>>
  BY DEF Close, TeardownUnwinds, TeardownEnds, rsInit
<1>2. /\ UNCHANGED <<route, gone>>
      /\ UNCHANGED <<name, data, left, mounted, run, entry, starter, stopper>>
  BY <1>1 DEF rsRoute, rsData
<1>3. SamePhase
  BY <1>1 DEF SamePhase, Begins, Closes, StopsAll, Close, TeardownUnwinds, TeardownEnds
<1>4. InitTyped' /\ OpenIsHeld'
  BY <1>1 DEF RsInv, RsTyped, InitTyped, OpenIsHeld, Begins, Closes, Close, TeardownUnwinds,
       TeardownEnds, rsInit
<1>5. CloseTyped' /\ RouteTyped' /\ StoreTyped'
  BY <1>1, <1>2 DEF RsInv, RsTyped, CloseTyped, RouteTyped, StoreTyped, Close, TeardownUnwinds,
       TeardownEnds
<1>6. RoutesHeld'
  BY <1>1, <1>2, <1>3 DEF RsInv, RoutesHeld, SamePhase
<1>7. NamesApart'
  BY <1>1, <1>2 DEF RsInv, NamesApart, Closes, Close, TeardownUnwinds, TeardownEnds
<1>8. ASSUME NEW s \in Stores
      PROVE  StoreInv(s)'
  <2>1. SameStore(s)
    BY <1>1, <1>2 DEF SameStore
  <2> QED  BY <1>3, <2>1, StoreTypes, OtherStoreKeeps
<1> QED  BY <1>4, <1>5, <1>6, <1>7, <1>8 DEF RsInv, RsTyped

\* The teardown takes the stores over.
LEMMA TeardownTakesKeeps ==
  ASSUME RsInv, TeardownTakes
  PROVE  RsInv'
<1>0. /\ td = "drain" /\ Begins /\ ~StopsAll /\ ~Closes /\ closing /\ awaited = {} /\ held \in BOOLEAN
      /\ NoStore \notin Stores
  BY RsNames DEF TeardownTakes, RsInv, RsTyped, InitTyped, OpenIsHeld, NamesApart, Begins,
       StopsAll, Closes
<1>1. /\ UNCHANGED <<ini, execs, rh, tele, closing, gaveup, route, gone, name, run, starter, stopper>>
      /\ held' = FALSE /\ late' = InFlight /\ data' = [n \in Names |-> NoStore]
      /\ taken' = {s \in Stores : \E n \in Names : data[n] = s} \cup left
  BY DEF TeardownTakes, rsRoute
<1>2. late' \in BOOLEAN
  BY <1>1 DEF InFlight
<1>3. \A s \in Stores, n \in Names : data'[n] # s
  BY <1>0, <1>1
<1>4. CASE held
  <2>1. td' = "unwind" /\ UNCHANGED <<left, entry, mounted, awaited>>
    BY <1>4 DEF TeardownTakes
  <2>2. ~Begins' /\ Closes' /\ ~StopsAll'
    BY <2>1 DEF Begins, Closes, StopsAll
  <2>3. InitTyped' /\ CloseTyped' /\ RouteTyped'
    BY <1>1, <1>2, <2>1 DEF RsInv, RsTyped, InitTyped, CloseTyped, RouteTyped, StoreTyped
  <2>4. StoreTyped'
    BY <1>1, <2>1 DEF RsInv, RsTyped, StoreTyped
  <2>5. OpenIsHeld'
    BY <1>0, <1>1, <1>4, <2>1, <2>2 DEF RsInv, OpenIsHeld
  <2>6. RoutesHeld'
    BY <1>0, <1>1, <2>2 DEF RsInv, RoutesHeld, InFlight
  <2>7. NamesApart'
    <3>1. ASSUME NEW s \in taken' \ left', NEW t \in mounted', name'[s] = name'[t]
          PROVE  s = t
      <4>1. PICK n \in Names : data[n] = s /\ s \in Stores
        BY <1>1, <2>1, <3>1
      <4>2. name[s] = n
        BY <1>0, <4>1 DEF RsInv, RsTyped, StoreTyped
      <4>3. t \in Stores /\ data[name[t]] = t
        BY <1>0, <2>1 DEF RsInv, RsTyped, StoreTyped, StoreInv, StoreMounted
      <4> QED  BY <1>1, <3>1, <4>1, <4>2, <4>3
    <3> QED  BY <1>0, <2>1, <3>1 DEF NamesApart
  <2>8. ASSUME NEW s \in Stores
        PROVE  StoreInv(s)'
    <3>1. StoreInv(s)
      BY StoreTypes
    <3>2. StoreStart(s)'
      BY <1>0, <1>1, <1>3, <2>1, <2>2, <3>1 DEF StoreInv, StoreStart
    <3>3. StoreStop(s)'
      BY <1>1, <2>1, <3>1 DEF StoreInv, StoreStop
    <3>4. StoreMounted(s)'
      BY <1>0, <1>1, <2>1, <2>2, <3>1 DEF StoreInv, StoreMounted
    <3>5. Runs(s)' => s \in taken'
      BY <1>0, <1>1, <3>1 DEF StoreInv, StoreStart, StoreTaken, Runs
    <3> QED  BY <2>2, <3>2, <3>3, <3>4, <3>5 DEF StoreInv, StoreTaken
  <2> QED  BY <2>3, <2>4, <2>5, <2>6, <2>7, <2>8 DEF RsInv, RsTyped
<1>5. CASE ~held
  <2>1. td' = "stores" /\ left' = {} /\ StopRest({})
    BY <1>5 DEF TeardownTakes
  <2>2. ~Begins' /\ ~Closes' /\ StopsAll'
    BY <2>1 DEF Begins, Closes, StopsAll
  <2>3. \A s \in Stores : starter[s] = "idle" /\ StoreStart(s)
    BY <1>0, <1>5 DEF RsInv, StoreInv, StoreStart
  <2>4. taken' = {} /\ mounted = {}
    BY <1>1, <2>3 DEF RsInv, RsTyped, StoreTyped, StoreStart
  <2>5. mounted' = mounted /\ awaited' = {} /\ UNCHANGED entry
    <3>1. mounted' = mounted /\ awaited' = {} /\ Stop({})
      BY <2>1, <2>4 DEF StopRest
    <3>2. entry' = [s \in Stores |-> entry[s]]
      BY <3>1 DEF Stop
    <3> QED  BY <3>1, <3>2 DEF RsInv, RsTyped, StoreTyped
  <2>6. InitTyped' /\ CloseTyped' /\ RouteTyped'
    BY <1>1, <1>2, <2>1, <2>4, <2>5 DEF RsInv, RsTyped, InitTyped, CloseTyped, RouteTyped
  <2>7. StoreTyped'
    BY <1>1, <2>1, <2>5 DEF RsInv, RsTyped, StoreTyped
  <2>8. OpenIsHeld'
    BY <1>0, <1>1, <1>5, <2>1, <2>2 DEF RsInv, OpenIsHeld
  <2>9. RoutesHeld'
    BY <1>0, <1>1, <2>2 DEF RsInv, RoutesHeld, InFlight
  <2>10. NamesApart'
    BY <2>1, <2>2 DEF NamesApart
  <2>11. ASSUME NEW s \in Stores
         PROVE  StoreInv(s)'
    <3>1. StoreInv(s) /\ starter[s] = "idle" /\ StoreStart(s)
      BY <2>3, StoreTypes
    <3>2. StoreStart(s)'
      BY <1>1, <1>3, <2>1, <2>2, <2>4, <2>5, <3>1 DEF StoreStart
    <3>3. StoreStop(s)' /\ StoreMounted(s)' /\ StoreTaken(s)'
      BY <1>1, <2>1, <2>4, <2>5, <3>1 DEF StoreStart, StoreStop, StoreMounted, StoreTaken, Runs
    <3> QED  BY <3>2, <3>3 DEF StoreInv
  <2> QED  BY <2>6, <2>7, <2>8, <2>9, <2>10, <2>11 DEF RsInv, RsTyped
<1> QED  BY <1>4, <1>5

\* Rhapsody has closed; the teardown stops what it has not stopped.
LEMMA RhClosesKeeps ==
  ASSUME RsInv, NEW ok \in BOOLEAN, RhCloses(ok)
  PROVE  RsInv'
<1>0. /\ td = "rhclose" /\ ~Begins /\ ~StopsAll /\ Closes /\ awaited = {} /\ ~held
      /\ ini \notin {"backends", "session"} /\ tele # "on"
  BY DEF RhCloses, RsInv, OpenIsHeld, NamesApart, Begins, StopsAll, Closes
<1>1. /\ UNCHANGED <<ini, tele, closing, late, gaveup, route, gone, name, data, starter, stopper>>
      /\ UNCHANGED <<taken, held>> /\ left' = {} /\ td' = "stores"
      /\ rh' = (IF ok THEN "closed" ELSE "broken")
      /\ execs' \in {"up", "down"} /\ (ok => execs' = "down")
  BY DEF RhCloses, rsRoute
<1>2. PICK S \in SUBSET mounted :
        /\ run' = [s \in Stores |-> IF s \in S THEN "down" ELSE run[s]]
        /\ ok => S = mounted
  BY DEF RhCloses
<1>3. PICK M \in SUBSET taken :
        /\ Stop(M) /\ mounted' = mounted
        /\ awaited' = {s \in M : ~entry[s].starting /\ entry[s].stop # "done"}
        /\ \A s \in taken : ~ok \/ s \in left => s \in M
        /\ \A s \in taken : ok => (s \in M <=> s \in left \/ name[s] \notin {name[t] : t \in mounted})
  <2>1. StopRest(IF ok THEN mounted ELSE {})
    BY DEF RhCloses
  <2>2. DEFINE N == {s \in taken : \/ name[s] \notin {name[t] : t \in IF ok THEN mounted ELSE {}}
                                   \/ s \in left}
  <2>3. /\ Stop(N) /\ mounted' = mounted
        /\ awaited' = {s \in N : ~entry[s].starting /\ entry[s].stop # "done"}
    BY <1>1, <2>1 DEF StopRest
  <2>4. /\ N \in SUBSET taken
        /\ \A s \in taken : ~ok \/ s \in left => s \in N
        /\ \A s \in taken : ok => (s \in N <=> s \in left \/ name[s] \notin {name[t] : t \in mounted})
    OBVIOUS
  <2> QED  BY <2>3, <2>4
<1>4. ~Begins' /\ ~Closes' /\ StopsAll'
  BY <1>1 DEF Begins, Closes, StopsAll
<1>5. entry' \in [Stores -> EntryRec] /\ \A s \in Stores : s \notin M => entry'[s] = entry[s]
  BY <1>3, StopsStores
<1>6. InitTyped' /\ RouteTyped'
  BY <1>1 DEF RsInv, RsTyped, InitTyped, RouteTyped
<1>7. CloseTyped'
  BY <1>1, <1>3 DEF RsInv, RsTyped, CloseTyped
<1>8. StoreTyped'
  <2>1. run' \in [Stores -> {"none", "starting", "half", "up", "down"}]
    BY <1>2, <1>3 DEF RsInv, RsTyped, StoreTyped
  <2> QED  BY <1>1, <1>3, <1>5, <2>1 DEF RsInv, RsTyped, StoreTyped
<1>9. OpenIsHeld' /\ RoutesHeld' /\ NamesApart'
  BY <1>0, <1>1, <1>4 DEF RsInv, OpenIsHeld, RoutesHeld, NamesApart
<1>10. ASSUME NEW s \in Stores
       PROVE  StoreInv(s)'
  <2>0. /\ StoreStart(s) /\ StoreStop(s) /\ StoreMounted(s) /\ StoreTaken(s)
        /\ run'[s] = (IF s \in S THEN "down" ELSE run[s]) /\ (s \in S => s \in mounted)
    BY <1>2, StoreTypes DEF StoreInv
  <2>1. /\ entry'[s].starting = entry[s].starting
        /\ s \notin M => entry'[s].stop = entry[s].stop /\ entry'[s].doomed = entry[s].doomed
        /\ s \in M => /\ entry'[s].doomed = TRUE
                      /\ entry'[s].stop = IF entry[s].stop # "none" THEN entry[s].stop
                                          ELSE IF entry[s].starting THEN "waiting" ELSE "running"
    BY <1>3, StopsStores
  <2>2. s \in awaited' <=> s \in M /\ ~entry[s].starting /\ entry[s].stop # "done"
    BY <1>3
  <2>3. StoreStart(s)'
    <3>1. starter[s] = "idle" => s \notin M
      BY <1>3, <2>0 DEF StoreStart
    <3>2. s \in S => starter[s] = "over"
      BY <2>0 DEF StoreMounted
    <3> QED  BY <1>1, <1>3, <1>4, <2>0, <2>1, <2>2, <3>1, <3>2 DEF StoreStart
  <2>4. StoreStop(s)'
    BY <1>0, <1>1, <2>0, <2>1, <2>2, StoreTypes DEF StoreStop
  <2>5. s \in mounted /\ ok => s \notin M
    BY <1>3, <2>0 DEF StoreMounted
  <2>6. StoreMounted(s)'
    BY <1>0, <1>1, <1>3, <1>4, <2>0, <2>1, <2>5 DEF StoreMounted
  <2>7. StoreTaken(s)'
    <3>1. ASSUME Runs(s)'
          PROVE  s \in taken /\ entry'[s].stop \in {"waiting", "running"}
      <4>1. s \notin S /\ Runs(s) /\ s \in taken /\ run[s] # "down"
        BY <1>0, <2>0, <3>1 DEF StoreTaken, Runs
      <4>2. s \in M
        <5>1. CASE ok /\ s \notin left /\ s \notin M
          <6>1. PICK t \in mounted : name[s] = name[t]
            BY <1>3, <4>1, <5>1
          <6>2. s = t
            BY <1>0, <4>1, <5>1, <6>1 DEF RsInv, NamesApart
          <6> QED  BY <1>2, <4>1, <5>1, <6>2
        <5> QED  BY <1>3, <4>1, <5>1
      <4> QED  BY <2>0, <2>1, <4>1, <4>2, StoreTypes DEF StoreStop
    <3> QED  BY <1>1, <1>4, <3>1 DEF StoreTaken
  <2> QED  BY <2>3, <2>4, <2>6, <2>7 DEF StoreInv
<1> QED  BY <1>6, <1>7, <1>8, <1>9, <1>10 DEF RsInv, RsTyped

\* Every step of the session keeps the invariant.
LEMMA RsNextKeeps == RsInv /\ [RsNext]_rsVars => RsInv'
<1> SUFFICES ASSUME RsInv, [RsNext]_rsVars
             PROVE  RsInv'
  OBVIOUS
<1>1. CASE InitBackends \/ InitSession \/ InitTelemetry
  BY <1>1, InitKeeps
<1>2. CASE \E r \in Routes : RouteStart(r) \/ RouteResumes(r) \/ RouteEnds(r)
  BY <1>2, RoutesKeep
<1>3. CASE \E s \in Stores, n \in Names : DataStart(s, n)
  BY <1>3, DataStartKeeps
<1>4. CASE \E s \in Stores, ok \in BOOLEAN : StartReturns(s, ok)
  BY <1>4, StartReturnsKeeps
<1>5. CASE \E s \in Stores, ok \in BOOLEAN : ShutdownEnds(s, ok)
  BY <1>5, ShutdownEndsKeeps
<1>6. CASE \E s \in Stores : StartCleaned(s)
  BY <1>6, StartCleanedKeeps
<1>7. CASE \E n \in Names : DataShutdown(n)
  BY <1>7, DataShutdownKeeps
<1>8. CASE Close \/ TeardownUnwinds \/ TeardownEnds
  BY <1>8, ClosePhasesKeep
<1>9. CASE TeardownTakes
  BY <1>9, TeardownTakesKeeps
<1>10. CASE \E ok \in BOOLEAN : RhCloses(ok)
  BY <1>10, RhClosesKeeps
<1>11. CASE UNCHANGED rsVars
  <2>1. UNCHANGED rsInit /\ UNCHANGED rsRoute /\ UNCHANGED rsClose /\ UNCHANGED rsData
    BY <1>11 DEF rsVars
  <2>2. /\ UNCHANGED <<closing, td, late, taken, awaited, gaveup>>
        /\ UNCHANGED <<name, data, left, mounted, run, entry, starter, stopper>>
        /\ UNCHANGED <<ini, execs, rh, held, tele>>
    BY <2>1 DEF rsClose, rsData, rsInit
  <2>3. StoreTyped' /\ SamePhase
    BY <2>2 DEF RsInv, RsTyped, StoreTyped, SamePhase, Begins, Closes, StopsAll
  <2>4. ASSUME NEW s \in Stores
        PROVE  StoreInv(s)'
    <3>1. SameStore(s)
      BY <2>2 DEF SameStore
    <3> QED  BY <2>3, <3>1, StoreTypes, OtherStoreKeeps
  <2>5. awaited' \subseteq awaited /\ gaveup' \subseteq Stores
    BY <2>2 DEF RsInv, RsTyped, CloseTyped
  <2> QED  BY <2>1, <2>2, <2>3, <2>4, <2>5, StoreStepKeeps
<1> QED  BY <1>1, <1>2, <1>3, <1>4, <1>5, <1>6, <1>7, <1>8, <1>9, <1>10, <1>11 DEF RsNext

\* What the invariant says once the session is over.
LEMMA RsInvSays ==
  RsInv => RsTypeOK /\ NothingLeftRunning /\ ShutdownAlone /\ StoresAreKnown /\ DrainProtects
<1> SUFFICES ASSUME RsInv
             PROVE  RsTypeOK /\ NothingLeftRunning /\ ShutdownAlone /\ StoresAreKnown /\ DrainProtects
  OBVIOUS
<1>1. RsTypeOK
  BY DEF RsInv, RsTyped, InitTyped, CloseTyped, RouteTyped, StoreTyped, RsTypeOK
<1>2. NothingLeftRunning
  <2> SUFFICES ASSUME Settled
               PROVE  /\ \A s \in Stores : run[s] \in {"none", "down"} \/ s \in gaveup
                      /\ tele = "off" /\ rh # "open"
                      /\ execs = "up" => rh = "broken"
    BY DEF NothingLeftRunning
  <2>1. ~Begins /\ ~Closes /\ StopsAll /\ ~held /\ awaited = {} /\ stopper = {}
    BY DEF Settled, InFlight, RsInv, OpenIsHeld, NamesApart, Begins, Closes, StopsAll
  <2>2. ASSUME NEW s \in Stores
        PROVE  run[s] \in {"none", "down"} \/ s \in gaveup
    <3>1. starter[s] \in {"idle", "over"} /\ StoreInv(s) /\ stopper = {}
          /\ run[s] \in {"none", "starting", "half", "up", "down"}
      BY StoreTypes DEF Settled, InFlight
    <3>2. entry[s].stop \notin {"waiting", "running"}
      BY <2>1, <3>1 DEF StoreInv, StoreStart, StoreStop
    <3> QED  BY <2>1, <3>1, <3>2 DEF StoreInv, StoreTaken, Runs
  <2>3. tele = "off" /\ rh # "open" /\ (execs = "up" => rh = "broken")
    BY <2>1 DEF Settled, RsInv, RsTyped, InitTyped, OpenIsHeld
  <2> QED  BY <2>2, <2>3
<1>3. ShutdownAlone
  BY DEF RsInv, StoreInv, StoreStart, StoreStop, StoreMounted, ShutdownAlone
<1>4. StoresAreKnown
  BY DEF RsInv, StoreInv, StoreTaken, StoresAreKnown, Begins, Runs
<1>5. DrainProtects
  BY DEF RsInv, RoutesHeld, DrainProtects
<1> QED  BY <1>1, <1>2, <1>3, <1>4, <1>5

\* A session that is closed leaves nothing running: for any number of stores,
\* names and requests, whatever the close overtakes.
THEOREM RhapsodyCloses ==
  RsSpec => [](RsTypeOK /\ NothingLeftRunning /\ ShutdownAlone /\ StoresAreKnown /\ DrainProtects)
<1>1. RsInit => RsInv
  <2> SUFFICES ASSUME RsInit
               PROVE  RsInv
    OBVIOUS
  <2>0. NoStore \notin Stores
    BY RsNames
  <2>1. InitTyped /\ CloseTyped /\ RouteTyped
    BY DEF RsInit, InitTyped, CloseTyped, RouteTyped
  <2>2. StoreTyped
    <3>1. entry \in [Stores -> EntryRec]
      <4>1. [starting |-> FALSE, doomed |-> FALSE, stop |-> "none"] \in EntryRec
        BY DEF EntryRec
      <4> QED  BY <4>1 DEF RsInit
    <3> QED  BY <3>1 DEF RsInit, StoreTyped
  <2>3. OpenIsHeld /\ RoutesHeld /\ NamesApart
    BY DEF RsInit, OpenIsHeld, RoutesHeld, NamesApart, Begins, Closes
  <2>4. ASSUME NEW s \in Stores
        PROVE  StoreInv(s)
    <3>1. StoreStart(s)
      BY <2>0 DEF RsInit, StoreStart
    <3>2. StoreStop(s) /\ StoreMounted(s) /\ StoreTaken(s)
      BY DEF RsInit, StoreStop, StoreMounted, StoreTaken, Runs
    <3> QED  BY <3>1, <3>2 DEF StoreInv
  <2> QED  BY <2>1, <2>2, <2>3, <2>4 DEF RsInv, RsTyped
<1> QED  BY <1>1, RsNextKeeps, RsInvSays, PTL DEF RsSpec

-----------------------------------------------------------------------------
(***************************************************************************)
(* Status polls of Globus, SF-API and IRI tasks and of jobs (StatusPolls). *)
(***************************************************************************)

MetaRec == [in: BOOLEAN, st: SpStates, told: SpStates, ends: 0..1, got: BOOLEAN]

\* The types, swept as a record.
SpTyped ==
  /\ api \in {"globus", "jobs"}
  /\ world \in [PTasks -> SpStates \cup {"none"}]
  /\ meta \in [PTasks -> MetaRec]
  /\ swept \in [at: {"off", "sleep", "sweep"}, todo: SUBSET PTasks]
  /\ fetch \in CallRec /\ asked \in CallRec /\ pollWaits \subseteq PTasks
  /\ pollClosing \in {"open", "closing", "closed"}

\* What is recorded of a task m: an end that was told is the end that is kept.
MetaSound(m) ==
  /\ m.told = "end" => m.st = "end"
  /\ m.told = "end" <=> m.ends = 1
  /\ api = "jobs" => m.st = m.told

\* A task that is recorded, or soon will be, is known to the service.
IsKnown(t) == t \in pollWaits \/ meta[t].in \/ t \in swept.todo => world[t] # "none"

\* A job is looked at once in a sweep, and no more when its end is kept.
LookedAtOnce ==
  /\ swept.at = "off" => swept.todo = {}
  /\ fetch # NoCall => swept.at = "sweep"
  /\ api = "jobs" => /\ \A t \in swept.todo : meta[t].st # "end" /\ (fetch = NoCall \/ fetch.task # t)
                     /\ fetch = NoCall \/ meta[fetch.task].st # "end"

SpInv ==
  /\ SpTyped /\ LookedAtOnce /\ UntoldIsSwept
  /\ \A t \in PTasks : MetaSound(meta[t]) /\ IsKnown(t)

\* A call under way is about a task, and saw a state of it.
LEMMA CallTypes ==
  ASSUME SpInv
  PROVE  /\ fetch # NoCall => fetch.task \in PTasks /\ fetch.saw \in SpStates
         /\ asked # NoCall => asked.task \in PTasks /\ asked.saw \in SpStates
BY DEF SpInv, SpTyped, CallRec

\* The poller wakes, or its sweep is done.
LEMMA PollerKeeps ==
  ASSUME SpInv, PollerWakes \/ SweepDone
  PROVE  SpInv'
<1>1. UNCHANGED <<api, world, meta, fetch, asked, pollWaits, pollClosing>>
  BY DEF PollerWakes, SweepDone
<1>2. CASE PollerWakes
  <2>1. DEFINE ts == {t \in PTasks : meta[t].in /\ ~Terminal(meta[t])}
  <2>2. \/ swept' = Off /\ (~Active \/ ts = {})
        \/ swept' = [at |-> "sweep", todo |-> ts]
    BY <1>2 DEF PollerWakes
  <2>3. swept' \in [at: {"off", "sleep", "sweep"}, todo: SUBSET PTasks]
    BY <2>2 DEF Off
  <2>4. SpTyped'
    BY <1>1, <2>3 DEF SpInv, SpTyped
  <2>5. fetch = NoCall
    BY <1>2 DEF PollerWakes, SpInv, LookedAtOnce
  <2>6. LookedAtOnce'
    BY <1>1, <2>2, <2>5 DEF Off, LookedAtOnce, Terminal
  <2>7. UntoldIsSwept'
    BY <1>1, <2>2 DEF Off, SpInv, UntoldIsSwept, Terminal, MetaSound, Active, SpTyped, MetaRec
  <2>8. \A t \in PTasks : MetaSound(meta[t])' /\ IsKnown(t)'
    BY <1>1, <2>2 DEF Off, SpInv, MetaSound, IsKnown
  <2> QED  BY <2>4, <2>6, <2>7, <2>8 DEF SpInv
<1>3. CASE SweepDone
  <2>1. swept' = [at |-> "sleep", todo |-> {}]
    BY <1>3 DEF SweepDone, Off
  <2>2. SpTyped'
    BY <1>1, <2>1 DEF SpInv, SpTyped
  <2>5. fetch = NoCall
    BY <1>3 DEF SweepDone
  <2>3. LookedAtOnce' /\ UntoldIsSwept'
    BY <1>1, <2>1, <2>5 DEF SpInv, LookedAtOnce, UntoldIsSwept
  <2>4. \A t \in PTasks : MetaSound(meta[t])' /\ IsKnown(t)'
    BY <1>1, <2>1 DEF SpInv, MetaSound, IsKnown
  <2> QED  BY <2>2, <2>3, <2>4 DEF SpInv
<1> QED  BY <1>2, <1>3

\* Told(m, st): the status is kept and told, an end for the first time.
LEMMA ToldFacts ==
  ASSUME NEW m \in MetaRec, NEW st \in SpStates, MetaSound(m), m.told # "end"
  PROVE  /\ Told(m, st) \in MetaRec /\ MetaSound(Told(m, st))
         /\ Told(m, st).in = m.in /\ Told(m, st).st = st /\ Told(m, st).got = m.got
         /\ m.ends = 0
<1>1. m.ends = 0
  BY DEF MetaSound, MetaRec
<1>2. PICK n \in 0..1 : n = IF st = "end" THEN m.ends + 1 ELSE m.ends
  BY <1>1
<1>3. Told(m, st) = [in |-> m.in, st |-> st, told |-> st, ends |-> n, got |-> m.got]
  <2>1. Told(m, st) = [m EXCEPT !.st = st, !.told = st, !.ends = n]
    BY <1>2 DEF Told
  <2> QED  BY <2>1 DEF MetaRec
<1>4. Told(m, st) \in MetaRec
  BY <1>3 DEF MetaRec
<1>5. MetaSound(Told(m, st))
  BY <1>1, <1>2, <1>3 DEF MetaSound
<1> QED  BY <1>1, <1>3, <1>4, <1>5

\* Cached(m, st), for Globus: an end stays.
LEMMA CachedFacts ==
  ASSUME NEW m \in MetaRec, NEW st \in SpStates, MetaSound(m), api = "globus"
  PROVE  /\ Cached(m, st) \in MetaRec /\ MetaSound(Cached(m, st))
         /\ Cached(m, st).in = m.in /\ Cached(m, st).ends = m.ends /\ Cached(m, st).told = m.told
         /\ Cached(m, st).st = IF m.st = "end" THEN "end" ELSE st
<1>1. CASE m.st = "end"
  BY <1>1 DEF Cached
<1>2. CASE m.st # "end"
  <2>1. Cached(m, st) = [in |-> m.in, st |-> st, told |-> m.told, ends |-> m.ends, got |-> m.got]
    BY <1>2 DEF Cached, MetaRec
  <2> QED  BY <1>2, <2>1 DEF MetaRec, MetaSound
<1> QED  BY <1>1, <1>2

\* What an answer makes of a record whose end, if it is a job's, is not kept yet.
LEMMA AnsweredFacts ==
  ASSUME NEW m \in MetaRec, NEW st \in SpStates, MetaSound(m), api \in {"globus", "jobs"},
         api = "jobs" => m.st # "end"
  PROVE  /\ Answered(m, st) \in MetaRec /\ MetaSound(Answered(m, st))
         /\ Answered(m, st).in = m.in /\ (m.ends = 1 => Answered(m, st).ends = 1)
<1>1. CASE api = "globus"
  <2>1. PICK c \in MetaRec : c = Cached(m, st)
    BY <1>1, CachedFacts
  <2>2. /\ MetaSound(c) /\ c.in = m.in /\ c.ends = m.ends /\ c.told = m.told
        /\ c.st = IF m.st = "end" THEN "end" ELSE st
    BY <1>1, <2>1, CachedFacts
  <2>3. Answered(m, st) = IF c.st = st THEN IF st = m.told THEN c ELSE Told(c, st)
                          ELSE IF TerminalPending(c) THEN Told(c, "end") ELSE c
    BY <1>1, <2>1 DEF Answered
  <2>4. CASE c.told # "end"
    <3>1. /\ Told(c, st) \in MetaRec /\ MetaSound(Told(c, st)) /\ Told(c, st).in = m.in
          /\ Told(c, "end") \in MetaRec /\ MetaSound(Told(c, "end")) /\ Told(c, "end").in = m.in
          /\ m.ends # 1
      BY <2>2, <2>4, ToldFacts DEF SpStates
    <3>2. Answered(m, st) \in {c, Told(c, st), Told(c, "end")}
      BY <2>3
    <3> QED  BY <2>2, <3>1, <3>2
  <2>5. CASE c.told = "end"
    <3>1. Answered(m, st) = c
      BY <2>2, <2>3, <2>5 DEF MetaSound, TerminalPending
    <3> QED  BY <2>2, <3>1
  <2> QED  BY <2>4, <2>5
<1>2. CASE api = "jobs"
  <2>1. m.told # "end" /\ m.ends # 1
    BY <1>2 DEF MetaSound
  <2>2. Answered(m, st) = IF st = m.st THEN m ELSE Told(m, st)
    BY <1>2 DEF Answered
  <2> QED  BY <2>1, <2>2, ToldFacts
<1> QED  BY <1>1, <1>2

\* A step that changes one record, and at most drops this task from the sweep.
LEMMA OneRecordKeeps ==
  ASSUME SpInv, NEW t \in PTasks, NEW y \in MetaRec,
         meta' = [meta EXCEPT ![t] = y], MetaSound(y),
         y.in => meta[t].in, meta[t].ends = 1 => y.ends = 1,
         swept' = swept \/ swept' = [swept EXCEPT !.todo = @ \ {t}],
         UNCHANGED <<api, world, pollWaits, pollClosing>>,
         fetch' \in {fetch, NoCall}, asked' \in CallRec,
         api = "jobs" => y.st = meta[t].st \/ (fetch # NoCall /\ fetch.task = t /\ fetch' = NoCall)
  PROVE  SpInv'
<1>0. /\ meta \in [PTasks -> MetaRec]
      /\ swept \in [at: {"off", "sleep", "sweep"}, todo: SUBSET PTasks]
  BY DEF SpInv, SpTyped
<1>1. /\ swept' \in [at: {"off", "sleep", "sweep"}, todo: SUBSET PTasks]
      /\ swept'.at = swept.at /\ swept'.todo \subseteq swept.todo
  BY <1>0
<1>2. \A u \in PTasks : meta'[u] = IF u = t THEN y ELSE meta[u]
  BY <1>0
<1>3. SpTyped'
  <2>1. fetch' \in CallRec
    BY DEF SpInv, SpTyped, CallRec
  <2> QED  BY <1>0, <1>1, <2>1 DEF SpInv, SpTyped
<1>4. LookedAtOnce'
  <2>1. (swept'.at = "off" => swept'.todo = {}) /\ (fetch' # NoCall => swept'.at = "sweep")
    BY <1>1 DEF SpInv, LookedAtOnce
  <2>2. ASSUME api = "jobs", NEW u \in swept'.todo
        PROVE  meta'[u].st # "end" /\ (fetch' = NoCall \/ fetch'.task # u)
    <3>1. /\ u \in PTasks /\ u \in swept.todo /\ meta[u].st # "end"
          /\ fetch = NoCall \/ fetch.task # u
      BY <1>0, <1>1, <2>2 DEF SpInv, LookedAtOnce
    <3> QED  BY <1>2, <2>2, <3>1
  <2>3. ASSUME api = "jobs", fetch' # NoCall
        PROVE  meta'[fetch'.task].st # "end"
    BY <1>2, <2>3, CallTypes DEF SpInv, LookedAtOnce
  <2> QED  BY <2>1, <2>2, <2>3 DEF LookedAtOnce
<1>5. UntoldIsSwept'
  <2>1. ASSUME NEW u \in PTasks, pollClosing = "open", meta'[u].in, meta'[u].ends = 0
        PROVE  swept.at # "off"
    <3>1. meta[u].in /\ meta[u].ends # 1 /\ meta[u] \in MetaRec
      BY <1>0, <1>2, <2>1
    <3>2. meta[u].ends = 0
      BY <3>1 DEF MetaRec
    <3> QED  BY <2>1, <3>1, <3>2 DEF SpInv, UntoldIsSwept
  <2> QED  BY <1>1, <2>1 DEF UntoldIsSwept
<1>6. ASSUME NEW u \in PTasks
      PROVE  MetaSound(meta[u])' /\ IsKnown(u)'
  <2>1. MetaSound(meta[u])'
    BY <1>2 DEF SpInv, MetaSound
  <2>2. IsKnown(u)'
    BY <1>1, <1>2 DEF SpInv, IsKnown
  <2> QED  BY <2>1, <2>2
<1> QED  BY <1>3, <1>4, <1>5, <1>6 DEF SpInv

\* Answers are written down.
LEMMA AnswersKeep ==
  ASSUME SpInv, FetchReturns \/ GetReturns \/ (\E t \in PTasks : TellsCached(t))
  PROVE  SpInv'
<1>0. /\ meta \in [PTasks -> MetaRec] /\ api \in {"globus", "jobs"} /\ NoCall \in CallRec
      /\ asked \in CallRec
  BY DEF SpInv, SpTyped, CallRec
<1>1. CASE FetchReturns
  <2>1. PICK t \in PTasks, st \in SpStates : t = fetch.task /\ st = fetch.saw
    BY <1>1, CallTypes DEF FetchReturns
  <2>2. PICK m \in MetaRec : m = meta[t]
    BY <1>0
  <2>3. MetaSound(m) /\ (api = "jobs" => m.st # "end")
    BY <1>1, <2>1, <2>2 DEF SpInv, LookedAtOnce, FetchReturns
  <2>4. PICK y \in MetaRec : y = Answered(m, st)
    BY <1>0, <2>3, AnsweredFacts
  <2>5. MetaSound(y) /\ y.in = m.in /\ (m.ends = 1 => y.ends = 1)
    BY <1>0, <2>3, <2>4, AnsweredFacts
  <2>6. meta' = [meta EXCEPT ![t] = y]
    BY <1>1, <2>1, <2>2, <2>4 DEF FetchReturns
  <2>7. /\ UNCHANGED <<api, world, pollWaits, pollClosing>> /\ UNCHANGED swept /\ UNCHANGED asked
        /\ fetch # NoCall /\ fetch' = NoCall
    BY <1>1 DEF FetchReturns
  <2> QED  BY <1>0, <2>1, <2>2, <2>5, <2>6, <2>7, OneRecordKeeps
<1>2. CASE \E t \in PTasks : TellsCached(t)
  <2>1. PICK t \in PTasks : TellsCached(t)
    BY <1>2
  <2>2. PICK m \in MetaRec : m = meta[t]
    BY <1>0
  <2>3. MetaSound(m) /\ api = "globus" /\ m.told # "end" /\ "end" \in SpStates
    BY <2>1, <2>2 DEF SpInv, TellsCached, TerminalPending, SpStates
  <2>4. PICK y \in MetaRec : y = Told(m, "end")
    BY <2>3, ToldFacts
  <2>5. MetaSound(y) /\ y.in = m.in /\ m.ends = 0
    BY <2>3, <2>4, ToldFacts
  <2>6. meta' = [meta EXCEPT ![t] = y]
    BY <2>1, <2>2, <2>4 DEF TellsCached
  <2>7. /\ UNCHANGED <<api, world, pollWaits, pollClosing>> /\ UNCHANGED asked /\ UNCHANGED fetch
        /\ swept' = [swept EXCEPT !.todo = @ \ {t}]
    BY <2>1 DEF TellsCached
  <2>8. (y.in => meta[t].in) /\ (meta[t].ends = 1 => y.ends = 1) /\ (api # "jobs") /\ t \in PTasks
    BY <2>2, <2>3, <2>5
  <2> QED  BY <1>0, <2>5, <2>6, <2>7, <2>8, OneRecordKeeps
<1>3. CASE GetReturns
  <2>1. PICK t \in PTasks, st \in SpStates : t = asked.task /\ st = asked.saw
    BY <1>3, CallTypes DEF GetReturns
  <2>2. PICK m \in MetaRec : m = meta[t]
    BY <1>0
  <2>3. MetaSound(m)
    BY <2>2 DEF SpInv
  <2>4. /\ UNCHANGED <<api, world, pollWaits, pollClosing>> /\ UNCHANGED swept /\ UNCHANGED fetch
        /\ asked' = NoCall
    BY <1>3 DEF GetReturns
  <2>5. CASE api = "globus" /\ m.in
    <3>1. PICK k \in MetaRec : k = Noted(m, st)
      BY DEF Noted, MetaRec
    <3>2. k.in = m.in /\ k.st = m.st /\ k.told = m.told /\ k.ends = m.ends
      BY <3>1 DEF Noted, MetaRec
    <3>4. MetaSound(k) /\ k.in = m.in /\ k.ends = m.ends
      BY <2>3, <3>2 DEF MetaSound
    <3>5. PICK y \in MetaRec : y = Cached(k, st)
      BY <2>5, <3>4, CachedFacts
    <3>6. MetaSound(y) /\ y.in = m.in /\ y.ends = m.ends
      BY <2>5, <3>4, <3>5, CachedFacts
    <3>7. meta' = [meta EXCEPT ![t] = y]
      <4>1. api = "globus" /\ meta[asked.task].in
        BY <2>1, <2>2, <2>5
      <4> QED  BY <1>3, <2>1, <2>2, <3>1, <3>5, <4>1 DEF GetReturns
    <3> QED  BY <1>0, <2>2, <2>4, <2>5, <3>6, <3>7, OneRecordKeeps
  <2>6. CASE ~(api = "globus" /\ m.in)
    <3>1. meta' = meta
      BY <1>3, <2>1, <2>2, <2>6 DEF GetReturns
    <3>2. meta' = [meta EXCEPT ![t] = m]
      BY <1>0, <2>2, <3>1
    <3> QED  BY <1>0, <2>2, <2>3, <2>4, <3>2, OneRecordKeeps
  <2> QED  BY <2>5, <2>6
<1> QED  BY <1>1, <1>2, <1>3

\* The poller asks, and may get no answer.
LEMMA FetchesKeep ==
  ASSUME SpInv, FetchFails \/ (\E t \in PTasks : Fetches(t))
  PROVE  SpInv'
<1>0. /\ meta \in [PTasks -> MetaRec] /\ NoCall \in CallRec
      /\ swept \in [at: {"off", "sleep", "sweep"}, todo: SUBSET PTasks]
      /\ world \in [PTasks -> SpStates \cup {"none"}]
  BY DEF SpInv, SpTyped, CallRec
<1>1. UNCHANGED <<api, world, meta, asked, pollWaits, pollClosing>>
  BY DEF FetchFails, Fetches
<1>2. CASE FetchFails
  <2>1. UNCHANGED swept /\ fetch' = NoCall
    BY <1>2 DEF FetchFails
  <2>2. SpTyped'
    BY <1>0, <1>1, <2>1 DEF SpInv, SpTyped
  <2>3. LookedAtOnce' /\ UntoldIsSwept'
    BY <1>1, <2>1 DEF SpInv, LookedAtOnce, UntoldIsSwept
  <2>4. \A t \in PTasks : MetaSound(meta[t])' /\ IsKnown(t)'
    BY <1>1, <2>1 DEF SpInv, MetaSound, IsKnown
  <2> QED  BY <2>2, <2>3, <2>4 DEF SpInv
<1>3. CASE \E t \in PTasks : Fetches(t)
  <2>1. PICK t \in PTasks : Fetches(t)
    BY <1>3
  <2>2. /\ t \in swept.todo /\ swept.at = "sweep" /\ world[t] \in SpStates
        /\ fetch' = [task |-> t, saw |-> world[t]]
        /\ swept' = [swept EXCEPT !.todo = @ \ {t}]
    <3>1. world[t] # "none"
      BY <2>1 DEF Fetches, SpInv, IsKnown
    <3> QED  BY <1>0, <2>1, <3>1 DEF Fetches
  <2>3. /\ swept' \in [at: {"off", "sleep", "sweep"}, todo: SUBSET PTasks]
        /\ swept'.at = "sweep" /\ swept'.todo = swept.todo \ {t}
    BY <1>0, <2>2
  <2>4. fetch' \in CallRec /\ fetch'.task = t
    BY <2>2 DEF CallRec
  <2>5. SpTyped'
    BY <1>1, <2>3, <2>4 DEF SpInv, SpTyped
  <2>6. LookedAtOnce'
    BY <1>1, <2>2, <2>3, <2>4 DEF SpInv, LookedAtOnce
  <2>7. UntoldIsSwept' /\ \A u \in PTasks : MetaSound(meta[u])' /\ IsKnown(u)'
    BY <1>1, <2>3 DEF SpInv, UntoldIsSwept, MetaSound, IsKnown
  <2> QED  BY <2>5, <2>6, <2>7 DEF SpInv
<1> QED  BY <1>2, <1>3

\* Submissions and queries.
LEMMA RequestsKeep ==
  ASSUME SpInv, NEW t \in PTasks, SubmitSends(t) \/ SubmitLost(t) \/ SubmitReturns(t) \/ GetSends(t)
  PROVE  SpInv'
<1>0. /\ meta \in [PTasks -> MetaRec]
      /\ swept \in [at: {"off", "sleep", "sweep"}, todo: SUBSET PTasks]
      /\ world \in [PTasks -> SpStates \cup {"none"}] /\ pollWaits \subseteq PTasks
  BY DEF SpInv, SpTyped
<1>1. CASE SubmitSends(t) \/ SubmitLost(t) \/ GetSends(t)
  <2>1. UNCHANGED <<api, meta, swept, fetch, pollClosing>>
    BY <1>1 DEF SubmitSends, SubmitLost, GetSends
  <2>2. /\ world' \in [PTasks -> SpStates \cup {"none"}] /\ pollWaits' \subseteq PTasks
        /\ \A u \in PTasks : world'[u] = world[u] \/ world'[u] = "first"
        /\ \A u \in PTasks : u \in pollWaits' => u \in pollWaits \/ world'[u] = "first"
    BY <1>0, <1>1 DEF SubmitSends, SubmitLost, GetSends, SpStates, Going
  <2>3. asked' \in CallRec
    <3>1. CASE GetSends(t)
      <4>1. world[t] \in SpStates
        BY <1>0, <3>1 DEF GetSends
      <4> QED  BY <3>1, <4>1 DEF GetSends, CallRec
    <3>2. CASE SubmitSends(t) \/ SubmitLost(t)
      BY <3>2 DEF SubmitSends, SubmitLost, SpInv, SpTyped
    <3> QED  BY <1>1, <3>1, <3>2
  <2>4. SpTyped'
    BY <2>1, <2>2, <2>3 DEF SpInv, SpTyped
  <2>5. LookedAtOnce' /\ UntoldIsSwept'
    BY <2>1 DEF SpInv, LookedAtOnce, UntoldIsSwept
  <2>6. ASSUME NEW u \in PTasks
        PROVE  MetaSound(meta[u])' /\ IsKnown(u)'
    BY <2>1, <2>2 DEF SpInv, MetaSound, IsKnown
  <2> QED  BY <2>4, <2>5, <2>6 DEF SpInv
<1>2. CASE SubmitReturns(t)
  <2>1. /\ UNCHANGED <<api, world, fetch, asked, pollClosing>> /\ t \in pollWaits
        /\ pollWaits' = pollWaits \ {t} /\ swept' = StartPoller
    BY <1>2 DEF SubmitReturns
  <2>2. /\ swept' \in [at: {"off", "sleep", "sweep"}, todo: SUBSET PTasks]
        /\ swept'.at # "off" /\ swept'.todo = swept.todo /\ (swept.at = "sweep" => swept'.at = "sweep")
    BY <1>0, <2>1 DEF StartPoller, Off, SpInv, LookedAtOnce
  <2>0. PICK m \in MetaRec : m = meta[t]
    BY <1>0
  <2>10. PICK y \in MetaRec : y = [m EXCEPT !.in = TRUE]
    BY DEF MetaRec
  <2>3. y.in = TRUE /\ y.st = m.st /\ y.told = m.told /\ y.ends = m.ends
    BY <2>10 DEF MetaRec
  <2>4. meta' = [meta EXCEPT ![t] = y]
    BY <1>2, <2>0, <2>10 DEF SubmitReturns
  <2>5. \A u \in PTasks : meta'[u].st = meta[u].st /\ meta'[u].told = meta[u].told /\ meta'[u].ends = meta[u].ends
                         /\ (u # t => meta'[u] = meta[u])
    BY <1>0, <2>0, <2>3, <2>4
  <2>6. SpTyped'
    BY <1>0, <2>1, <2>2, <2>4 DEF SpInv, SpTyped
  <2>7. LookedAtOnce'
    BY <1>0, <2>1, <2>2, <2>5, CallTypes DEF SpInv, LookedAtOnce
  <2>8. UntoldIsSwept'
    BY <2>2 DEF UntoldIsSwept
  <2>9. ASSUME NEW u \in PTasks
        PROVE  MetaSound(meta[u])' /\ IsKnown(u)'
    <3>1. MetaSound(meta[u])'
      BY <2>1, <2>5 DEF SpInv, MetaSound
    <3>2. IsKnown(u)'
      BY <2>1, <2>2, <2>5 DEF SpInv, IsKnown
    <3> QED  BY <3>1, <3>2
  <2> QED  BY <2>6, <2>7, <2>8, <2>9 DEF SpInv
<1> QED  BY <1>1, <1>2

\* A task is cancelled: its record goes.
LEMMA CancelTaskKeeps ==
  ASSUME SpInv, NEW t \in PTasks, CancelTask(t)
  PROVE  SpInv'
<1>0. /\ meta \in [PTasks -> MetaRec] /\ world \in [PTasks -> SpStates \cup {"none"}]
      /\ swept.todo \subseteq PTasks
  BY DEF SpInv, SpTyped
<1>1. /\ UNCHANGED <<api, swept, fetch, asked, pollWaits, pollClosing>>
      /\ world' = [world EXCEPT ![t] = "end"]
  BY DEF CancelTask
<1>10. PICK m \in MetaRec : m = meta[t]
  BY <1>0
<1>11. PICK y \in MetaRec : y = [m EXCEPT !.in = FALSE]
  BY DEF MetaRec
<1>2. y.in = FALSE /\ y.st = m.st /\ y.told = m.told /\ y.ends = m.ends
  BY <1>11 DEF MetaRec
<1>3. meta' = [meta EXCEPT ![t] = y]
  BY <1>10, <1>11 DEF CancelTask
<1>4. \A u \in PTasks : meta'[u].st = meta[u].st /\ meta'[u].told = meta[u].told /\ meta'[u].ends = meta[u].ends
                       /\ (u # t => meta'[u] = meta[u])
  BY <1>0, <1>2, <1>3, <1>10
<1>5. meta'[t].in = FALSE
  BY <1>0, <1>2, <1>3
<1>6. SpTyped'
  <2>1. world' \in [PTasks -> SpStates \cup {"none"}]
    BY <1>0, <1>1 DEF SpStates
  <2> QED  BY <1>0, <1>1, <1>3, <2>1 DEF SpInv, SpTyped
<1>7. LookedAtOnce'
  BY <1>0, <1>1, <1>4, CallTypes DEF SpInv, LookedAtOnce
<1>8. UntoldIsSwept'
  BY <1>1, <1>4, <1>5 DEF SpInv, UntoldIsSwept
<1>9. ASSUME NEW u \in PTasks
      PROVE  MetaSound(meta[u])' /\ IsKnown(u)'
  <2>1. MetaSound(meta[u])'
    BY <1>1, <1>4 DEF SpInv, MetaSound
  <2>2. IsKnown(u)'
    BY <1>0, <1>1, <1>4, <1>5 DEF SpInv, IsKnown
  <2> QED  BY <2>1, <2>2
<1> QED  BY <1>6, <1>7, <1>8, <1>9 DEF SpInv

\* The session is closed, or the service's work goes on.
LEMMA CloseAndWorldKeep ==
  ASSUME SpInv, CloseBegins \/ PollerEnds \/ (\E t \in PTasks, st \in SpStates : WorldMoves(t, st))
  PROVE  SpInv'
<1>1. CASE CloseBegins \/ PollerEnds
  <2>1. UNCHANGED <<api, world, meta, asked, pollWaits>>
    BY <1>1 DEF CloseBegins, PollerEnds
  <2>2. /\ pollClosing' \in {"closing", "closed"}
        /\ \/ swept' = Off /\ fetch' = NoCall
           \/ UNCHANGED <<swept, fetch>>
    BY <1>1 DEF CloseBegins, PollerEnds
  <2>3. /\ swept' \in [at: {"off", "sleep", "sweep"}, todo: SUBSET PTasks] /\ swept'.todo \subseteq swept.todo
        /\ fetch' \in CallRec
    BY <2>2 DEF SpInv, SpTyped, Off, CallRec
  <2>4. SpTyped'
    BY <2>1, <2>2, <2>3 DEF SpInv, SpTyped
  <2>5. LookedAtOnce'
    BY <2>1, <2>2 DEF SpInv, LookedAtOnce, Off
  <2>6. UntoldIsSwept'
    BY <2>2 DEF UntoldIsSwept
  <2>7. \A u \in PTasks : MetaSound(meta[u])' /\ IsKnown(u)'
    BY <2>1, <2>3 DEF SpInv, MetaSound, IsKnown
  <2> QED  BY <2>4, <2>5, <2>6, <2>7 DEF SpInv
<1>2. CASE \E t \in PTasks, st \in SpStates : WorldMoves(t, st)
  <2>1. PICK t \in PTasks, st \in SpStates : WorldMoves(t, st)
    BY <1>2
  <2>2. /\ UNCHANGED <<api, meta, swept, fetch, asked, pollWaits, pollClosing>>
        /\ world' = [world EXCEPT ![t] = st] /\ st # "none"
    BY <2>1 DEF WorldMoves, SpStates, Going
  <2>3. SpTyped'
    BY <2>2 DEF SpInv, SpTyped
  <2>4. LookedAtOnce' /\ UntoldIsSwept'
    BY <2>2 DEF SpInv, LookedAtOnce, UntoldIsSwept
  <2>5. \A u \in PTasks : MetaSound(meta[u])' /\ IsKnown(u)'
    BY <2>2 DEF SpInv, SpTyped, MetaSound, IsKnown
  <2> QED  BY <2>3, <2>4, <2>5 DEF SpInv
<1> QED  BY <1>1, <1>2

\* As long as the session is open, a task whose end has not been told has a
\* poller: for any number of tasks.
THEOREM UntoldTasksAreSwept == SpSpec => [](SpTypeOK /\ UntoldIsSwept)
<1>1. SpInit => SpInv
  <2> SUFFICES ASSUME SpInit
               PROVE  SpInv
    OBVIOUS
  <2>1. meta \in [PTasks -> MetaRec]
    <3>1. [in |-> FALSE, st |-> "first", told |-> "first", ends |-> 0, got |-> FALSE] \in MetaRec
      BY DEF MetaRec, SpStates, Going
    <3> QED  BY <3>1 DEF SpInit
  <2>2. SpTyped
    BY <2>1 DEF SpInit, SpTyped, CallRec, Off
  <2>3. LookedAtOnce /\ UntoldIsSwept
    BY DEF SpInit, LookedAtOnce, UntoldIsSwept, Off
  <2>4. \A t \in PTasks : MetaSound(meta[t]) /\ IsKnown(t)
    BY DEF SpInit, MetaSound, IsKnown, Off
  <2> QED  BY <2>2, <2>3, <2>4 DEF SpInv
<1>2. SpInv /\ [SpNext]_spVars => SpInv'
  <2> SUFFICES ASSUME SpInv, [SpNext]_spVars
               PROVE  SpInv'
    OBVIOUS
  <2>1. CASE PollerWakes \/ SweepDone
    BY <2>1, PollerKeeps
  <2>2. CASE FetchReturns \/ GetReturns \/ \E t \in PTasks : TellsCached(t)
    BY <2>2, AnswersKeep
  <2>3. CASE FetchFails \/ \E t \in PTasks : Fetches(t)
    BY <2>3, FetchesKeep
  <2>4. CASE \E t \in PTasks : SubmitSends(t) \/ SubmitLost(t) \/ SubmitReturns(t) \/ GetSends(t)
    BY <2>4, RequestsKeep
  <2>5. CASE \E t \in PTasks : CancelTask(t)
    BY <2>5, CancelTaskKeeps
  <2>6. CASE CloseBegins \/ PollerEnds \/ \E t \in PTasks, st \in SpStates : WorldMoves(t, st)
    BY <2>6, CloseAndWorldKeep
  <2>7. CASE UNCHANGED spVars
    BY <2>7 DEF spVars, SpInv, SpTyped, LookedAtOnce, UntoldIsSwept, MetaSound, IsKnown
  <2> QED  BY <2>1, <2>2, <2>3, <2>4, <2>5, <2>6, <2>7 DEF SpNext
<1>3. SpInv => SpTypeOK /\ UntoldIsSwept
  BY DEF SpInv, SpTyped, SpTypeOK, MetaRec
<1> QED  BY <1>1, <1>2, <1>3, PTL DEF SpSpec

-----------------------------------------------------------------------------
(***************************************************************************)
(* Jobs of the psij plugin (Psij).                                         *)
(***************************************************************************)

\* What is recorded of a job: an end was told, it is an end, and an endpoint's
\* name is the job's own only if nobody was connected under it.
JobSound(j) ==
  /\ job[j].known \in Final => job[j].told # {}
  /\ job[j].st \in Final => job[j].at = "over"
  /\ job[j].reply = "graceful" => job[j].at = "over"
  /\ job[j].kind # "plain" => j \in Targets
  /\ job[j].kind = "owned" => holder # "other"

\* The threads, the poll and the cancel are about jobs of the session.
WorkSound ==
  /\ \A t \in Threads : writer[t] # Idle => writer[t].job \in Ours
  /\ calling # Idle => calling.job \in Ours
  /\ jobsLeft \subseteq Ours
  /\ cancel.unknown < UnknownTolerance
  /\ cancel.pc # "idle" => cancel.job \in Targets \cap Ours /\ job[cancel.job].kind = "owned"

PjInv ==
  /\ PjTypeOK /\ UntoldIsPolled /\ WorkSound
  /\ \A j \in Jobs : JobSound(j)
  /\ holder \in Jobs => holder \in Targets

\* The jobs change no further than the work under way allows.
JobsGrow == Ours \subseteq Ours' /\ \A j \in Ours : job'[j].kind = job[j].kind

\* The types of what is not a job.
WorkTyped ==
  /\ writer \in [Threads -> [job: Jobs, st: States] \cup {Idle}]
  /\ calling \in [job: Jobs, st: States] \cup {Idle}
  /\ poll \in {"off", "sleep", "work"} /\ jobsLeft \subseteq Jobs
  /\ cancel \in [job: Jobs \cup {"none"}, pc: {"idle", "active", "wait"}, seen: BOOLEAN,
                 unknown: 0..UnknownTolerance]
  /\ holder \in {"none", "other", "late"} \cup Jobs
  /\ open \in BOOLEAN

\* Work that goes on keeps what is known of it.
LEMMA WorkKeeps ==
  ASSUME PjInv, JobsGrow, UNCHANGED <<writer, calling, cancel>>,
         jobsLeft' \subseteq jobsLeft
  PROVE  WorkSound'
<1>1. \A t \in Threads : writer'[t] # Idle => writer'[t].job \in Ours'
  BY DEF PjInv, WorkSound, JobsGrow
<1>2. (calling' # Idle => calling'.job \in Ours') /\ jobsLeft' \subseteq Ours' /\ cancel'.unknown < UnknownTolerance
  BY DEF PjInv, WorkSound, JobsGrow
<1>3. cancel'.pc # "idle" => cancel'.job \in Targets \cap Ours' /\ job'[cancel'.job].kind = "owned"
  BY DEF PjInv, WorkSound, JobsGrow
<1> QED  BY <1>1, <1>2, <1>3 DEF WorkSound

\* A step that changes one job.
LEMMA OneJobChanges ==
  ASSUME PjInv, NEW j \in Jobs, NEW m, m = job[j], NEW y \in JobRec,
         job' = [job EXCEPT ![j] = y],
         y.known \in Final => y.told # {},
         y.st \in Final \/ y.reply = "graceful" => y.at = "over",
         y.kind = m.kind \/ (j \notin Ours /\ (y.kind # "plain" => j \in Targets)
                             /\ (y.kind = "owned" => holder' # "other")),
         (m.at # "none" => y.at # "none") /\ (m.known # "none" => y.known # "none"),
         m.told # {} => y.told # {},
         y.at # "none" \/ y.known # "none" => y.told # {} \/ j \in Ours \/ poll' # "off",
         holder' = "other" => holder = "other",
         UNCHANGED open, poll # "off" => poll' # "off"
  PROVE  /\ job' \in [Jobs -> JobRec] /\ JobsGrow /\ UntoldIsPolled'
         /\ \A k \in Jobs : JobSound(k)'
<1>0. job \in [Jobs -> JobRec]
  BY DEF PjInv, PjTypeOK
<1>1. /\ job' \in [Jobs -> JobRec] /\ job'[j] = y
      /\ \A k \in Jobs : k # j => job'[k] = job[k]
  BY <1>0
<1>2. JobsGrow
  <2>1. \A k \in Jobs : k # j => (k \in Ours' <=> k \in Ours)
    BY <1>1 DEF Ours
  <2>2. j \in Ours => j \in Ours' /\ y.kind = m.kind
    BY <1>1 DEF Ours
  <2>3. Ours \subseteq Jobs
    BY DEF Ours
  <2> QED  BY <1>1, <2>1, <2>2, <2>3 DEF JobsGrow
<1>3. UntoldIsPolled'
  <2>1. ASSUME open, NEW k \in Ours', job'[k].told = {}
        PROVE  poll' # "off"
    <3>1. k \in Jobs
      BY DEF Ours
    <3>2. CASE k \in Ours
      <4>1. job[k].told = {}
        BY <1>1, <2>1, <3>1
      <4> QED  BY <2>1, <3>2, <4>1 DEF PjInv, UntoldIsPolled
    <3>3. CASE k \notin Ours
      <4>1. k = j
        BY <1>1, <2>1, <3>1, <3>3 DEF Ours
      <4> QED  BY <1>1, <2>1, <3>3, <4>1 DEF Ours
    <3> QED  BY <3>2, <3>3
  <2> QED  BY <2>1 DEF UntoldIsPolled
<1>4. ASSUME NEW k \in Jobs
      PROVE  JobSound(k)'
  <2>1. JobSound(k)
    BY DEF PjInv
  <2> QED  BY <1>1, <2>1 DEF JobSound
<1> QED  BY <1>1, <1>2, <1>3, <1>4

\* psij's thread and the threads' second halves.
LEMMA ThreadsKeep ==
  ASSUME PjInv,
         \/ \E t \in Threads : Write(t)
         \/ \E j \in Jobs, st \in States : PsijSees(j, st)
  PROVE  PjInv'
<1>0. /\ job \in [Jobs -> JobRec] /\ WorkTyped /\ States = {"NEW", "ACTIVE"} \cup Final
      /\ Final = {"COMPLETED", "FAILED", "CANCELED"}
  BY DEF PjInv, PjTypeOK, WorkTyped, States, Final
<1>1. CASE \E t \in Threads : Write(t)
  <2>1. PICK t \in Threads : Write(t)
    BY <1>1
  <2>2. /\ UNCHANGED <<calling, poll, jobsLeft, cancel, holder, open>> /\ writer[t] # Idle
        /\ writer' = [writer EXCEPT ![t] = Idle] /\ Record(writer[t].job, writer[t].st)
    BY <2>1 DEF Write
  <2>3. PICK j \in Jobs, st \in States : j = writer[t].job /\ st = writer[t].st /\ j \in Ours
    BY <1>0, <2>2 DEF WorkTyped, PjInv, WorkSound
  <2>4. PICK m \in JobRec : m = job[j]
    BY <1>0
  <2>5. PICK y : y = [m EXCEPT !.known = st, !.told = @ \cup ({st} \cap Final)]
    OBVIOUS
  <2>6. /\ y \in JobRec /\ y.at = m.at /\ y.st = m.st /\ y.kind = m.kind /\ y.reply = m.reply
        /\ y.known = st /\ y.told = m.told \cup ({st} \cap Final)
    BY <2>5 DEF JobRec
  <2>7. job' = [job EXCEPT ![j] = y]
    BY <2>2, <2>3, <2>4, <2>5 DEF Record
  <2>8. JobSound(j)
    BY DEF PjInv
  <2>9. /\ y.known \in Final => y.told # {}
        /\ y.st \in Final \/ y.reply = "graceful" => y.at = "over"
        /\ m.known # "none" => y.known # "none"
    BY <1>0, <2>4, <2>6, <2>8 DEF JobSound
  <2>10. job' \in [Jobs -> JobRec] /\ JobsGrow /\ UntoldIsPolled' /\ \A k \in Jobs : JobSound(k)'
    <3>1. /\ y \in JobRec /\ y.kind = m.kind /\ (m.told # {} => y.told # {})
          /\ (m.at # "none" => y.at # "none")
          /\ UNCHANGED open /\ UNCHANGED holder /\ UNCHANGED poll
      BY <2>2, <2>6
    <3> QED  BY <2>3, <2>4, <2>7, <2>9, <3>1, OneJobChanges
  <2>11. writer' \in [Threads -> [job: Jobs, st: States] \cup {Idle}]
    BY <1>0, <2>2 DEF WorkTyped
  <2>12. PjTypeOK'
    BY <2>2, <2>10, <2>11 DEF PjInv, PjTypeOK
  <2>13. WorkSound'
    <3>1. \A u \in Threads : writer'[u] # Idle => writer'[u].job \in Ours'
      BY <1>0, <2>2, <2>10 DEF WorkTyped, PjInv, WorkSound, JobsGrow
    <3>2. (calling' # Idle => calling'.job \in Ours') /\ jobsLeft' \subseteq Ours' /\ cancel'.unknown < UnknownTolerance
      BY <2>2, <2>10 DEF PjInv, WorkSound, JobsGrow
    <3>3. cancel'.pc # "idle" => cancel'.job \in Targets \cap Ours' /\ job'[cancel'.job].kind = "owned"
      BY <2>2, <2>10 DEF PjInv, WorkSound, JobsGrow
    <3> QED  BY <3>1, <3>2, <3>3 DEF WorkSound
  <2> QED  BY <2>2, <2>10, <2>12, <2>13 DEF PjInv
<1>2. CASE \E j \in Jobs, st \in States : PsijSees(j, st)
  <2>1. PICK j \in Jobs, st \in States : PsijSees(j, st)
    BY <1>2
  <2>2. /\ UNCHANGED <<writer, poll, jobsLeft, cancel, holder, open>>
        /\ calling' = [job |-> j, st |-> st] /\ job[j].at # "none"
        /\ job' = [job EXCEPT ![j].st = st] /\ st \in Follows(j)
    BY <2>1 DEF PsijSees
  <2>3. j \in Ours /\ (st \in Final => job[j].at = "over")
    BY <2>2 DEF Ours, Follows, Final
  <2>4. PICK m \in JobRec : m = job[j]
    BY <1>0
  <2>5. PICK y : y = [m EXCEPT !.st = st]
    OBVIOUS
  <2>6. /\ y \in JobRec /\ y.at = m.at /\ y.st = st /\ y.kind = m.kind /\ y.reply = m.reply
        /\ y.known = m.known /\ y.told = m.told
    BY <2>5 DEF JobRec
  <2>7. job' = [job EXCEPT ![j] = y]
    BY <2>2, <2>4, <2>5
  <2>8. JobSound(j)
    BY DEF PjInv
  <2>9. /\ y.known \in Final => y.told # {}
        /\ y.st \in Final \/ y.reply = "graceful" => y.at = "over"
    BY <2>3, <2>4, <2>6, <2>8 DEF JobSound
  <2>10. job' \in [Jobs -> JobRec] /\ JobsGrow /\ UntoldIsPolled' /\ \A k \in Jobs : JobSound(k)'
    <3>1. /\ y \in JobRec /\ y.kind = m.kind /\ (m.told # {} => y.told # {})
          /\ (m.at # "none" => y.at # "none") /\ (m.known # "none" => y.known # "none")
          /\ UNCHANGED open /\ UNCHANGED holder /\ UNCHANGED poll
      BY <2>2, <2>6
    <3> QED  BY <2>3, <2>4, <2>7, <2>9, <3>1, OneJobChanges
  <2>12. PjTypeOK'
    BY <2>2, <2>10 DEF PjInv, PjTypeOK
  <2>13. WorkSound'
    <3>1. \A u \in Threads : writer'[u] # Idle => writer'[u].job \in Ours'
      BY <2>2, <2>10 DEF PjInv, WorkSound, JobsGrow
    <3>2. (calling' # Idle => calling'.job \in Ours') /\ jobsLeft' \subseteq Ours' /\ cancel'.unknown < UnknownTolerance
      BY <2>2, <2>3, <2>10 DEF PjInv, WorkSound, JobsGrow
    <3>3. cancel'.pc # "idle" => cancel'.job \in Targets \cap Ours' /\ job'[cancel'.job].kind = "owned"
      BY <2>2, <2>10 DEF PjInv, WorkSound, JobsGrow
    <3> QED  BY <3>1, <3>2, <3>3 DEF WorkSound
  <2> QED  BY <2>2, <2>10, <2>12, <2>13 DEF PjInv
<1> QED  BY <1>1, <1>2

\* _notify_state's first half: what is to be recorded is a state of the job.
LEMMA JudgeFacts ==
  ASSUME PjInv, NEW j \in Jobs, NEW st \in States, j \in Ours
  PROVE  /\ Judge(j, st) \in [job: Jobs, st: States] \cup {Idle}
         /\ Judge(j, st) # Idle => Judge(j, st).job \in Ours
<1>1. Effective(j, st) \in States
  BY DEF Effective, Ended, States, Final
<1> QED  BY <1>1 DEF Judge

\* Steps of the poll and of the callback that change no job.
LEMMA LooksKeep ==
  ASSUME PjInv, CallsBack \/ PollWakes \/ PollEnds \/ (\E j \in Jobs : PollLooks(j))
  PROVE  PjInv'
<1>0. /\ job \in [Jobs -> JobRec] /\ WorkTyped /\ Ours \subseteq Jobs
  BY DEF PjInv, PjTypeOK, WorkTyped, Ours
<1>1. UNCHANGED <<job, cancel, holder, open>>
  BY DEF CallsBack, PollWakes, PollEnds, PollLooks
<1>2. Ours' = Ours /\ \A j \in Jobs : JobSound(j)'
  BY <1>1 DEF PjInv, Ours, JobSound
<1>3. /\ writer' \in [Threads -> [job: Jobs, st: States] \cup {Idle}]
      /\ \A u \in Threads : writer'[u] # Idle => writer'[u].job \in Ours
  <2>1. CASE CallsBack
    <3>1. calling.job \in Jobs /\ calling.st \in States /\ calling.job \in Ours
      BY <1>0, <2>1 DEF CallsBack, WorkTyped, PjInv, WorkSound
    <3>2. PICK w \in [job: Jobs, st: States] \cup {Idle} :
            w = Judge(calling.job, calling.st) /\ (w # Idle => w.job \in Ours)
      BY <3>1, JudgeFacts
    <3>3. writer' = [writer EXCEPT !["psij"] = w]
      BY <2>1, <3>2 DEF CallsBack
    <3> QED  BY <1>0, <3>2, <3>3 DEF WorkTyped, PjInv, WorkSound
  <2>2. CASE \E j \in Jobs : PollLooks(j)
    <3>1. PICK j \in Jobs : PollLooks(j)
      BY <2>2
    <3>2. j \in Ours /\ job[j].st \in States
      BY <1>0, <3>1 DEF PollLooks, PjInv, WorkSound, JobRec
    <3>3. PICK w \in [job: Jobs, st: States] \cup {Idle} :
            w = Judge(j, job[j].st) /\ (w # Idle => w.job \in Ours)
      BY <3>2, JudgeFacts
    <3>4. writer' = [writer EXCEPT !["loop"] = w]
      BY <3>1, <3>3 DEF PollLooks
    <3> QED  BY <1>0, <3>3, <3>4 DEF WorkTyped, PjInv, WorkSound
  <2>3. CASE PollWakes \/ PollEnds
    BY <1>0, <2>3 DEF PollWakes, PollEnds, WorkTyped, PjInv, WorkSound
  <2> QED  BY <2>1, <2>2, <2>3
<1>4. /\ calling' \in {calling, Idle}
      /\ poll' \in {"off", "sleep", "work"} /\ jobsLeft' \subseteq Ours
  BY <1>0 DEF CallsBack, PollWakes, PollEnds, PollLooks, WorkTyped, PjInv, WorkSound
<1>5. PjTypeOK'
  BY <1>0, <1>1, <1>3, <1>4 DEF PjInv, PjTypeOK
<1>6. WorkSound'
  BY <1>1, <1>2, <1>3, <1>4 DEF PjInv, WorkSound
<1>7. UntoldIsPolled'
  <2>1. CASE PollEnds
    <3>1. (\A j \in Ours : Ended(j)) => \A j \in Ours : job[j].told # {}
      BY <1>0 DEF PjInv, JobSound, Ended
    <3> QED  BY <1>1, <1>2, <2>1, <3>1 DEF PollEnds, UntoldIsPolled
  <2>2. CASE CallsBack \/ PollWakes \/ \E j \in Jobs : PollLooks(j)
    BY <1>1, <1>2, <2>2 DEF CallsBack, PollWakes, PollLooks, PjInv, UntoldIsPolled
  <2> QED  BY <2>1, <2>2
<1>8. holder' \in Jobs => holder' \in Targets
  BY <1>1 DEF PjInv
<1> QED  BY <1>2, <1>5, <1>6, <1>7, <1>8 DEF PjInv

\* submit_job: the job is queued and the poll runs, or it failed at once.
LEMMA SubmitKeeps ==
  ASSUME PjInv, NEW j \in Jobs, NEW e \in BOOLEAN, NEW ok \in BOOLEAN, Submit(j, e, ok)
  PROVE  PjInv'
<1>0. /\ job \in [Jobs -> JobRec] /\ j \notin Ours
      /\ UNCHANGED <<writer, calling, jobsLeft, cancel, holder, open>>
  BY DEF PjInv, PjTypeOK, Submit
<1>1. PICK kind \in Kinds :
        /\ kind = Kind(e) /\ (kind # "plain" => j \in Targets)
        /\ (kind = "owned" => holder # "other")
  BY DEF Kind, Kinds, Submit
<1>2. PICK m \in JobRec : m = job[j]
  BY <1>0
<1>3. m.at = "none" /\ m.known = "none" /\ m.told \subseteq Final
  BY <1>0, <1>2 DEF Ours, JobRec
<1>4. JobSound(j)
  BY DEF PjInv
<1>5. PICK y \in JobRec :
        /\ job' = [job EXCEPT ![j] = y] /\ y.kind = kind
        /\ y.known \in Final => y.told # {}
        /\ y.st \in Final \/ y.reply = "graceful" => y.at = "over"
        /\ m.told # {} => y.told # {}
        /\ (y.told = {} => poll' # "off") /\ (poll # "off" => poll' # "off")
        /\ poll' \in {"off", "sleep", "work"}
  <2>1. CASE ok
    <3>1. PICK y : y = [m EXCEPT !.at = "queued", !.kind = kind]
      OBVIOUS
    <3>2. y \in JobRec /\ y.kind = kind /\ y.st = m.st /\ y.known = m.known /\ y.told = m.told /\ y.reply = m.reply
      BY <3>1 DEF JobRec
    <3>3. job' = [job EXCEPT ![j] = y] /\ poll' = StartPolling
      BY <1>1, <1>2, <2>1, <3>1 DEF Submit
    <3>4. y.st \notin Final /\ y.reply # "graceful" /\ y.known \notin Final
      BY <1>2, <1>3, <1>4, <3>2 DEF JobSound, Final
    <3>5. poll' # "off" /\ poll' \in {"off", "sleep", "work"}
      BY <3>3 DEF StartPolling, PjInv, PjTypeOK
    <3> QED  BY <3>2, <3>3, <3>4, <3>5
  <2>2. CASE ~ok
    <3>1. PICK y : y = [m EXCEPT !.kind = kind, !.known = "FAILED", !.told = {"FAILED"}]
      OBVIOUS
    <3>2. /\ y \in JobRec /\ y.kind = kind /\ y.st = m.st /\ y.told = {"FAILED"} /\ y.reply = m.reply
          /\ y.at = m.at
      BY <3>1 DEF JobRec, Final, States
    <3>3. job' = [job EXCEPT ![j] = y] /\ poll' = poll
      BY <1>1, <1>2, <2>2, <3>1 DEF Submit
    <3>4. y.st \in Final \/ y.reply = "graceful" => y.at = "over"
      BY <1>2, <1>4, <3>2 DEF JobSound
    <3>5. poll' \in {"off", "sleep", "work"}
      BY <3>3 DEF PjInv, PjTypeOK
    <3> QED  BY <3>2, <3>3, <3>4, <3>5
  <2> QED  BY <2>1, <2>2
<1>6. job' \in [Jobs -> JobRec] /\ JobsGrow /\ UntoldIsPolled' /\ \A k \in Jobs : JobSound(k)'
  BY <1>0, <1>1, <1>2, <1>3, <1>5, OneJobChanges
<1>7. PjTypeOK'
  BY <1>0, <1>5, <1>6 DEF PjInv, PjTypeOK
<1>8. WorkSound'
  BY <1>0, <1>6, WorkKeeps
<1> QED  BY <1>0, <1>6, <1>7, <1>8 DEF PjInv

\* A step that changes a job's `at', its wish to end or its answer.
LEMMA OneJobMoves ==
  ASSUME PjInv, NEW j \in Jobs, NEW m, m = job[j], NEW y \in JobRec,
         job' = [job EXCEPT ![j] = y],
         y.known = m.known, y.told = m.told, y.st = m.st, y.kind = m.kind,
         y.at = m.at \/ (m.at \in {"queued", "run"} /\ y.at = "over") \/ (m.at = "queued" /\ y.at = "run"),
         y.reply = m.reply \/ y.reply = "forced" \/ (y.reply = "graceful" /\ y.at = "over"),
         holder' = "other" => holder = "other",
         UNCHANGED open, UNCHANGED poll
  PROVE  /\ job' \in [Jobs -> JobRec] /\ JobsGrow /\ UntoldIsPolled'
         /\ \A k \in Jobs : JobSound(k)'
<1>1. JobSound(j)
  BY DEF PjInv
<1>2. /\ y.known \in Final => y.told # {}
      /\ y.st \in Final \/ y.reply = "graceful" => y.at = "over"
      /\ (m.at # "none" => y.at # "none") /\ (m.known # "none" => y.known # "none")
      /\ y.at # "none" \/ y.known # "none" => j \in Ours
  BY <1>1 DEF JobSound, Ours
<1> QED  BY <1>2, OneJobChanges

\* job.cancel(): the wish is noted, and the answer.
LEMMA JobCancelMoves ==
  ASSUME PjInv, NEW j \in Jobs, JobCancel(j, "forced"), UNCHANGED <<open, poll>>,
         holder' = "other" => holder = "other"
  PROVE  /\ job' \in [Jobs -> JobRec] /\ JobsGrow /\ UntoldIsPolled'
         /\ \A k \in Jobs : JobSound(k)'
<1>1. PICK m \in JobRec : m = job[j]
  BY DEF PjInv, PjTypeOK
<1>2. PICK y : y = [m EXCEPT !.want = @ \/ ~Ended(j), !.reply = "forced"]
  OBVIOUS
<1>3. /\ y \in JobRec /\ y.known = m.known /\ y.told = m.told /\ y.st = m.st /\ y.kind = m.kind
      /\ y.at = m.at /\ y.reply = "forced"
  BY <1>2 DEF JobRec
<1>4. job' = [job EXCEPT ![j] = y]
  BY <1>1, <1>2 DEF JobCancel
<1> QED  BY <1>1, <1>3, <1>4, OneJobMoves

\* cancel_job: a job of others, or one that has ended, is cancelled outright.
LEMMA CancelKeeps ==
  ASSUME PjInv, NEW j \in Jobs, Cancel(j)
  PROVE  PjInv'
<1>0. /\ UNCHANGED <<writer, calling, poll, jobsLeft, holder, open>> /\ j \in Ours \cap Targets
      /\ job \in [Jobs -> JobRec] /\ Jobs \cap {"none", "other", "late"} = {}
      /\ UnknownTolerance \in Nat \ {0}
  BY PsijTolerance DEF Cancel, PjInv, PjTypeOK
<1>1. CASE JobCancel(j, "forced") /\ UNCHANGED cancel
  <2>1. job' \in [Jobs -> JobRec] /\ JobsGrow /\ UntoldIsPolled' /\ \A k \in Jobs : JobSound(k)'
    BY <1>0, <1>1, JobCancelMoves
  <2>2. PjTypeOK'
    BY <1>0, <1>1, <2>1 DEF PjInv, PjTypeOK
  <2>3. WorkSound'
    BY <1>0, <1>1, <2>1, WorkKeeps
  <2> QED  BY <1>0, <2>1, <2>2, <2>3 DEF PjInv
<1>2. CASE /\ ~(Ended(j) \/ job[j].kind # "owned")
           /\ job' = [job EXCEPT ![j].want = TRUE]
           /\ cancel' = [NoCancel EXCEPT !.job = j, !.pc = "active"]
  <2>1. PICK m \in JobRec : m = job[j]
    BY <1>0
  <2>2. PICK y : y = [m EXCEPT !.want = TRUE]
    OBVIOUS
  <2>3. /\ y \in JobRec /\ y.known = m.known /\ y.told = m.told /\ y.st = m.st /\ y.kind = m.kind
        /\ y.at = m.at /\ y.reply = m.reply
    BY <2>2 DEF JobRec
  <2>4. job' = [job EXCEPT ![j] = y]
    BY <1>2, <2>1, <2>2
  <2>5. job' \in [Jobs -> JobRec] /\ JobsGrow /\ UntoldIsPolled' /\ \A k \in Jobs : JobSound(k)'
    BY <1>0, <2>1, <2>3, <2>4, OneJobMoves
  <2>6. cancel' = [job |-> j, pc |-> "active", seen |-> FALSE, unknown |-> 0]
    BY <1>2 DEF NoCancel
  <2>7. cancel' \in [job: Jobs \cup {"none"}, pc: {"idle", "active", "wait"}, seen: BOOLEAN,
                     unknown: 0..UnknownTolerance]
    BY <1>0, <2>6
  <2>8. PjTypeOK'
    BY <1>0, <2>5, <2>7 DEF PjInv, PjTypeOK
  <2>9. WorkSound'
    <3>1. \A u \in Threads : writer'[u] # Idle => writer'[u].job \in Ours'
      BY <1>0, <2>5 DEF PjInv, WorkSound, JobsGrow
    <3>2. (calling' # Idle => calling'.job \in Ours') /\ jobsLeft' \subseteq Ours'
      BY <1>0, <2>5 DEF PjInv, WorkSound, JobsGrow
    <3>3. cancel'.job = j /\ cancel'.unknown = 0
      BY <2>6
    <3>4. job[j].kind = "owned" /\ j \in Ours /\ j \in Targets
      BY <1>0, <1>2
    <3>5. job'[j].kind = "owned" /\ j \in Ours'
      BY <2>5, <3>4 DEF JobsGrow
    <3>6. 0 < UnknownTolerance
      BY <1>0
    <3> QED  BY <3>1, <3>2, <3>3, <3>4, <3>5, <3>6 DEF WorkSound
  <2> QED  BY <1>0, <2>5, <2>8, <2>9 DEF PjInv
<1> QED  BY <1>1, <1>2 DEF Cancel

\* The cancel under way ends or goes on.
LEMMA CancelGoesOnKeeps ==
  ASSUME PjInv, NEW j \in Jobs, j = cancel.job, cancel.pc # "idle",
         job' \in [Jobs -> JobRec], JobsGrow, UntoldIsPolled', \A k \in Jobs : JobSound(k)',
         UNCHANGED <<writer, calling, poll, jobsLeft, open>>, holder' \in {holder, "none"},
         NEW s \in BOOLEAN, NEW n \in Nat, n < UnknownTolerance,
         cancel' = NoCancel \/ cancel' = [job |-> j, pc |-> "wait", seen |-> s, unknown |-> n]
  PROVE  PjInv'
<1>0. UnknownTolerance \in Nat \ {0} /\ Jobs \cap {"none", "other", "late"} = {}
  BY PsijTolerance
<1>1. /\ cancel' \in [job: Jobs \cup {"none"}, pc: {"idle", "active", "wait"}, seen: BOOLEAN,
                      unknown: 0..UnknownTolerance]
      /\ cancel'.unknown < UnknownTolerance
      /\ cancel'.pc # "idle" => cancel'.job = j
  <2>1. 0 \in 0..UnknownTolerance /\ 0 < UnknownTolerance /\ n \in 0..UnknownTolerance
    BY <1>0
  <2>2. CASE cancel' = NoCancel
    BY <2>1, <2>2 DEF NoCancel
  <2>3. CASE cancel' = [job |-> j, pc |-> "wait", seen |-> s, unknown |-> n]
    BY <2>1, <2>3
  <2> QED  BY <2>2, <2>3
<1>2. PjTypeOK'
  BY <1>1 DEF PjInv, PjTypeOK
<1>3. WorkSound'
  <2>1. \A u \in Threads : writer'[u] # Idle => writer'[u].job \in Ours'
    BY DEF PjInv, WorkSound, JobsGrow
  <2>2. (calling' # Idle => calling'.job \in Ours') /\ jobsLeft' \subseteq Ours'
    BY DEF PjInv, WorkSound, JobsGrow
  <2>3. j \in Targets \cap Ours' /\ job'[j].kind = "owned"
    BY DEF PjInv, WorkSound, JobsGrow
  <2> QED  BY <1>1, <2>1, <2>2, <2>3 DEF WorkSound
<1>4. holder' \in Jobs => holder' \in Targets
  BY <1>0 DEF PjInv
<1> QED  BY <1>2, <1>3, <1>4 DEF PjInv

\* No job changes.
LEMMA SameJobs ==
  ASSUME PjInv, UNCHANGED <<job, open, poll>>, holder' \in {holder, "none"}
  PROVE  /\ job' \in [Jobs -> JobRec] /\ JobsGrow /\ UntoldIsPolled'
         /\ \A k \in Jobs : JobSound(k)'
<1>1. job' \in [Jobs -> JobRec] /\ JobsGrow
  BY DEF PjInv, PjTypeOK, JobsGrow, Ours
<1>2. UntoldIsPolled'
  BY DEF PjInv, UntoldIsPolled, Ours
<1>3. \A k \in Jobs : JobSound(k)'
  BY DEF PjInv, JobSound
<1> QED  BY <1>1, <1>2, <1>3

\* stop_endpoint, _wait_final and the end of the grace.
LEMMA CancelStepsKeep ==
  ASSUME PjInv,
         CancelAsks \/ GraceOver \/ (\E a \in {"queued", "run", "over", "unknown"} : CancelPolls(a))
  PROVE  PjInv'
<1>0. PICK j \in Jobs : j = cancel.job /\ cancel.pc # "idle"
  BY PsijTolerance DEF PjInv, WorkSound, CancelAsks, GraceOver, CancelPolls
<1>1. PICK c \in [job: Jobs \cup {"none"}, pc: {"idle", "active", "wait"}, seen: BOOLEAN,
                 unknown: 0..UnknownTolerance] : c = cancel
  BY DEF PjInv, PjTypeOK
<1>2. /\ UnknownTolerance \in Nat \ {0} /\ c.unknown \in Nat /\ c.unknown < UnknownTolerance
      /\ c.job = j /\ c.seen \in BOOLEAN
      /\ 0 \in Nat /\ 0 < UnknownTolerance /\ FALSE \in BOOLEAN
  BY <1>0, <1>1, PsijTolerance DEF PjInv, WorkSound
<1>3. CASE GraceOver \/ (CancelAsks /\ ~Stops(j))
  <2>1. /\ UNCHANGED <<writer, calling, poll, jobsLeft, open>> /\ UNCHANGED holder
        /\ JobCancel(j, "forced") /\ cancel' = NoCancel
    BY <1>0, <1>3 DEF GraceOver, CancelAsks
  <2>2. job' \in [Jobs -> JobRec] /\ JobsGrow /\ UntoldIsPolled' /\ \A k \in Jobs : JobSound(k)'
    BY <2>1, JobCancelMoves
  <2> QED  BY <1>0, <1>2, <2>1, <2>2, CancelGoesOnKeeps
<1>4. CASE CancelAsks /\ Stops(j)
  <2>1. /\ UNCHANGED <<writer, calling, poll, jobsLeft, open>> /\ holder' = "none" /\ UNCHANGED job
        /\ cancel' = [cancel EXCEPT !.pc = "wait"]
    BY <1>0, <1>4 DEF CancelAsks
  <2>2. job' \in [Jobs -> JobRec] /\ JobsGrow /\ UntoldIsPolled' /\ \A k \in Jobs : JobSound(k)'
    BY <2>1, SameJobs
  <2>3. cancel' = [job |-> j, pc |-> "wait", seen |-> c.seen, unknown |-> c.unknown]
    BY <1>1, <1>2, <2>1
  <2> QED  BY <1>0, <1>2, <2>1, <2>2, <2>3, CancelGoesOnKeeps
<1>5. CASE \E a \in {"queued", "run", "over", "unknown"} : CancelPolls(a)
  <2>1. PICK a \in {"queued", "run", "over", "unknown"} : CancelPolls(a)
    BY <1>5
  <2>2. PICK n \in Nat :
          n = IF a # "unknown" THEN 0 ELSE IF c.seen THEN c.unknown + 1 ELSE c.unknown
    BY <1>2
  <2>3. n <= UnknownTolerance
    BY <1>2, <2>2
  <2>4. /\ UNCHANGED <<writer, calling, poll, jobsLeft, open>> /\ UNCHANGED holder
        /\ a = "over" => job[j].at = "over"
        /\ \/ /\ job[j].st \in Final \/ a = "over"
              /\ job' = [job EXCEPT ![j].reply = "graceful"] /\ cancel' = NoCancel
           \/ JobCancel(j, "forced") /\ cancel' = NoCancel
           \/ /\ n # UnknownTolerance /\ UNCHANGED job
              /\ cancel' = [cancel EXCEPT !.seen = @ \/ a # "unknown", !.unknown = n]
    BY <1>0, <1>1, <2>1, <2>2 DEF CancelPolls, ConfirmedEnd
  <2>5. CASE /\ job[j].st \in Final \/ a = "over"
             /\ job' = [job EXCEPT ![j].reply = "graceful"] /\ cancel' = NoCancel
    <3>1. PICK m \in JobRec : m = job[j]
      BY DEF PjInv, PjTypeOK
    <3>2. PICK y : y = [m EXCEPT !.reply = "graceful"]
      OBVIOUS
    <3>3. /\ y \in JobRec /\ y.known = m.known /\ y.told = m.told /\ y.st = m.st /\ y.kind = m.kind
          /\ y.at = m.at /\ y.reply = "graceful"
      BY <3>2 DEF JobRec
    <3>4. job' = [job EXCEPT ![j] = y]
      BY <2>5, <3>1, <3>2
    <3>5. y.at = "over"
      <4>1. JobSound(j)
        BY DEF PjInv
      <4> QED  BY <2>4, <2>5, <3>1, <3>3, <4>1 DEF JobSound
    <3>6. job' \in [Jobs -> JobRec] /\ JobsGrow /\ UntoldIsPolled' /\ \A k \in Jobs : JobSound(k)'
      BY <2>4, <3>1, <3>3, <3>4, <3>5, OneJobMoves
    <3> QED  BY <1>0, <1>2, <2>4, <2>5, <3>6, CancelGoesOnKeeps
  <2>6. CASE JobCancel(j, "forced") /\ cancel' = NoCancel
    <3>1. job' \in [Jobs -> JobRec] /\ JobsGrow /\ UntoldIsPolled' /\ \A k \in Jobs : JobSound(k)'
      BY <2>4, <2>6, JobCancelMoves
    <3> QED  BY <1>0, <1>2, <2>4, <2>6, <3>1, CancelGoesOnKeeps
  <2>7. CASE /\ n # UnknownTolerance /\ UNCHANGED job
             /\ cancel' = [cancel EXCEPT !.seen = @ \/ a # "unknown", !.unknown = n]
    <3>1. PICK s \in BOOLEAN : s = (c.seen \/ a # "unknown")
      OBVIOUS
    <3>2. cancel' = [job |-> j, pc |-> "wait", seen |-> s, unknown |-> n]
      <4>1. c.pc = "wait"
        BY <1>1, <2>1 DEF CancelPolls
      <4>2. cancel' = [c EXCEPT !.seen = s, !.unknown = n]
        BY <1>1, <2>7, <3>1
      <4> QED  BY <1>2, <4>1, <4>2
    <3>3. job' \in [Jobs -> JobRec] /\ JobsGrow /\ UntoldIsPolled' /\ \A k \in Jobs : JobSound(k)'
      BY <2>4, <2>7, SameJobs
    <3>4. n < UnknownTolerance
      BY <1>2, <2>3, <2>7
    <3> QED  BY <1>0, <2>2, <2>4, <3>2, <3>3, <3>4, CancelGoesOnKeeps
  <2> QED  BY <2>4, <2>5, <2>6, <2>7
<1> QED  BY <1>0, <1>3, <1>4, <1>5

\* The session is closed, and what the world does.
LEMMA WorldKeeps ==
  ASSUME PjInv,
         \/ CloseJobs \/ OtherLeaves
         \/ \E j \in Jobs : JobRuns(j) \/ JobEnds(j)
         \/ \E who \in Jobs \cup {"late"} : Connects(who)
  PROVE  PjInv'
<1>0. Jobs \cap {"none", "other", "late"} = {} /\ job \in [Jobs -> JobRec]
  BY PsijTolerance DEF PjInv, PjTypeOK
<1>1. CASE CloseJobs
  <2>1. UNCHANGED <<job, writer, calling, cancel, holder>> /\ open' = FALSE /\ poll' = "off" /\ jobsLeft' = {}
    BY <1>1 DEF CloseJobs
  <2>2. PjTypeOK' /\ UntoldIsPolled' /\ JobsGrow
    BY <2>1 DEF PjInv, PjTypeOK, UntoldIsPolled, JobsGrow, Ours
  <2>3. \A j \in Jobs : JobSound(j)'
    BY <2>1 DEF PjInv, JobSound
  <2>4. WorkSound'
    BY <2>1, <2>2, WorkKeeps
  <2> QED  BY <2>1, <2>2, <2>3, <2>4 DEF PjInv
<1>2. CASE OtherLeaves \/ \E who \in Jobs \cup {"late"} : Connects(who)
  <2>1. /\ UNCHANGED <<job, writer, calling, poll, jobsLeft, cancel, open>>
        /\ holder' \in {"none", "late"} \cup Targets
    BY <1>0, <1>2 DEF OtherLeaves, Connects, PjInv, JobSound
  <2>2. holder' # "other" /\ (holder' \in Jobs => holder' \in Targets) /\ Targets \subseteq Jobs
    BY <1>0, <2>1, PsijTolerance
  <2>3. PjTypeOK' /\ UntoldIsPolled' /\ JobsGrow
    BY <2>1, <2>2 DEF PjInv, PjTypeOK, UntoldIsPolled, JobsGrow, Ours
  <2>4. \A j \in Jobs : JobSound(j)'
    BY <2>1, <2>2 DEF PjInv, JobSound
  <2>5. WorkSound'
    BY <2>1, <2>3, WorkKeeps
  <2> QED  BY <2>2, <2>3, <2>4, <2>5 DEF PjInv
<1>3. CASE \E j \in Jobs : JobRuns(j) \/ JobEnds(j)
  <2>1. PICK j \in Jobs : JobRuns(j) \/ JobEnds(j)
    BY <1>3
  <2>2. PICK m \in JobRec : m = job[j]
    BY <1>0
  <2>3. PICK at \in {"run", "over"} :
          /\ job' = [job EXCEPT ![j].at = at]
          /\ (m.at \in {"queued", "run"} /\ at = "over") \/ (m.at = "queued" /\ at = "run")
    BY <2>1, <2>2 DEF JobRuns, JobEnds
  <2>4. UNCHANGED <<writer, calling, poll, jobsLeft, cancel, open>> /\ holder' \in {holder, "none"}
    BY <2>1 DEF JobRuns, JobEnds
  <2>5. PICK y : y = [m EXCEPT !.at = at]
    OBVIOUS
  <2>6. /\ y \in JobRec /\ y.known = m.known /\ y.told = m.told /\ y.st = m.st /\ y.kind = m.kind
        /\ y.at = at /\ y.reply = m.reply
    BY <2>5 DEF JobRec
  <2>7. job' = [job EXCEPT ![j] = y]
    BY <2>2, <2>3, <2>5
  <2>8. job' \in [Jobs -> JobRec] /\ JobsGrow /\ UntoldIsPolled' /\ \A k \in Jobs : JobSound(k)'
    <3>1. (m.at \in {"queued", "run"} /\ y.at = "over") \/ (m.at = "queued" /\ y.at = "run")
      BY <2>3, <2>6
    <3>2. UNCHANGED open /\ UNCHANGED poll /\ (holder' = "other" => holder = "other")
      BY <2>4
    <3>3. /\ y \in JobRec /\ y.known = m.known /\ y.told = m.told /\ y.st = m.st /\ y.kind = m.kind
          /\ y.reply = m.reply
      BY <2>6
    <3> QED  BY <2>2, <2>7, <3>1, <3>2, <3>3, OneJobMoves
  <2>9. PjTypeOK'
    BY <2>4, <2>8 DEF PjInv, PjTypeOK
  <2>10. WorkSound'
    BY <2>4, <2>8, WorkKeeps
  <2>11. holder' \in Jobs => holder' \in Targets
    BY <1>0, <2>4 DEF PjInv
  <2> QED  BY <2>8, <2>9, <2>10, <2>11 DEF PjInv
<1> QED  BY <1>1, <1>2, <1>3

\* Every step of the jobs keeps the invariant.
LEMMA PjNextKeeps == PjInv /\ [PjNext]_pjVars => PjInv'
<1> SUFFICES ASSUME PjInv, [PjNext]_pjVars
             PROVE  PjInv'
  OBVIOUS
<1>1. CASE \E j \in Jobs, e, ok \in BOOLEAN : Submit(j, e, ok)
  BY <1>1, SubmitKeeps
<1>2. CASE (\E t \in Threads : Write(t)) \/ \E j \in Jobs, st \in States : PsijSees(j, st)
  BY <1>2, ThreadsKeep
<1>3. CASE \E j \in Jobs : Cancel(j)
  BY <1>3, CancelKeeps
<1>4. CASE CallsBack \/ PollWakes \/ PollEnds \/ \E j \in Jobs : PollLooks(j)
  BY <1>4, LooksKeep
<1>5. CASE CancelAsks \/ GraceOver \/ \E a \in {"queued", "run", "over", "unknown"} : CancelPolls(a)
  BY <1>5, CancelStepsKeep
<1>6. CASE \/ CloseJobs \/ OtherLeaves
           \/ \E j \in Jobs : JobRuns(j) \/ JobEnds(j)
           \/ \E who \in Jobs \cup {"late"} : Connects(who)
  BY <1>6, WorldKeeps
<1>7. CASE UNCHANGED pjVars
  <2>1. UNCHANGED <<job, writer, calling, poll, jobsLeft, cancel, holder, open>>
    BY <1>7 DEF pjVars
  <2>2. PjTypeOK' /\ UntoldIsPolled' /\ JobsGrow /\ \A j \in Jobs : JobSound(j)'
    BY <2>1 DEF PjInv, PjTypeOK, UntoldIsPolled, JobsGrow, Ours, JobSound
  <2>3. WorkSound'
    BY <2>1, <2>2, WorkKeeps
  <2> QED  BY <2>1, <2>2, <2>3 DEF PjInv
<1> QED  BY <1>1, <1>2, <1>3, <1>4, <1>5, <1>6, <1>7 DEF PjNext

\* The session starts without jobs.
LEMMA PjInitSound == PjInit => PjInv
<1> SUFFICES ASSUME PjInit
             PROVE  PjInv
  OBVIOUS
<1>1. UnknownTolerance \in Nat \ {0} /\ Jobs \cap {"none", "other", "late"} = {}
  BY PsijTolerance
<1>2. job \in [Jobs -> JobRec]
  <2>1. [at |-> "none", st |-> "NEW", known |-> "none", kind |-> "plain",
         want |-> FALSE, told |-> {}, reply |-> "none"] \in JobRec
    BY DEF JobRec, States, Final, Kinds
  <2> QED  BY <2>1 DEF PjInit
<1>3. cancel \in [job: Jobs \cup {"none"}, pc: {"idle", "active", "wait"}, seen: BOOLEAN,
                  unknown: 0..UnknownTolerance]
      /\ cancel.pc = "idle" /\ cancel.unknown < UnknownTolerance
  BY <1>1 DEF PjInit, NoCancel
<1>4. PjTypeOK
  BY <1>2, <1>3 DEF PjInit, PjTypeOK, Threads
<1>5. Ours = {}
  BY DEF PjInit, Ours
<1>6. UntoldIsPolled /\ WorkSound
  BY <1>3, <1>5 DEF PjInit, UntoldIsPolled, WorkSound
<1>7. \A j \in Jobs : JobSound(j)
  BY DEF PjInit, JobSound, Final
<1> QED  BY <1>1, <1>4, <1>6, <1>7 DEF PjInit, PjInv

\* What has not been told is polled, and a graceful end is an end: for any
\* number of jobs, whatever the two threads write over each other.
THEOREM JobsAreSound == PjSpec => [](PjTypeOK /\ UntoldIsPolled /\ GracefulHasEnded)
<1>1. PjInv => PjTypeOK /\ UntoldIsPolled /\ GracefulHasEnded
  BY DEF PjInv, JobSound, GracefulHasEnded
<1> QED  BY <1>1, PjInitSound, PjNextKeeps, PTL DEF PjSpec

\* An endpoint that was there before a job is not stopped by the job's cancel.
THEOREM OthersGoOn ==
  ASSUME \A j, k \in Targets : j = k
  PROVE  PjSpec => NeverStopsOther
<1>1. PjInv /\ [PjNext]_pjVars
        => [cancel'.pc = "wait" /\ cancel.pc = "active" => holder \in {cancel.job, "late"}]_pjVars
  <2> SUFFICES ASSUME PjInv, PjNext, cancel'.pc = "wait", cancel.pc = "active"
               PROVE  holder \in {cancel.job, "late"}
    OBVIOUS
  <2>1. cancel' # cancel /\ cancel' # NoCancel
    BY DEF NoCancel
  <2>2. cancel.job \in Targets /\ cancel.job \in Jobs /\ job[cancel.job].kind = "owned"
    BY PsijTolerance DEF PjInv, WorkSound
  <2>3. CancelAsks
    <3>1. ~GraceOver /\ ~(\E a \in {"queued", "run", "over", "unknown"} : CancelPolls(a))
      BY DEF GraceOver, CancelPolls
    <3>2. ASSUME NEW j \in Jobs
          PROVE  ~Cancel(j)
      BY DEF Cancel, NoCancel
    <3> QED  BY <2>1, <3>1, <3>2 DEF PjNext, Submit, PsijSees, PollLooks, JobRuns, JobEnds, Write,
             CallsBack, PollWakes, PollEnds, CloseJobs, OtherLeaves, Connects
  <2>4. holder # "none"
    BY <2>1, <2>3 DEF CancelAsks, Stops
  <2>5. holder # "other"
    BY <2>2 DEF PjInv, JobSound
  <2>6. holder \in {"late"} \cup Targets
    BY <2>4, <2>5 DEF PjInv, PjTypeOK
  <2> QED  BY <2>2, <2>6
<1>2. PjSpec => []PjInv
  BY PjInitSound, PjNextKeeps, PTL DEF PjSpec
<1>4. PjSpec => [][cancel'.pc = "wait" /\ cancel.pc = "active" => holder \in {cancel.job, "late"}]_pjVars
  BY <1>1, <1>2, PTL DEF PjSpec
<1> QED  BY <1>4 DEF NeverStopsOther

-----------------------------------------------------------------------------
(***************************************************************************)
(* Tunnels for jobs of the psij plugin (Psij).                             *)
(***************************************************************************)

KidRec == [at: JobState, kid: {"none", "asked", "up", "astray"}, reason: BOOLEAN, torn: BOOLEAN]

\* The watch is about the latest job; a file, and a job not yet over, belong to
\* it or to a job that was still there when it was submitted.
TunnelSound ==
  /\ watch.job = tSubs
  /\ watch.pc # "done" => watch.job # None
  /\ watch.pc = "spawn" => ssh = "none" /\ watch.mode = "reverse"
  /\ watch.tries < MaxSpawn
  /\ watch.ans = "over" => watch.job # None /\ tjob[watch.job].at = "over"
  /\ req \in {None, watch.job} \cup there
  /\ \A j \in TJobs : /\ tjob[j].at # "none" => j <= tSubs
                      /\ tjob[j].at \in {"queued", "run"} => j = watch.job \/ j \in there

PtInv == PtTypeOK /\ SshIsWatched /\ NeverStale /\ GivenUpIsReleased /\ TunnelSound

\* What is known of a job is not forgotten, and no job comes back.
TunnelsGoOn ==
  /\ tjob' \in [TJobs -> KidRec]
  /\ \A k \in TJobs : /\ tjob'[k].at # "none" => tjob[k].at # "none"
                      /\ tjob'[k].at \in {"queued", "run"} => tjob[k].at \in {"queued", "run"}
                      /\ tjob[k].at = "over" => tjob'[k].at = "over"
                      /\ tjob[k].reason => tjob'[k].reason
                      /\ tjob[k].torn => tjob'[k].torn

\* A step that changes one job.
LEMMA OneTunnelMoves ==
  ASSUME PtInv, NEW j \in TJobs, NEW m, m = tjob[j], NEW y \in KidRec, tjob' = [tjob EXCEPT ![j] = y],
         y.at = m.at \/ (m.at \in {"queued", "run"} /\ y.at \in {"run", "over"}),
         m.reason => y.reason, m.torn => y.torn
  PROVE  TunnelsGoOn /\ tjob'[j] = y
<1>1. tjob \in [TJobs -> KidRec]
  BY DEF PtInv, PtTypeOK, KidRec
<1>2. /\ tjob' \in [TJobs -> KidRec] /\ tjob'[j] = y
      /\ \A k \in TJobs : k # j => tjob'[k] = tjob[k]
  BY <1>1
<1>3. ASSUME NEW k \in TJobs
      PROVE  /\ tjob'[k].at # "none" => tjob[k].at # "none"
             /\ tjob'[k].at \in {"queued", "run"} => tjob[k].at \in {"queued", "run"}
             /\ tjob[k].at = "over" => tjob'[k].at = "over"
  BY <1>2
<1>4. ASSUME NEW k \in TJobs
      PROVE  (tjob[k].reason => tjob'[k].reason) /\ (tjob[k].torn => tjob'[k].torn)
  <2>1. CASE k = j
    BY <1>2, <2>1
  <2>2. CASE k # j
    <3>1. tjob'[k] = tjob[k]
      BY <1>2, <2>2
    <3> QED  BY <3>1
  <2> QED  BY <2>1, <2>2
<1> QED  BY <1>2, <1>3, <1>4 DEF TunnelsGoOn

\* No job changes.
LEMMA SameTunnels == PtInv /\ UNCHANGED tjob => TunnelsGoOn
<1> SUFFICES ASSUME PtInv, tjob' = tjob
             PROVE  TunnelsGoOn
  OBVIOUS
<1>1. tjob' \in [TJobs -> KidRec]
  BY DEF PtInv, PtTypeOK, KidRec
<1> QED  BY <1>1 DEF TunnelsGoOn

\* What a step of the watcher, of a child or of the world must show of the watch
\* and of the files.
WatchHolds(w) ==
  /\ w \in WatchRec /\ w.job = watch.job /\ w.mode = watch.mode /\ w.tries < MaxSpawn
  /\ w.pc # "done" => watch.pc # "done"
  /\ w.pc = "spawn" => ssh' = "none" /\ w.mode = "reverse"
  /\ w.ans = "over" => w.job # None /\ tjob[w.job].at = "over"
FilesHold(w) ==
  /\ req' \in {None, w.job} \cup there /\ port' \in {None, w.job} \cup there
  /\ ssh' \in {"none", "up", "dead"}
  /\ ssh' # "none" => w.pc \in {"look", "judge", "guard"} /\ w.mode = "reverse"
  /\ (ssh' # "none" \/ w.pc = "spawn") => w.target \in {w.job} \cup there
Released(w) ==
  (w.pc = "done" /\ w.mode = "reverse" /\ w.job # None) =>
     \/ tjob'[w.job].at = "over" \/ tjob'[w.job].reason \/ tjob'[w.job].torn
     \/ w.unknown = Tolerance

\* A step that does so keeps the invariant.
LEMMA TunnelStepKeeps ==
  ASSUME PtInv, TunnelsGoOn, UNCHANGED <<tSubs, there>>,
         NEW w, watch' = w, WatchHolds(w), FilesHold(w), Released(w)
  PROVE  PtInv'
<1>0. TJobs \subseteq Nat \ {0} /\ None = 0
  BY TunnelBounds DEF None
<1>1. w \in WatchRec /\ there' \subseteq TJobs /\ tSubs' \in TJobs \cup {0} /\ w.job \in TJobs \cup {0}
  BY <1>0 DEF WatchHolds, PtInv, PtTypeOK, WatchRec
<1>2. PtTypeOK'
  <2>1. tjob' \in [TJobs -> [at: JobState, kid: {"none", "asked", "up", "astray"},
                             reason: BOOLEAN, torn: BOOLEAN]]
    BY DEF TunnelsGoOn, KidRec
  <2>2. req' \in TJobs \cup {None} /\ port' \in TJobs \cup {None} /\ ssh' \in {"none", "up", "dead"}
    BY <1>0, <1>1 DEF FilesHold, PtInv, PtTypeOK
  <2> QED  BY <1>1, <2>1, <2>2 DEF PtTypeOK
<1>3. SshIsWatched' /\ NeverStale'
  BY DEF FilesHold, SshIsWatched, NeverStale
<1>4. GivenUpIsReleased'
  BY DEF Released, GivenUpIsReleased
<1>5. TunnelSound'
  <2>1. w.job = tSubs' /\ (w.pc # "done" => w.job # None) /\ w.tries < MaxSpawn
    BY DEF WatchHolds, PtInv, TunnelSound
  <2>2. (w.pc = "spawn" => ssh' = "none" /\ w.mode = "reverse") /\ req' \in {None, w.job} \cup there'
    BY DEF WatchHolds, FilesHold
  <2>3. w.ans = "over" => w.job # None /\ tjob'[w.job].at = "over"
    BY <1>0, <1>1 DEF WatchHolds, TunnelsGoOn
  <2>4. ASSUME NEW j \in TJobs
        PROVE  /\ tjob'[j].at # "none" => j <= tSubs'
               /\ tjob'[j].at \in {"queued", "run"} => j = w.job \/ j \in there'
    BY DEF TunnelsGoOn, WatchHolds, PtInv, TunnelSound
  <2> QED  BY <2>1, <2>2, <2>3, <2>4 DEF TunnelSound
<1> QED  BY <1>2, <1>3, <1>4, <1>5 DEF PtInv

\* The watcher's record, as a constant.
LEMMA WatchIsRecord == PtInv => \E m \in WatchRec : m = watch
  BY DEF PtInv, PtTypeOK

\* submit_tunneled.
LEMMA SubmitTunneledKeeps ==
  ASSUME PtInv, NEW j \in TJobs, NEW mode \in {"forward", "reverse"}, SubmitTunneled(j, mode)
  PROVE  PtInv'
<1>0. /\ TJobs \subseteq Nat \ {0} /\ None = 0 /\ Tolerance \in Nat \ {0} /\ MaxSpawn \in Nat \ {0}
      /\ tjob \in [TJobs -> KidRec] /\ tSubs \in Nat
  BY TunnelBounds DEF None, PtInv, PtTypeOK, KidRec
<1>1. /\ j = tSubs + 1 /\ watch.pc = "done" /\ req' = None /\ port' = None /\ tSubs' = j
      /\ tjob' = [tjob EXCEPT ![j].at = "queued"] /\ ssh' = ssh /\ ssh = "none"
      /\ there' = {k \in TJobs : k < j /\ tjob[k].at \in {"queued", "run"}}
  BY DEF SubmitTunneled, Clear, PtInv, SshIsWatched
<1>2. PICK w : w = [NoWatch EXCEPT !.job = j, !.mode = mode, !.pc = "look"]
  OBVIOUS
<1>3. watch' = w
  BY <1>2 DEF SubmitTunneled
<1>4. 0 \in 0..Tolerance /\ 0 \in 0..MaxSpawn /\ 0 < MaxSpawn
  BY <1>0
<1>5. /\ w \in WatchRec /\ w.job = j /\ w.pc = "look" /\ w.ans = "none" /\ w.tries < MaxSpawn
      /\ w.job # None
  BY <1>0, <1>2, <1>4 DEF WatchRec, JobState, NoWatch
<1>6. PICK m \in KidRec : m = tjob[j]
  BY <1>0
<1>7. PICK y : y = [m EXCEPT !.at = "queued"]
  OBVIOUS
<1>8. y \in KidRec /\ y.at = "queued"
  BY <1>7 DEF KidRec, JobState
<1>9. tjob' = [tjob EXCEPT ![j] = y]
  BY <1>1, <1>6, <1>7
<1>10. /\ tjob' \in [TJobs -> KidRec]
       /\ \A k \in TJobs : k # j => tjob'[k] = tjob[k]
  BY <1>0, <1>8, <1>9
<1>11. PtTypeOK'
  BY <1>0, <1>1, <1>3, <1>5, <1>10 DEF PtTypeOK, KidRec
<1>12. SshIsWatched' /\ NeverStale' /\ GivenUpIsReleased'
  BY <1>1, <1>3, <1>5 DEF SshIsWatched, NeverStale, GivenUpIsReleased
<1>13. TunnelSound'
  <2>1. ASSUME NEW k \in TJobs
        PROVE  /\ tjob'[k].at # "none" => k <= j
               /\ tjob'[k].at \in {"queued", "run"} => k = j \/ k \in there'
    <3>1. CASE k = j
      BY <1>0, <3>1
    <3>2. CASE k # j
      <4>1. tjob'[k] = tjob[k] /\ (tjob[k].at # "none" => k <= tSubs)
        BY <1>10, <3>2 DEF PtInv, TunnelSound
      <4>2. tjob[k].at \in {"queued", "run"} => tjob[k].at # "none"
        OBVIOUS
      <4>3. k <= tSubs => k < j
        BY <1>0, <1>1
      <4> QED  BY <1>0, <1>1, <4>1, <4>2, <4>3
    <3> QED  BY <3>1, <3>2
  <2> QED  BY <1>1, <1>3, <1>5, <2>1 DEF TunnelSound
<1> QED  BY <1>11, <1>12, <1>13 DEF PtInv

\* _fail_tunnel, as the rest of a step of the watcher.
LEMMA FailTunnelKeeps ==
  ASSUME PtInv, FailTunnel, watch.pc # "done", UNCHANGED <<tSubs, there>>
  PROVE  PtInv'
<1>0. TJobs \subseteq Nat \ {0} /\ None = 0 /\ tjob \in [TJobs -> KidRec]
  BY TunnelBounds DEF None, PtInv, PtTypeOK, KidRec
<1>1. PICK m \in WatchRec : m = watch
  BY WatchIsRecord
<1>2. PICK w : w = [m EXCEPT !.pc = "done"]
  OBVIOUS
<1>3. /\ w \in WatchRec /\ w.job = m.job /\ w.mode = m.mode /\ w.pc = "done" /\ w.ans = m.ans
      /\ w.tries = m.tries /\ w.unknown = m.unknown /\ w.target = m.target
  BY <1>2 DEF WatchRec
<1>4. watch' = w /\ req' = None /\ port' = None /\ ssh' = "none"
  BY <1>1, <1>2 DEF FailTunnel, Done
<1>5. PICK j \in TJobs : j = m.job
  BY <1>0, <1>1 DEF PtInv, TunnelSound, WatchRec
<1>6. PICK k \in KidRec : k = tjob[j]
  BY <1>0, <1>5
<1>7. PICK y : y = [k EXCEPT !.reason = TRUE]
  OBVIOUS
<1>8. y \in KidRec /\ y.at = k.at /\ y.reason /\ y.torn = k.torn
  BY <1>7 DEF KidRec
<1>9. tjob' = [tjob EXCEPT ![j] = y]
  BY <1>1, <1>5, <1>6, <1>7 DEF FailTunnel
<1>10. y \in KidRec /\ y.at = k.at /\ (k.reason => y.reason) /\ (k.torn => y.torn)
  BY <1>8
<1>11. TunnelsGoOn /\ tjob'[j] = y
  BY <1>6, <1>9, <1>10, OneTunnelMoves
<1>12. WatchHolds(w)
  BY <1>1, <1>3 DEF WatchHolds, PtInv, TunnelSound
<1>13. FilesHold(w)
  BY <1>3, <1>4 DEF FilesHold
<1>14. Released(w)
  BY <1>3, <1>5, <1>8, <1>11 DEF Released
<1> QED  BY <1>4, <1>11, <1>12, <1>13, <1>14, TunnelStepKeeps

\* A step of a child or of the world: the watch stays.
LEMMA WorldStepKeeps ==
  ASSUME PtInv, TunnelsGoOn, UNCHANGED <<tSubs, there, watch>>,
         ssh' = ssh \/ (ssh = "up" /\ ssh' = "dead"),
         req' \in {req, watch.job} \cup there, port' \in {port, watch.job} \cup there
  PROVE  PtInv'
<1>1. PICK m \in WatchRec : m = watch
  BY WatchIsRecord
<1>2. WatchHolds(m)
  <2>1. m.tries < MaxSpawn /\ (m.ans = "over" => m.job # None /\ tjob[m.job].at = "over")
    BY <1>1 DEF PtInv, TunnelSound
  <2>2. m.pc = "spawn" => ssh' = "none" /\ m.mode = "reverse"
    BY <1>1 DEF PtInv, TunnelSound
  <2> QED  BY <1>1, <2>1, <2>2 DEF WatchHolds
<1>3. FilesHold(m)
  <2>1. req' \in {None, m.job} \cup there /\ port' \in {None, m.job} \cup there
    BY <1>1 DEF PtInv, TunnelSound, NeverStale
  <2>2. ssh' \in {"none", "up", "dead"} /\ (ssh' # "none" => ssh # "none")
    BY DEF PtInv, PtTypeOK
  <2> QED  BY <1>1, <2>1, <2>2 DEF FilesHold, PtInv, SshIsWatched, NeverStale
<1>4. Released(m)
  <2>1. CASE m.pc = "done" /\ m.mode = "reverse" /\ m.job # None
    <3>1. m.job \in TJobs
      BY <1>1, <2>1 DEF WatchRec
    <3>2. tjob[m.job].at = "over" \/ tjob[m.job].reason \/ tjob[m.job].torn \/ m.unknown = Tolerance
      BY <1>1, <2>1 DEF PtInv, GivenUpIsReleased
    <3>3. /\ tjob[m.job].at = "over" => tjob'[m.job].at = "over"
          /\ tjob[m.job].reason => tjob'[m.job].reason
          /\ tjob[m.job].torn => tjob'[m.job].torn
      BY <3>1 DEF TunnelsGoOn
    <3> QED  BY <3>2, <3>3 DEF Released
  <2>2. CASE ~(m.pc = "done" /\ m.mode = "reverse" /\ m.job # None)
    BY <2>2 DEF Released
  <2> QED  BY <2>1, <2>2
<1>5. watch' = m
  BY <1>1
<1> QED  BY <1>2, <1>3, <1>4, <1>5, TunnelStepKeeps

\* The children, the jobs and ssh.
LEMMA ChildrenKeep ==
  ASSUME PtInv,
         \/ \E j \in TJobs : KidAsks(j) \/ KidReads(j) \/ KidTunnels(j) \/ JobMoves(j) \/ JobCancelled(j)
         \/ SshDies
  PROVE  PtInv'
<1>0. tjob \in [TJobs -> KidRec]
  BY DEF PtInv, PtTypeOK, KidRec
<1>1. CASE SshDies
  BY <1>1, SameTunnels, WorldStepKeeps DEF SshDies
<1>2. ASSUME NEW j \in TJobs, KidAsks(j) \/ KidReads(j) \/ KidTunnels(j) \/ JobMoves(j) \/ JobCancelled(j)
      PROVE  PtInv'
  <2>1. PICK m \in KidRec : m = tjob[j]
    BY <1>0
  <2>2. m.at \in {"queued", "run"} => j \in {watch.job} \cup there
    BY <2>1 DEF PtInv, TunnelSound
  <2>3. CASE \E kid \in {"asked", "up", "astray"} :
               /\ m.at = "run" /\ tjob' = [tjob EXCEPT ![j].kid = kid]
               /\ req' \in {req, j} /\ port' \in {port, j} /\ UNCHANGED <<tSubs, there, watch, ssh>>
    <3>1. PICK kid \in {"asked", "up", "astray"} : tjob' = [tjob EXCEPT ![j].kid = kid]
      BY <2>3
    <3>2. PICK y : y = [m EXCEPT !.kid = kid]
      OBVIOUS
    <3>3. y \in KidRec /\ y.at = m.at /\ y.reason = m.reason /\ y.torn = m.torn
      BY <3>2 DEF KidRec
    <3>4. tjob' = [tjob EXCEPT ![j] = y]
      BY <2>1, <3>1, <3>2
    <3>5. (m.reason => y.reason) /\ (m.torn => y.torn)
      BY <3>3
    <3>6. TunnelsGoOn
      BY <2>1, <3>3, <3>4, <3>5, OneTunnelMoves
    <3>7. req' \in {req, watch.job} \cup there /\ port' \in {port, watch.job} \cup there
      BY <2>2, <2>3
    <3> QED  BY <2>3, <3>6, <3>7, WorldStepKeeps
  <2>4. CASE \E at \in {"run", "over"} :
               /\ m.at \in {"queued", "run"} /\ tjob' = [tjob EXCEPT ![j].at = at]
               /\ UNCHANGED <<tSubs, there, watch, ssh, req, port>>
    <3>1. PICK at \in {"run", "over"} : tjob' = [tjob EXCEPT ![j].at = at]
      BY <2>4
    <3>2. PICK y : y = [m EXCEPT !.at = at]
      OBVIOUS
    <3>3. y \in KidRec /\ y.at = at /\ y.reason = m.reason /\ y.torn = m.torn
      BY <3>2 DEF KidRec, JobState
    <3>4. tjob' = [tjob EXCEPT ![j] = y]
      BY <2>1, <3>1, <3>2
    <3>5. (m.reason => y.reason) /\ (m.torn => y.torn) /\ m.at \in {"queued", "run"}
      BY <2>4, <3>3
    <3>6. TunnelsGoOn
      BY <2>1, <3>3, <3>4, <3>5, OneTunnelMoves
    <3> QED  BY <2>4, <3>6, WorldStepKeeps
  <2>5. CASE KidAsks(j)
    BY <2>1, <2>3, <2>5 DEF KidAsks
  <2>6. CASE KidReads(j)
    BY <2>1, <2>3, <2>6 DEF KidReads
  <2>7. CASE KidTunnels(j)
    BY <2>1, <2>3, <2>7 DEF KidTunnels
  <2>8. CASE JobMoves(j)
    <3>1. tjob' = [tjob EXCEPT ![j].at = IF m.at = "queued" /\ ~m.reason THEN "run" ELSE "over"]
      BY <2>1, <2>8 DEF JobMoves
    <3>2. PICK at \in {"run", "over"} : at = IF m.at = "queued" /\ ~m.reason THEN "run" ELSE "over"
      OBVIOUS
    <3> QED  BY <2>1, <2>4, <2>8, <3>1, <3>2 DEF JobMoves
  <2>9. CASE JobCancelled(j)
    BY <2>1, <2>4, <2>9 DEF JobCancelled
  <2> QED  BY <1>2, <2>5, <2>6, <2>7, <2>8, <2>9
<1> QED  BY <1>1, <1>2

\* A step of the watcher that leaves the files, ssh and the jobs alone.
LEMMA WatcherStepKeeps ==
  ASSUME PtInv, UNCHANGED <<tjob, tSubs, req, port, ssh, there>>,
         NEW m \in WatchRec, m = watch, m.pc # "done", NEW w \in WatchRec, watch' = w,
         w.job = m.job, w.mode = m.mode, w.tries < MaxSpawn,
         w.pc = "spawn" => ssh = "none" /\ m.mode = "reverse",
         w.pc \in {"look", "judge", "guard"} \/ ssh = "none",
         w.target = m.target \/ (w.target = req /\ req # None /\ ssh = "none"),
         w.pc = "spawn" => m.pc = "spawn" \/ (w.target = req /\ req # None),
         w.ans = m.ans \/ (w.ans = "over" => tjob[m.job].at = "over"),
         w.pc = "done" /\ m.mode = "reverse" => tjob[m.job].at = "over" \/ w.unknown = Tolerance
  PROVE  PtInv'
<1>0. m.job # None
  BY DEF PtInv, TunnelSound
<1>1. WatchHolds(w)
  <2>1. w.ans = "over" => w.job # None /\ tjob[w.job].at = "over"
    BY <1>0 DEF PtInv, TunnelSound
  <2> QED  BY <2>1 DEF WatchHolds
<1>2. FilesHold(w)
  <2>1. req' \in {None, w.job} \cup there /\ port' \in {None, w.job} \cup there /\ ssh' \in {"none", "up", "dead"}
    BY DEF PtInv, PtTypeOK, TunnelSound, NeverStale
  <2>2. ssh' # "none" => w.pc \in {"look", "judge", "guard"} /\ w.mode = "reverse"
    BY DEF PtInv, SshIsWatched
  <2>3. (ssh' # "none" \/ w.pc = "spawn") => w.target \in {w.job} \cup there
    BY DEF PtInv, NeverStale, TunnelSound
  <2> QED  BY <2>1, <2>2, <2>3 DEF FilesHold
<1>3. Released(w)
  BY DEF Released
<1>4. TunnelsGoOn
  BY SameTunnels
<1> QED  BY <1>1, <1>2, <1>3, <1>4, TunnelStepKeeps

\* The watcher looks for the port and asks the batch system.
LEMMA LooksKeepWatch ==
  ASSUME PtInv, SeesPort \/ \E a \in JobState \cup {"unknown"} : Asks(a)
  PROVE  PtInv'
<1>1. PICK m \in WatchRec : m = watch
  BY WatchIsRecord
<1>2. m.tries < MaxSpawn
  BY <1>1 DEF PtInv, TunnelSound
<1>3. CASE SeesPort
  <2>1. PICK w : w = [m EXCEPT !.pc = IF m.mode = "forward" THEN "done" ELSE "guard"]
    OBVIOUS
  <2>2. /\ w \in WatchRec /\ w.job = m.job /\ w.mode = m.mode /\ w.ans = m.ans /\ w.tries = m.tries
        /\ w.target = m.target /\ w.unknown = m.unknown
        /\ w.pc = IF m.mode = "forward" THEN "done" ELSE "guard"
    BY <2>1 DEF WatchRec
  <2>3. watch' = w /\ m.pc = "look" /\ UNCHANGED <<tjob, tSubs, req, port, ssh, there>>
    BY <1>1, <1>3, <2>1 DEF SeesPort
  <2>4. m.mode \in {"forward", "reverse"} /\ (ssh # "none" => m.mode = "reverse")
    BY <1>1 DEF WatchRec, PtInv, SshIsWatched
  <2> QED  BY <1>1, <1>2, <2>2, <2>3, <2>4, WatcherStepKeeps
<1>4. ASSUME NEW a \in JobState \cup {"unknown"}, Asks(a)
      PROVE  PtInv'
  <2>1. /\ m.pc = "look" /\ a \in {tjob[m.job].at, "unknown"}
        /\ UNCHANGED <<tjob, tSubs, req, port, ssh, there>>
    BY <1>1, <1>4 DEF Asks
  <2>2. CASE m.mode = "reverse" /\ ssh = "none" /\ req # None
    <3>1. PICK w : w = [m EXCEPT !.ans = a, !.pc = "spawn", !.target = req]
      OBVIOUS
    <3>2. /\ w.job = m.job /\ w.mode = m.mode /\ w.ans = a /\ w.tries = m.tries
          /\ w.target = req /\ w.unknown = m.unknown /\ w.pc = "spawn"
      BY <3>1 DEF WatchRec
    <3>3. w \in WatchRec
      <4>1. req \in TJobs \cup {None}
        BY DEF PtInv, PtTypeOK
      <4> QED  BY <3>1, <4>1 DEF WatchRec
    <3>4. watch' = w
      BY <1>1, <1>4, <2>2, <3>1 DEF Asks
    <3> QED  BY <1>1, <1>2, <2>1, <2>2, <3>2, <3>3, <3>4, WatcherStepKeeps
  <2>3. CASE ~(m.mode = "reverse" /\ ssh = "none" /\ req # None)
    <3>1. PICK w : w = [m EXCEPT !.ans = a, !.pc = "judge"]
      OBVIOUS
    <3>2. /\ w \in WatchRec /\ w.job = m.job /\ w.mode = m.mode /\ w.ans = a /\ w.tries = m.tries
          /\ w.target = m.target /\ w.unknown = m.unknown /\ w.pc = "judge"
      BY <3>1 DEF WatchRec
    <3>3. watch' = w
      BY <1>1, <1>4, <2>3, <3>1 DEF Asks
    <3> QED  BY <1>1, <1>2, <2>1, <3>2, <3>3, WatcherStepKeeps
  <2> QED  BY <2>2, <2>3
<1> QED  BY <1>3, <1>4

\* _spawn_reverse_ssh.
LEMMA SpawnsKeep ==
  ASSUME PtInv, Spawns \/ BadRequest \/ \E a \in JobState \cup {"unknown"} : SpawnFails(a)
  PROVE  PtInv'
<1>0. MaxSpawn \in Nat \ {0}
  BY TunnelBounds
<1>1. PICK m \in WatchRec : m = watch
  BY WatchIsRecord
<1>2. m.tries \in Nat /\ m.tries < MaxSpawn /\ m.pc = "spawn" /\ m.mode = "reverse" /\ ssh = "none"
  BY <1>0, <1>1 DEF PtInv, TunnelSound, WatchRec, Spawns, BadRequest, SpawnFails
<1>3. CASE FailTunnel /\ UNCHANGED <<tSubs, there>>
  BY <1>1, <1>2, <1>3, FailTunnelKeeps
<1>4. CASE Spawns
  <2>1. PICK w : w = [m EXCEPT !.pc = "judge"]
    OBVIOUS
  <2>2. /\ w \in WatchRec /\ w.job = m.job /\ w.mode = m.mode /\ w.ans = m.ans /\ w.tries = m.tries
        /\ w.target = m.target /\ w.pc = "judge"
    BY <2>1 DEF WatchRec
  <2>3. /\ watch' = w /\ ssh' = "up" /\ port' = m.target /\ UNCHANGED <<tjob, tSubs, req, there>>
    BY <1>1, <1>4, <2>1 DEF Spawns
  <2>4. m.target \in {m.job} \cup there /\ req \in {None, m.job} \cup there
    BY <1>1, <1>2 DEF PtInv, NeverStale, TunnelSound
  <2>5. WatchHolds(w)
    BY <1>1, <1>2, <2>2 DEF WatchHolds, PtInv, TunnelSound
  <2>6. FilesHold(w)
    BY <1>2, <2>2, <2>3, <2>4 DEF FilesHold
  <2>7. Released(w)
    BY <2>2 DEF Released
  <2> QED  BY <2>3, <2>5, <2>6, <2>7, SameTunnels, TunnelStepKeeps
<1>5. CASE /\ watch' = [watch EXCEPT !.tries = @ + 1] /\ m.tries + 1 # MaxSpawn
           /\ UNCHANGED <<tjob, tSubs, req, port, ssh, there>>
  <2>1. PICK w : w = [m EXCEPT !.tries = m.tries + 1]
    OBVIOUS
  <2>2. m.tries + 1 \in 0..MaxSpawn /\ m.tries + 1 < MaxSpawn
    BY <1>0, <1>2, <1>5
  <2>3. /\ w \in WatchRec /\ w.job = m.job /\ w.mode = m.mode /\ w.ans = m.ans /\ w.tries = m.tries + 1
        /\ w.target = m.target /\ w.pc = m.pc
    BY <2>1, <2>2 DEF WatchRec
  <2>4. watch' = w
    BY <1>1, <1>5, <2>1
  <2>5. w.pc = "spawn" /\ w.pc # "done" /\ w.tries < MaxSpawn /\ m.pc # "done"
    BY <1>2, <2>2, <2>3
  <2> QED  BY <1>1, <1>2, <1>5, <2>3, <2>4, <2>5, WatcherStepKeeps
<1>6. CASE \E a \in JobState \cup {"unknown"} : SpawnFails(a)
  BY <1>1, <1>3, <1>5, <1>6 DEF SpawnFails
<1>7. CASE BadRequest
  BY <1>3, <1>7 DEF BadRequest
<1> QED  BY <1>4, <1>6, <1>7

\* The round is judged, or its time is up.
LEMMA JudgesKeep ==
  ASSUME PtInv, WatchTimesOut \/ \E c \in BOOLEAN : Judges(c)
  PROVE  PtInv'
<1>0. Tolerance \in Nat \ {0}
  BY TunnelBounds
<1>1. PICK m \in WatchRec : m = watch
  BY WatchIsRecord
<1>2. m.tries < MaxSpawn /\ m.pc \in {"look", "judge"} /\ (m.ans = "over" => tjob[m.job].at = "over")
  BY <1>1 DEF PtInv, TunnelSound, WatchTimesOut, Judges
<1>3. m.unknown \in 0..Tolerance /\ m.mode \in {"forward", "reverse"} /\ m.seen \in BOOLEAN
  BY DEF WatchRec
<1>4. (ssh # "none" => m.mode = "reverse") /\ m.pc # "done"
  BY <1>1, <1>2 DEF PtInv, SshIsWatched
<1>5. CASE FailTunnel /\ UNCHANGED <<tSubs, there>>
  BY <1>1, <1>4, <1>5, FailTunnelKeeps
<1>6. CASE /\ watch' = Done(watch) /\ UNCHANGED <<tjob, tSubs, req, port, ssh, there>>
           /\ m.mode = "reverse" => m.ans = "over" /\ ssh = "none"
  <2>1. PICK w : w = [m EXCEPT !.pc = "done"]
    OBVIOUS
  <2>2. /\ w \in WatchRec /\ w.job = m.job /\ w.mode = m.mode /\ w.ans = m.ans /\ w.tries = m.tries
        /\ w.target = m.target /\ w.pc = "done"
    BY <2>1 DEF WatchRec
  <2>3. watch' = w
    BY <1>1, <1>6, <2>1 DEF Done
  <2>4. ssh = "none"
    BY <1>4, <1>6
  <2> QED  BY <1>1, <1>2, <1>4, <1>6, <2>2, <2>3, <2>4, WatcherStepKeeps
<1>7. CASE WatchTimesOut
  BY <1>1, <1>5, <1>6, <1>7 DEF WatchTimesOut, TimedOut
<1>8. ASSUME NEW c \in BOOLEAN, Judges(c)
      PROVE  PtInv'
  <2>1. PICK n : n = IF m.ans = "unknown" THEN IF m.unknown = Tolerance THEN Tolerance
                                                ELSE m.unknown + 1 ELSE 0
    OBVIOUS
  <2>2. PICK sn : sn = (m.seen \/ m.ans # "unknown")
    OBVIOUS
  <2>3. n \in 0..Tolerance
    BY <1>0, <1>3, <2>1
  <2>4. sn \in BOOLEAN
    BY <1>3, <2>2
  <2>5. CASE /\ watch' = [Done(watch) EXCEPT !.unknown = n] /\ n = Tolerance /\ ssh = "none"
             /\ UNCHANGED <<tjob, tSubs, req, port, ssh, there>>
    <3>1. PICK w : w = [m EXCEPT !.pc = "done", !.unknown = n]
      OBVIOUS
    <3>2. /\ w \in WatchRec /\ w.job = m.job /\ w.mode = m.mode /\ w.ans = m.ans /\ w.tries = m.tries
          /\ w.target = m.target /\ w.pc = "done" /\ w.unknown = n
      BY <2>3, <3>1 DEF WatchRec
    <3>3. watch' = w
      BY <1>1, <2>5, <3>1 DEF Done
    <3> QED  BY <1>1, <1>2, <1>4, <2>5, <3>2, <3>3, WatcherStepKeeps
  <2>6. CASE /\ watch' = [watch EXCEPT !.pc = "look", !.seen = sn, !.unknown = n]
             /\ UNCHANGED <<tjob, tSubs, req, port, ssh, there>>
    <3>1. PICK w : w = [m EXCEPT !.pc = "look", !.seen = sn, !.unknown = n]
      OBVIOUS
    <3>2. /\ w \in WatchRec /\ w.job = m.job /\ w.mode = m.mode /\ w.ans = m.ans /\ w.tries = m.tries
          /\ w.target = m.target /\ w.pc = "look" /\ w.unknown = n
      BY <2>3, <2>4, <3>1 DEF WatchRec
    <3>3. watch' = w
      BY <1>1, <2>6, <3>1
    <3> QED  BY <1>1, <1>2, <1>4, <2>6, <3>2, <3>3, WatcherStepKeeps
  <2>7. /\ UNCHANGED <<tSubs, there>>
        /\ \/ FailTunnel
           \/ /\ watch' = Done(watch) /\ UNCHANGED <<tjob, req, port, ssh>> /\ m.ans = "over"
              /\ ~(m.mode = "reverse" /\ ssh # "none")
           \/ watch' = [Done(watch) EXCEPT !.unknown = n] /\ n = Tolerance /\ ssh = "none"
              /\ UNCHANGED <<tjob, req, port, ssh>>
           \/ /\ watch' = [watch EXCEPT !.pc = "look", !.seen = sn, !.unknown = n]
              /\ UNCHANGED <<tjob, req, port, ssh>>
    BY <1>1, <1>8, <2>1, <2>2 DEF Judges
  <2> QED  BY <1>5, <1>6, <2>5, <2>6, <2>7
<1> QED  BY <1>7, <1>8

\* _await_reverse_teardown.
LEMMA GuardKeeps ==
  ASSUME PtInv, NEW a \in JobState \cup {"unknown"}, GuardEnds(a)
  PROVE  PtInv'
<1>0. TJobs \subseteq Nat \ {0} /\ None = 0 /\ tjob \in [TJobs -> KidRec]
  BY TunnelBounds DEF None, PtInv, PtTypeOK, KidRec
<1>1. PICK m \in WatchRec : m = watch
  BY WatchIsRecord
<1>2. PICK w : w = [m EXCEPT !.pc = "done"]
  OBVIOUS
<1>3. /\ w \in WatchRec /\ w.job = m.job /\ w.mode = m.mode /\ w.pc = "done" /\ w.ans = m.ans
      /\ w.tries = m.tries
  BY <1>2 DEF WatchRec
<1>4. /\ watch' = w /\ req' = None /\ port' = None /\ ssh' = "none" /\ m.pc = "guard"
      /\ UNCHANGED <<tSubs, there>>
  BY <1>1, <1>2 DEF GuardEnds, TunnelTorn, Done
<1>5. PICK j \in TJobs : j = m.job
  BY <1>0, <1>1, <1>4 DEF PtInv, TunnelSound, WatchRec
<1>6. PICK k \in KidRec : k = tjob[j]
  BY <1>0, <1>5
<1>7. PICK y : y = [k EXCEPT !.torn = TRUE]
  OBVIOUS
<1>8. y \in KidRec /\ y.at = k.at /\ y.reason = k.reason /\ y.torn
  BY <1>7 DEF KidRec
<1>9. tjob' = [tjob EXCEPT ![j] = y]
  BY <1>1, <1>5, <1>6, <1>7 DEF GuardEnds
<1>10. y \in KidRec /\ y.at = k.at /\ (k.reason => y.reason) /\ (k.torn => y.torn)
  BY <1>8
<1>11. TunnelsGoOn /\ tjob'[j] = y
  BY <1>6, <1>9, <1>10, OneTunnelMoves
<1>12. WatchHolds(w)
  BY <1>1, <1>3, <1>4 DEF WatchHolds, PtInv, TunnelSound
<1>13. FilesHold(w)
  BY <1>3, <1>4 DEF FilesHold
<1>14. Released(w)
  BY <1>3, <1>5, <1>8, <1>11 DEF Released
<1> QED  BY <1>4, <1>11, <1>12, <1>13, <1>14, TunnelStepKeeps

\* Every step of the tunnels keeps the invariant.
LEMMA PtNextKeeps == PtInv /\ [PtNext]_ptVars => PtInv'
<1> SUFFICES ASSUME PtInv, [PtNext]_ptVars
             PROVE  PtInv'
  OBVIOUS
<1>1. CASE \E j \in TJobs : \E mode \in {"forward", "reverse"} : SubmitTunneled(j, mode)
  BY <1>1, SubmitTunneledKeeps
<1>2. CASE \/ \E j \in TJobs : KidAsks(j) \/ KidReads(j) \/ KidTunnels(j) \/ JobMoves(j) \/ JobCancelled(j)
           \/ SshDies
  BY <1>2, ChildrenKeep
<1>3. CASE SeesPort \/ \E a \in JobState \cup {"unknown"} : Asks(a)
  BY <1>3, LooksKeepWatch
<1>4. CASE Spawns \/ BadRequest \/ \E a \in JobState \cup {"unknown"} : SpawnFails(a)
  BY <1>4, SpawnsKeep
<1>5. CASE WatchTimesOut \/ \E c \in BOOLEAN : Judges(c)
  BY <1>5, JudgesKeep
<1>6. CASE \E a \in JobState \cup {"unknown"} : GuardEnds(a)
  BY <1>6, GuardKeeps
<1>7. CASE UNCHANGED ptVars
  BY <1>7, SameTunnels, WorldStepKeeps DEF ptVars
<1> QED  BY <1>1, <1>2, <1>3, <1>4, <1>5, <1>6, <1>7 DEF PtNext, WatchStep

\* A tunnel's ssh process always has a watcher, its files are never those of a
\* job that had ended, and an endpoint whose tunnel was given up is released
\* (submit_tunneled, _watch_reverse, tunnel.py).
THEOREM TunnelsAreSound == PtSpec => [](PtTypeOK /\ SshIsWatched /\ NeverStale /\ GivenUpIsReleased)
<1>1. PtInit => PtInv
  <2> SUFFICES ASSUME PtInit
               PROVE  PtInv
    OBVIOUS
  <2>0. Tolerance \in Nat \ {0} /\ MaxSpawn \in Nat \ {0} /\ None = 0
    BY TunnelBounds DEF None
  <2>1. 0 \in 0..Tolerance /\ 0 \in 0..MaxSpawn /\ 0 < MaxSpawn
    BY <2>0
  <2>2. /\ watch.job = None /\ watch.pc = "done" /\ watch.ans = "none" /\ watch.tries = 0
        /\ watch.mode = "forward"
    BY DEF PtInit, NoWatch
  <2>3. watch \in WatchRec
    BY <2>1 DEF PtInit, NoWatch, WatchRec, JobState
  <2>4. PtTypeOK
    BY <2>0, <2>3 DEF PtInit, PtTypeOK, JobState
  <2>5. SshIsWatched /\ NeverStale /\ GivenUpIsReleased
    BY <2>2 DEF PtInit, SshIsWatched, NeverStale, GivenUpIsReleased
  <2>6. TunnelSound
    BY <2>0, <2>1, <2>2 DEF PtInit, TunnelSound
  <2> QED  BY <2>4, <2>5, <2>6 DEF PtInv
<1>2. PtInv => PtTypeOK /\ SshIsWatched /\ NeverStale /\ GivenUpIsReleased
  BY DEF PtInv
<1> QED  BY <1>1, <1>2, PtNextKeeps, PTL DEF PtSpec

-----------------------------------------------------------------------------
(* The parts together, as the runs check them. *)

\* The host and its plugins' sessions: no session is used after its end, none is
\* open without an entry, and every plugin hears of every end once
\* (plugin_base, plugin_session_base, plugin_host_base).
THEOREM HostIsSound == PsSpec /\ HlSpec => []HostSound
<1>1. (PsTypeOK /\ TableIsOpen /\ EndedStaysEnded /\ GoneIsClosedApart)
      /\ (HlTypeOK /\ DeliveredToAll /\ LostToldOnce) => HostSound
  BY DEF HostSound
<1> QED  BY <1>1, SessionsAreSound, DeliveriesAreSound, PTL

\* Jobs and remote tasks: whatever was not told yet is polled, ends are told as
\* they were, and a tunnel is watched as long as its job runs (plugin_psij,
\* batch_system, plugin_globus, plugin_sfapi_instance).
THEOREM JobsAreWatched == PjSpec /\ PtSpec /\ SpSpec => []JobsWatched
<1>1. (PjTypeOK /\ UntoldIsPolled /\ GracefulHasEnded)
      /\ (PtTypeOK /\ SshIsWatched /\ NeverStale /\ GivenUpIsReleased)
      /\ (SpTypeOK /\ UntoldIsSwept) => JobsWatched
  BY DEF JobsWatched
<1> QED  BY <1>1, JobsAreSound, TunnelsAreSound, UntoldTasksAreSwept, PTL

\* What no step of a plugin does: expire a session that is in use, or stop the
\* job of somebody else (_sweep_once, terminate).  Targets bounds
\* which jobs of psij's are stopped at all: here, one job.
THEOREM PluginStepsHold ==
  ASSUME \A j, k \in Targets : j = k
  PROVE  PsSpec /\ PjSpec => PluginSteps
<1> QED  BY SessionsExpireIdle, OthersGoOn, PTL DEF PluginSteps
=============================================================================
