-------------------------- MODULE DispatcherProofs --------------------------
(***************************************************************************)
(* Proofs about the task dispatcher: tasks sent to one endpoint, the input *)
(* files of a task, the buffered reports and writes, the placement of      *)
(* tasks on members and pilots, and its record of tasks, pilots and        *)
(* claims; for every set of tasks, pilots, members and declarations and    *)
(* every bound.                                                            *)
(*                                                                         *)
(* Each part has an inductive invariant of its own: IndInv, EmInv, TiInv,  *)
(* TbInv and Good. IndInv has ClaimsSound for the queue, the claims and    *)
(* the capacity, LedgerLags for what is on disk, and what ties the         *)
(* executions under way to the tasks they serve. Good says in addition to  *)
(* what the runs check that a live pilot has what its member declares      *)
(* unless a removal is about to cancel it: that is why a task given back   *)
(* can still be served.                                                    *)
(***************************************************************************)
EXTENDS Dispatcher, ServiceProofs

(***************************************************************************)
(* Tasks sent to one endpoint (EndpointTasks).                             *)
(***************************************************************************)

EmRec == [pc : {"new", "client", "call", "taken", "ok", "refused", "failed", "cut"},
          id : EmIds \cup {EmNone}, to : EmEndpoints \cup {EmNone}]
Entries == [EmIds -> EmEndpoints \cup {EmNone}]

\* The task of a request is on its endpoint, or its event is on the way.
Remote(r) == <<r, "runs">> \in emRemote \/ <<r, "event">> \in emRemote

\* What is known of a request where it is: whether it named a task, whether its
\* task may be there, and, if nobody else uses the id, what the map holds.
RequestSound(r) ==
  /\ IF emReq[r].pc = "new" THEN emReq[r].id = EmNone
     ELSE emReq[r].id \in EmIds /\ emReq[r].to \in EmEndpoints
  /\ Remote(r) => emReq[r].pc \in {"taken", "ok", "failed", "cut"}
  /\ ~(<<r, "runs">> \in emRemote /\ <<r, "event">> \in emRemote)
  /\ OwnId(r) /\ emReq[r].pc \in {"client", "refused", "failed"} => emMap[emReq[r].id] = EmNone
  /\ OwnId(r) /\ (emReq[r].pc = "call" \/ (Remote(r) /\ emReq[r].pc # "failed"))
       => emMap[emReq[r].id] = emReq[r].to

\* An entry of the map was made by a request that got as far.
EntryKnown ==
  \A i \in EmIds : emMap[i] # EmNone =>
    \E r \in EmReqs : /\ emReq[r].pc \notin {"new", "client"}
                      /\ emReq[r].id = i /\ emReq[r].to = emMap[i]

\* What is cancelled has an id and an endpoint.
CancelTyped == emCancel # <<>> => emCancel \in EmIds \X EmEndpoints

EmInv == /\ EmTypeOK /\ emDisk = emMap /\ EntryKnown /\ CancelIsAddressed /\ CancelTyped
         /\ \A r \in EmReqs : RequestSound(r)

\* The properties follow.
LEMMA EmImplies ==
  ASSUME EmInv
  PROVE  EmTypeOK /\ UnderWayIsMapped /\ FailedIsForgotten /\ CancelIsAddressed
<1>1. UnderWayIsMapped
  <2> SUFFICES ASSUME NEW x \in emRemote, OwnId(x[1]), emReq[x[1]].pc \in {"taken", "ok", "cut"}
               PROVE  emMap[emReq[x[1]].id] = emReq[x[1]].to /\ emDisk = emMap
    BY DEF UnderWayIsMapped
  <2>1. x[1] \in EmReqs /\ x[2] \in {"runs", "event"} /\ x = <<x[1], x[2]>>
    BY DEF EmInv, EmTypeOK
  <2>2. Remote(x[1])
    BY <2>1 DEF Remote
  <2> QED  BY <2>1, <2>2 DEF EmInv, RequestSound
<1> QED  BY <1>1 DEF EmInv, RequestSound, FailedIsForgotten

\* A request takes a step: the others do not notice, since the map changes at
\* its own id only.
LEMMA RequestMoves ==
  ASSUME EmInv, NEW r \in EmReqs, emReq[r].pc # "new",
         NEW pc \in {"call", "taken", "ok", "refused", "failed", "cut"},
         emReq' = [emReq EXCEPT ![r].pc = pc],
         emMap' \in Entries, emDisk' = emMap',
         \A i \in EmIds : i # emReq[r].id => emMap'[i] = emMap[i],
         emMap'[emReq[r].id] \in {emMap[emReq[r].id], EmNone, emReq[r].to},
         emRemote' \subseteq EmReqs \X {"runs", "event"},
         \A q \in EmReqs, st \in {"runs", "event"} :
           q # r => (<<q, st>> \in emRemote' <=> <<q, st>> \in emRemote),
         emTold' \subseteq EmReqs, UNCHANGED <<emCancel, emStops>>,
         RequestSound(r)'
  PROVE  EmInv'
<1>1. emReq \in [EmReqs -> EmRec]
  BY DEF EmInv, EmTypeOK, EmRec
<1>2. /\ emReq' \in [EmReqs -> EmRec] /\ emReq'[r].pc = pc
      /\ \A q \in EmReqs : emReq'[q].id = emReq[q].id /\ emReq'[q].to = emReq[q].to
      /\ \A q \in EmReqs : q # r => emReq'[q] = emReq[q]
  BY <1>1 DEF EmRec
<1>3. emReq[r].id \in EmIds /\ emReq[r].to \in EmEndpoints
  BY DEF EmInv, RequestSound
<1>4. ASSUME NEW q \in EmReqs, q # r
      PROVE  RequestSound(q)'
  <2>1. RequestSound(q) /\ (Remote(q)' <=> Remote(q)) /\ emReq'[q] = emReq[q]
    BY <1>2, <1>4 DEF EmInv, Remote
  <2>2. OwnId(q)' => OwnId(q) /\ emReq[q].id # emReq[r].id
    BY <1>2, <1>4 DEF OwnId
  <2>3. emReq[q].id \in EmIds /\ OwnId(q)' => emMap'[emReq[q].id] = emMap[emReq[q].id]
    BY <2>2
  <2>4. emReq[q].pc # "new" => emReq[q].id \in EmIds
    BY <2>1 DEF RequestSound
  <2>5. /\ <<q, "runs">> \in emRemote' <=> <<q, "runs">> \in emRemote
        /\ <<q, "event">> \in emRemote' <=> <<q, "event">> \in emRemote
    BY <1>4
  <2>6. Remote(q) => emReq[q].pc # "new"
    BY <2>1 DEF RequestSound
  <2> QED  BY <2>1, <2>2, <2>3, <2>4, <2>5, <2>6 DEF RequestSound
<1>5. EntryKnown'
  <2> SUFFICES ASSUME NEW i \in EmIds, emMap'[i] # EmNone
               PROVE  \E q \in EmReqs : /\ emReq'[q].pc \notin {"new", "client"}
                                        /\ emReq'[q].id = i /\ emReq'[q].to = emMap'[i]
    BY DEF EntryKnown
  <2>1. CASE emMap'[i] = emMap[i]
    <3>1. PICK q \in EmReqs : /\ emReq[q].pc \notin {"new", "client"}
                              /\ emReq[q].id = i /\ emReq[q].to = emMap[i]
      BY <2>1 DEF EmInv, EntryKnown
    <3>2. emReq'[q].pc \notin {"new", "client"}
      BY <1>2, <3>1
    <3> QED  BY <1>2, <2>1, <3>1, <3>2
  <2>2. CASE emMap'[i] # emMap[i]
    <3>1. i = emReq[r].id /\ emMap'[i] = emReq[r].to
      BY <2>2
    <3> QED  BY <1>2, <3>1
  <2> QED  BY <2>1, <2>2
<1>6. CancelIsAddressed'
  <2> SUFFICES ASSUME emCancel # <<>>
               PROVE  \E q \in EmReqs : emReq'[q].id = emCancel[1] /\ emReq'[q].to = emCancel[2]
    BY DEF CancelIsAddressed
  <2>1. PICK q \in EmReqs : emReq[q].id = emCancel[1] /\ emReq[q].to = emCancel[2]
    BY DEF EmInv, CancelIsAddressed
  <2> QED  BY <1>2, <2>1
<1>7. EmTypeOK'
  BY <1>2 DEF EmInv, EmTypeOK, EmRec, Entries
<1> QED  BY <1>4, <1>5, <1>6, <1>7 DEF EmInv, CancelTyped

\* Two maps at one place each.
LEMMA Entry ==
  ASSUME EmInv, NEW i \in EmIds, NEW e \in EmEndpoints \cup {EmNone},
         EmStore([emMap EXCEPT ![i] = e])
  PROVE  /\ emMap' \in Entries /\ emDisk' = emMap' /\ emMap'[i] = e
         /\ \A j \in EmIds : j # i => emMap'[j] = emMap[j]
BY DEF EmStore, EmInv, EmTypeOK, Entries

\* Only the request moves.
LEMMA RequestOnly ==
  ASSUME EmInv, NEW r \in EmReqs, NEW pc \in {"refused", "ok"}, EmGoes(r, pc),
         emReq[r].pc = IF pc = "ok" THEN "taken" ELSE "client",
         UNCHANGED <<emMap, emDisk, emRemote, emTold, emCancel, emStops>>
  PROVE  EmInv'
<1>1. /\ emReq' = [emReq EXCEPT ![r].pc = pc] /\ emReq \in [EmReqs -> EmRec]
      /\ emMap \in Entries
  BY DEF EmGoes, EmInv, EmTypeOK, EmRec, Entries
<1>2. /\ emReq'[r].pc = pc /\ emReq'[r].id = emReq[r].id /\ emReq'[r].to = emReq[r].to
      /\ \A q \in EmReqs : emReq'[q].id = emReq[q].id
  BY <1>1 DEF EmRec
<1>3. RequestSound(r)'
  BY <1>2 DEF EmInv, RequestSound, Remote, OwnId
<1>4. emRemote \subseteq EmReqs \X {"runs", "event"} /\ emTold \subseteq EmReqs /\ emDisk = emMap
  BY DEF EmInv, EmTypeOK
<1> QED  BY <1>1, <1>3, <1>4, RequestMoves

\* The map is written before the call.
LEMMA CallsKeeps ==
  ASSUME EmInv, NEW r \in EmReqs, EmCalls(r)
  PROVE  EmInv'
<1>1. /\ emReq[r].pc = "client" /\ emReq' = [emReq EXCEPT ![r].pc = "call"]
      /\ EmStore([emMap EXCEPT ![emReq[r].id] = emReq[r].to])
      /\ UNCHANGED <<emRemote, emTold, emCancel, emStops>>
  BY DEF EmCalls, EmMaps, EmGoes
<1>2. RequestSound(r) /\ emReq[r].id \in EmIds /\ emReq[r].to \in EmEndpoints
  BY <1>1 DEF EmInv, RequestSound
<1>3. /\ emMap' \in Entries /\ emDisk' = emMap' /\ emMap'[emReq[r].id] = emReq[r].to
      /\ \A j \in EmIds : j # emReq[r].id => emMap'[j] = emMap[j]
  BY <1>1, <1>2, Entry
<1>4. /\ emReq'[r].pc = "call" /\ emReq'[r].id = emReq[r].id /\ emReq'[r].to = emReq[r].to
  BY <1>1 DEF EmInv, EmTypeOK
<1>5. ~Remote(r) /\ Remote(r)' = Remote(r)
  BY <1>1, <1>2 DEF RequestSound, Remote
<1>6. RequestSound(r)'
  BY <1>2, <1>3, <1>4, <1>5 DEF RequestSound, Remote
<1>7. emRemote \subseteq EmReqs \X {"runs", "event"} /\ emTold \subseteq EmReqs
  BY DEF EmInv, EmTypeOK
<1> QED  BY <1>1, <1>3, <1>6, <1>7, RequestMoves

\* The endpoint takes the task.
LEMMA TakenKeeps ==
  ASSUME EmInv, NEW r \in EmReqs, EmTaken(r)
  PROVE  EmInv'
<1>1. /\ emReq[r].pc = "call" /\ emReq' = [emReq EXCEPT ![r].pc = "taken"]
      /\ emRemote' = emRemote \cup {<<r, "runs">>}
      /\ UNCHANGED <<emMap, emDisk, emTold, emCancel, emStops>>
  BY DEF EmTaken, EmGoes
<1>2. RequestSound(r) /\ ~Remote(r)
  BY <1>1 DEF EmInv, RequestSound
<1>3. /\ emReq'[r].pc = "taken" /\ emReq'[r].id = emReq[r].id /\ emReq'[r].to = emReq[r].to
      /\ \A q \in EmReqs : emReq'[q].id = emReq[q].id
  BY <1>1 DEF EmInv, EmTypeOK
<1>4. <<r, "runs">> \in emRemote' /\ <<r, "event">> \notin emRemote'
  BY <1>1, <1>2 DEF Remote
<1>5. RequestSound(r)'
  BY <1>1, <1>2, <1>3, <1>4 DEF RequestSound, Remote, OwnId
<1>6. /\ emRemote' \subseteq EmReqs \X {"runs", "event"} /\ emTold \subseteq EmReqs
      /\ emDisk = emMap /\ emMap \in Entries
  BY <1>1 DEF EmInv, EmTypeOK, Entries
<1>7. \A q \in EmReqs, st \in {"runs", "event"} :
        q # r => (<<q, st>> \in emRemote' <=> <<q, st>> \in emRemote)
  BY <1>1
<1> QED  BY <1>1, <1>5, <1>6, <1>7, RequestMoves

\* The call raises: the entry goes.
LEMMA RaisesKeeps ==
  ASSUME EmInv, NEW r \in EmReqs, EmRaises(r)
  PROVE  EmInv'
<1>1. /\ emReq[r].pc \in {"call", "taken"} /\ emReq' = [emReq EXCEPT ![r].pc = "failed"]
      /\ EmStore([emMap EXCEPT ![emReq[r].id] = EmNone])
      /\ UNCHANGED <<emRemote, emTold, emCancel, emStops>>
  BY DEF EmRaises, EmForgets, EmGoes
<1>2. RequestSound(r) /\ emReq[r].id \in EmIds /\ emReq[r].to \in EmEndpoints
  BY <1>1 DEF EmInv, RequestSound
<1>3. /\ emMap' \in Entries /\ emDisk' = emMap' /\ emMap'[emReq[r].id] = EmNone
      /\ \A j \in EmIds : j # emReq[r].id => emMap'[j] = emMap[j]
  BY <1>1, <1>2, Entry
<1>4. /\ emReq'[r].pc = "failed" /\ emReq'[r].id = emReq[r].id /\ emReq'[r].to = emReq[r].to
  BY <1>1 DEF EmInv, EmTypeOK
<1>5. RequestSound(r)'
  BY <1>1, <1>2, <1>3, <1>4 DEF RequestSound, Remote
<1>6. emRemote \subseteq EmReqs \X {"runs", "event"} /\ emTold \subseteq EmReqs
  BY DEF EmInv, EmTypeOK
<1> QED  BY <1>1, <1>3, <1>5, <1>6, RequestMoves

\* The task ends where it runs, or its event reaches the broker.
LEMMA EventKeeps ==
  ASSUME EmInv, NEW r \in EmReqs, EmEnds(r) \/ EmTerminal(r)
  PROVE  EmInv'
<1>1. /\ Remote(r) /\ UNCHANGED <<emReq, emCancel, emStops>>
      /\ \/ /\ <<r, "runs">> \in emRemote
            /\ emRemote' = (emRemote \ {<<r, "runs">>}) \cup {<<r, "event">>}
            /\ UNCHANGED <<emMap, emDisk, emTold>>
         \/ /\ <<r, "event">> \in emRemote /\ emRemote' = emRemote \ {<<r, "event">>}
            /\ \/ emMap[emReq[r].id] = EmNone /\ UNCHANGED <<emMap, emDisk, emTold>>
               \/ /\ EmStore([emMap EXCEPT ![emReq[r].id] = EmNone])
                  /\ emTold' = emTold \cup {r}
  BY DEF EmEnds, EmTerminal, Remote
<1>2. RequestSound(r) /\ emReq[r].pc \in {"taken", "ok", "failed", "cut"}
  BY <1>1 DEF EmInv, RequestSound
<1>3. emReq[r].id \in EmIds /\ emReq[r].to \in EmEndpoints
  BY <1>2 DEF RequestSound
<1>4. emReq' = [emReq EXCEPT ![r].pc = emReq[r].pc]
  BY <1>1 DEF EmInv, EmTypeOK
<1>5. /\ emMap' \in Entries /\ emDisk' = emMap'
      /\ \A j \in EmIds : j # emReq[r].id => emMap'[j] = emMap[j]
      /\ emMap'[emReq[r].id] \in {emMap[emReq[r].id], EmNone}
  <2>1. emMap \in Entries /\ emDisk = emMap
    BY DEF EmInv, EmTypeOK, Entries
  <2>2. CASE UNCHANGED <<emMap, emDisk>>
    BY <2>1, <2>2
  <2>3. CASE EmStore([emMap EXCEPT ![emReq[r].id] = EmNone])
    BY <1>3, <2>3, Entry
  <2> QED  BY <1>1, <2>2, <2>3
<1>6. /\ emRemote' \subseteq EmReqs \X {"runs", "event"} /\ emTold' \subseteq EmReqs
      /\ \A q \in EmReqs, st \in {"runs", "event"} :
           q # r => (<<q, st>> \in emRemote' <=> <<q, st>> \in emRemote)
  BY <1>1 DEF EmInv, EmTypeOK
<1>7. RequestSound(r)'
  <2>1. CASE emRemote' = (emRemote \ {<<r, "runs">>}) \cup {<<r, "event">>}
             /\ UNCHANGED <<emMap, emDisk, emTold>>
    <3>1. <<r, "runs">> \notin emRemote' /\ <<r, "event">> \in emRemote'
      BY <2>1
    <3> QED  BY <1>1, <1>2, <2>1, <3>1 DEF RequestSound, Remote, OwnId
  <2>2. CASE emRemote' = emRemote \ {<<r, "event">>} /\ <<r, "event">> \in emRemote
    <3>1. <<r, "runs">> \notin emRemote' /\ <<r, "event">> \notin emRemote'
      BY <1>2, <2>2 DEF RequestSound
    <3> QED  BY <1>1, <1>2, <1>5, <3>1 DEF RequestSound, Remote, OwnId
  <2> QED  BY <1>1, <2>1, <2>2
<1> QED  BY <1>1, <1>2, <1>4, <1>5, <1>6, <1>7, RequestMoves

\* A new request has no id of its own before: nothing is known under its id
\* unless another request uses it.
LEMMA SubmitKeeps ==
  ASSUME EmInv, NEW r \in EmReqs, NEW i \in EmIds, NEW e \in EmEndpoints, EmSubmit(r, i, e)
  PROVE  EmInv'
<1> DEFINE y == [pc |-> "client", id |-> i, to |-> e]
<1>1. /\ emReq[r].pc = "new" /\ emReq' = [emReq EXCEPT ![r] = y]
      /\ UNCHANGED <<emMap, emDisk, emRemote, emTold, emCancel, emStops>>
  BY DEF EmSubmit
<1>2. /\ emReq' \in [EmReqs -> EmRec] /\ emReq'[r] = y
      /\ \A q \in EmReqs : q # r => emReq'[q] = emReq[q]
  BY <1>1 DEF EmInv, EmTypeOK, EmRec
<1>3. emReq[r].id = EmNone /\ ~Remote(r) /\ EmNone \notin EmIds /\ EmNone \notin EmEndpoints
  BY <1>1, EndpointConstants DEF EmInv, RequestSound
<1>4. ASSUME NEW q \in EmReqs, q # r
      PROVE  RequestSound(q)'
  <2>1. emReq'[q] = emReq[q] /\ RequestSound(q)
    BY <1>2, <1>4 DEF EmInv
  <2>2. emReq[q].id \in EmIds /\ OwnId(q)' => OwnId(q)
    BY <1>2, <1>3, <1>4 DEF OwnId
  <2>3. emReq[q].pc # "new" => emReq[q].id \in EmIds
    BY <2>1 DEF RequestSound
  <2>4. emReq[q].pc = "new" => ~Remote(q)
    BY <2>1 DEF RequestSound
  <2> QED  BY <1>1, <2>1, <2>2, <2>3, <2>4 DEF RequestSound, Remote
<1>5. RequestSound(r)'
  <2>1. OwnId(r)' => emMap[i] = EmNone
    <3> SUFFICES ASSUME OwnId(r)', emMap[i] # EmNone
                 PROVE  FALSE
      OBVIOUS
    <3>1. PICK q \in EmReqs : emReq[q].pc \notin {"new", "client"} /\ emReq[q].id = i
      BY DEF EmInv, EntryKnown
    <3>2. q # r
      BY <1>1, <3>1
    <3> QED  BY <1>2, <3>1, <3>2 DEF OwnId
  <2> QED  BY <1>1, <1>2, <1>3, <2>1 DEF RequestSound, Remote
<1>6. EntryKnown'
  BY <1>1, <1>2 DEF EmInv, EntryKnown
<1>7. CancelIsAddressed'
  <2> SUFFICES ASSUME emCancel # <<>>
               PROVE  \E q \in EmReqs : emReq'[q].id = emCancel[1] /\ emReq'[q].to = emCancel[2]
    BY <1>1 DEF CancelIsAddressed
  <2>1. PICK x \in EmIds \X EmEndpoints : emCancel = x
    BY DEF EmInv, CancelTyped
  <2>2. PICK q \in EmReqs : emReq[q].id = emCancel[1] /\ emReq[q].to = emCancel[2]
    BY DEF EmInv, CancelIsAddressed
  <2>3. q # r
    BY <1>3, <2>1, <2>2
  <2> QED  BY <1>2, <2>2, <2>3
<1>8. EmTypeOK'
  BY <1>1, <1>2 DEF EmInv, EmTypeOK, EmRec
<1> QED  BY <1>1, <1>4, <1>5, <1>6, <1>7, <1>8 DEF EmInv, CancelTyped

\* A cancel takes the endpoint from the map, where a request wrote it.
LEMMA CancelBeginsKeeps ==
  ASSUME EmInv, NEW i \in EmIds, EmCancelBegins(i)
  PROVE  EmInv'
<1>1. /\ emMap[i] # EmNone /\ emCancel' = <<i, emMap[i]>>
      /\ UNCHANGED <<emMap, emDisk, emReq, emRemote, emTold, emStops>>
  BY DEF EmCancelBegins, EmTarget
<1>2. PICK q \in EmReqs : emReq[q].id = i /\ emReq[q].to = emMap[i]
  BY <1>1 DEF EmInv, EntryKnown
<1>3. CancelIsAddressed'
  BY <1>1, <1>2 DEF CancelIsAddressed
<1>4. CancelTyped'
  BY <1>1 DEF CancelTyped, EmInv, EmTypeOK
<1>5. \A r \in EmReqs : RequestSound(r)'
  BY <1>1 DEF EmInv, RequestSound, Remote, OwnId
<1> QED  BY <1>1, <1>3, <1>4, <1>5 DEF EmInv, EmTypeOK, EntryKnown

\* A cancelled task's event is on the way instead.
LEMMA CancelAsksKeeps ==
  ASSUME EmInv, EmCancelAsks
  PROVE  EmInv'
<1>1. /\ emCancel' = <<>> /\ UNCHANGED <<emMap, emDisk, emReq, emTold, emStops>>
      /\ emRemote' = {IF x[2] = "runs" /\ emReq[x[1]].id = emCancel[1]
                                       /\ emReq[x[1]].to = emCancel[2]
                      THEN <<x[1], "event">> ELSE x : x \in emRemote}
  BY DEF EmCancelAsks
<1>2. emRemote \subseteq EmReqs \X {"runs", "event"}
  BY DEF EmInv, EmTypeOK
<1>3. emRemote' \subseteq EmReqs \X {"runs", "event"}
  BY <1>1, <1>2
<1>4. ASSUME NEW r \in EmReqs
      PROVE  RequestSound(r)'
  <2>1. RequestSound(r)
    BY DEF EmInv
  <2>2. Remote(r)' => Remote(r)
    <3>1. ASSUME NEW st \in {"runs", "event"}, <<r, st>> \in emRemote'
          PROVE  Remote(r)
      <4>1. PICK x \in emRemote : \/ <<r, st>> = <<x[1], "event">>
                                  \/ <<r, st>> = x
        BY <1>1, <3>1
      <4>2. x[1] = r /\ x = <<r, x[2]>> /\ x[2] \in {"runs", "event"}
        BY <1>2, <4>1
      <4> QED  BY <4>2 DEF Remote
    <3> QED  BY <3>1 DEF Remote
  <2>3. ~(<<r, "runs">> \in emRemote' /\ <<r, "event">> \in emRemote')
    <3> SUFFICES ASSUME <<r, "runs">> \in emRemote', <<r, "event">> \in emRemote'
                 PROVE  FALSE
      OBVIOUS
    <3>1. PICK x \in emRemote :
            <<r, "runs">> = IF x[2] = "runs" /\ emReq[x[1]].id = emCancel[1]
                                             /\ emReq[x[1]].to = emCancel[2]
                            THEN <<x[1], "event">> ELSE x
      BY <1>1
    <3>2. x = <<r, "runs">>
      BY <1>2, <3>1
    <3>3. ~(emReq[r].id = emCancel[1] /\ emReq[r].to = emCancel[2])
      BY <3>1, <3>2
    <3>4. PICK z \in emRemote :
            <<r, "event">> = IF z[2] = "runs" /\ emReq[z[1]].id = emCancel[1]
                                              /\ emReq[z[1]].to = emCancel[2]
                             THEN <<z[1], "event">> ELSE z
      BY <1>1
    <3>5. z = <<r, "event">>
      BY <1>2, <3>3, <3>4
    <3> QED  BY <2>1, <3>2, <3>5 DEF RequestSound
  <2> QED  BY <1>1, <2>1, <2>2, <2>3 DEF RequestSound, OwnId
<1> QED  BY <1>1, <1>3, <1>4
         DEF EmInv, EmTypeOK, EntryKnown, CancelIsAddressed, CancelTyped

\* A restart finds the map as it was: it is written at every change.
LEMMA RestartKeeps ==
  ASSUME EmInv, EmRestart
  PROVE  EmInv'
<1>1. /\ emMap' = emMap /\ emDisk' = emMap /\ emTold' = emTold /\ emCancel' = <<>>
      /\ emStops' = emStops + 1 /\ emStops < MaxEmStops
      /\ emRemote' = {x \in emRemote : x[2] = "runs"}
      /\ emReq' = [r \in EmReqs |->
                     IF emReq[r].pc \in {"client", "call", "taken"}
                     THEN [emReq[r] EXCEPT !.pc = IF @ = "client" THEN "refused" ELSE "cut"]
                     ELSE emReq[r]]
  BY DEF EmRestart, EmInv
<1>2. /\ emReq' \in [EmReqs -> EmRec]
      /\ \A r \in EmReqs : /\ emReq'[r].id = emReq[r].id /\ emReq'[r].to = emReq[r].to
                           /\ emReq'[r].pc = CASE emReq[r].pc = "client" -> "refused"
                                               [] emReq[r].pc \in {"call", "taken"} -> "cut"
                                               [] OTHER -> emReq[r].pc
  BY <1>1 DEF EmInv, EmTypeOK, EmRec
<1>3. ASSUME NEW r \in EmReqs
      PROVE  RequestSound(r)'
  <2>1. RequestSound(r)
    BY DEF EmInv
  <2>2. OwnId(r)' => OwnId(r)
    BY <1>2 DEF OwnId
  <2>3. <<r, "event">> \notin emRemote' /\ (<<r, "runs">> \in emRemote' => <<r, "runs">> \in emRemote)
    BY <1>1
  <2>4. emReq[r].pc = "call" => ~Remote(r)
    BY <2>1 DEF RequestSound
  <2> QED  BY <1>1, <1>2, <2>1, <2>2, <2>3, <2>4 DEF RequestSound, Remote
<1>4. EntryKnown'
  <2> SUFFICES ASSUME NEW i \in EmIds, emMap[i] # EmNone
               PROVE  \E r \in EmReqs : /\ emReq'[r].pc \notin {"new", "client"}
                                        /\ emReq'[r].id = i /\ emReq'[r].to = emMap[i]
    BY <1>1 DEF EntryKnown
  <2>1. PICK q \in EmReqs : /\ emReq[q].pc \notin {"new", "client"}
                            /\ emReq[q].id = i /\ emReq[q].to = emMap[i]
    BY DEF EmInv, EntryKnown
  <2> QED  BY <1>2, <2>1
<1>5. emStops' \in 0..MaxEmStops
  BY <1>1, EndpointConstants DEF EmInv, EmTypeOK
<1> QED  BY <1>1, <1>2, <1>3, <1>4, <1>5
         DEF EmInv, EmTypeOK, EmRec, CancelIsAddressed, CancelTyped

\* Every step keeps the invariant.
LEMMA EmNextKeeps ==
  ASSUME EmInv, [EmNext]_emVars
  PROVE  EmInv'
<1>1. ASSUME NEW r \in EmReqs, EmNoClient(r) \/ EmReturns(r)
      PROVE  EmInv'
  BY <1>1, RequestOnly DEF EmNoClient, EmReturns
<1>2. CASE UNCHANGED emVars
  BY <1>2 DEF emVars, EmInv, EmTypeOK, EntryKnown, CancelIsAddressed, CancelTyped,
     RequestSound, Remote, OwnId
<1> QED  BY <1>1, <1>2, SubmitKeeps, CallsKeeps, TakenKeeps, RaisesKeeps, EventKeeps,
            CancelBeginsKeeps, CancelAsksKeeps, RestartKeeps DEF EmNext

\* It holds at first.
LEMMA EmInitSound == EmInit => EmInv
<1> SUFFICES ASSUME EmInit
             PROVE  EmInv
  OBVIOUS
<1>1. EmTypeOK
  BY EndpointConstants DEF EmInit, EmTypeOK, EmIdle
<1>2. \A r \in EmReqs : RequestSound(r)
  BY DEF EmInit, EmIdle, RequestSound, Remote
<1> QED  BY <1>1, <1>2 DEF EmInit, EmInv, EntryKnown, CancelIsAddressed, CancelTyped

\* A task sent to one endpoint is known with that endpoint as long as it is
\* under way, across restarts, a refused one is forgotten, and a cancel goes
\* where the task went: for any requests, ids and endpoints
\* (_route_submit_endpoint_mode, _persist_endpoint_mode).
THEOREM EndpointTasksAreKnown ==
  EmSpec => [](EmTypeOK /\ UnderWayIsMapped /\ FailedIsForgotten /\ CancelIsAddressed)
<1> QED  BY EmImplies, EmInitSound, EmNextKeeps, PTL DEF EmSpec

-----------------------------------------------------------------------------
(***************************************************************************)
(* Input files of a task (TaskInputs).                                     *)
(***************************************************************************)

InputRec == [state: {"none", "QUEUED", "RUNNING"} \cup TEnded, spooled: BOOLEAN,
             member: Systems \cup {"none"}, cwd: Systems \cup {"none"}, moved: BOOLEAN]
PlaceRec == [of: Subs, on: Systems \cup {"none"}, has: Subs,
             pc: {"none", "client", "put", "placed", "sent", "over"}]
InputsTyped ==
  /\ trec \in [Subs -> InputRec] /\ jobs \in [1..MaxClaims -> PlaceRec]
  /\ latest \in Subs /\ spool \in Subs /\ claims \in 0..MaxClaims
  /\ tdir \in [Systems -> Subs] /\ saw \in [1..MaxClaims -> Subs]
  /\ staged \subseteq Systems \X BOOLEAN /\ crossed \in BOOLEAN

\* A task that was not moved has its directory where its member is.
CwdFollows == \A g \in Subs : trec[g].cwd = "remote" /\ ~trec[g].moved => trec[g].member = "remote"

\* A coroutine has a record and a member.
PlacesKnown ==
  \A n \in 1..MaxClaims : jobs[n].pc # "none" => jobs[n].of \in 1..latest /\ jobs[n].on \in Systems

\* The spool is the latest submission's, if that has inputs.
SpoolOwn == ~crossed /\ Now.spooled => spool \in {0, latest}

\* What a coroutine of the latest submission carries, has placed or was
\* started on is that submission's.
PlacedSound ==
  \A n \in 1..MaxClaims : jobs[n].of = latest /\ Now.spooled /\ ~crossed =>
    /\ jobs[n].pc = "put" => jobs[n].has = latest
    /\ jobs[n].pc = "placed" => tdir[jobs[n].on] = latest
    /\ jobs[n].pc = "sent" => saw[n] = latest

\* A put is under way only where the file system is not shared.
PutsAreRemote == \A n \in 1..MaxClaims : jobs[n].pc = "put" => jobs[n].on = "remote"

TiInv == /\ InputsTyped /\ CwdFollows /\ PlacesKnown /\ PutsAreRemote
         /\ SpoolOwn /\ SpoolSurvives /\ PlacedSound /\ StagesLocally

\* The properties follow.
LEMMA TiImplies ==
  ASSUME TiInv
  PROVE  TiTypeOK /\ SpoolSurvives /\ StartedOnOwn /\ StagesLocally
<1>1. TiTypeOK
  BY DEF TiInv, InputsTyped, TiTypeOK, InputRec, PlaceRec, Subs
<1>2. StartedOnOwn
  BY DEF TiInv, PlacedSound, StartedOnOwn, JobAt, RecOf, Now
<1> QED  BY <1>1, <1>2 DEF TiInv

\* A coroutine takes a step that leaves the records alone; what it then holds
\* is right.
LEMMA PlaceMoves ==
  ASSUME TiInv, NEW n \in 1..MaxClaims, NEW y \in PlaceRec, jobs' = [jobs EXCEPT ![n] = y],
         jobs[n].pc # "none", y.of = jobs[n].of, y.on = jobs[n].on,
         y.pc = "put" => y.on = "remote",
         UNCHANGED <<trec, latest, spool, claims, staged>>,
         tdir' \in [Systems -> Subs], saw' \in [1..MaxClaims -> Subs], crossed' \in BOOLEAN,
         crossed => crossed', \A m \in 1..MaxClaims : m # n => saw'[m] = saw[m],
         \A s \in Systems : ~crossed' /\ Now.spooled => tdir'[s] \in {tdir[s], latest},
         jobs[n].of = latest /\ Now.spooled /\ ~crossed' =>
           /\ y.pc = "put" => y.has = latest
           /\ y.pc = "placed" => tdir'[y.on] = latest
           /\ y.pc = "sent" => saw'[n] = latest
  PROVE  TiInv'
<1>1. /\ jobs' \in [1..MaxClaims -> PlaceRec] /\ jobs'[n] = y
      /\ \A m \in 1..MaxClaims : m # n => jobs'[m] = jobs[m]
  BY DEF TiInv, InputsTyped
<1>2. InputsTyped'
  BY <1>1 DEF TiInv, InputsTyped
<1>3. PlacesKnown'
  BY <1>1 DEF TiInv, PlacesKnown
<1>4. Now' = Now /\ PutsAreRemote'
  BY <1>1 DEF Now, TiInv, PutsAreRemote
<1>5. PlacedSound'
  <2> SUFFICES ASSUME NEW m \in 1..MaxClaims, jobs'[m].of = latest, Now.spooled, ~crossed'
               PROVE  /\ jobs'[m].pc = "put" => jobs'[m].has = latest
                      /\ jobs'[m].pc = "placed" => tdir'[jobs'[m].on] = latest
                      /\ jobs'[m].pc = "sent" => saw'[m] = latest
    BY <1>4 DEF PlacedSound
  <2>1. CASE m = n
    BY <1>1, <2>1
  <2>2. CASE m # n
    <3>1. jobs'[m] = jobs[m] /\ saw'[m] = saw[m] /\ ~crossed
      BY <1>1, <2>2
    <3>2. jobs[m].pc # "none" => jobs[m].on \in Systems
      BY DEF TiInv, PlacesKnown
    <3> QED  BY <3>1, <3>2 DEF TiInv, PlacedSound
  <2> QED  BY <2>1, <2>2
<1> QED  BY <1>2, <1>3, <1>4, <1>5
         DEF TiInv, CwdFollows, SpoolOwn, SpoolSurvives, StagesLocally

\* The types of one coroutine.
LEMMA PlaceTypes ==
  ASSUME TiInv, NEW n \in 1..MaxClaims
  PROVE  /\ jobs[n] \in PlaceRec /\ jobs[n].of \in Subs /\ jobs[n].has \in Subs
         /\ jobs[n].pc # "none" => jobs[n].of \in 1..latest /\ jobs[n].on \in Systems
         /\ latest \in Subs /\ spool \in Subs /\ 0 \in Subs
BY InputConstants DEF TiInv, InputsTyped, PlaceRec, PlacesKnown, Subs

\* The inputs are copied: the spool's are the latest submission's.
LEMMA CopyKeeps ==
  ASSUME TiInv, NEW n \in 1..MaxClaims, CopyInputs(n)
  PROVE  TiInv'
<1> DEFINE y == [jobs[n] EXCEPT !.pc = "placed"]
<1>1. /\ jobs[n].pc = "client" /\ jobs[n].on = "shared" /\ (RecOf(n).spooled => spool # 0)
      /\ tdir' = IF RecOf(n).spooled THEN [tdir EXCEPT !["shared"] = spool] ELSE tdir
      /\ jobs' = [jobs EXCEPT ![n].pc = "placed"]
      /\ UNCHANGED <<trec, latest, spool, claims, saw, staged, crossed>>
  BY DEF CopyInputs, JobAt, Moves
<1>2. jobs' = [jobs EXCEPT ![n] = y] /\ jobs \in [1..MaxClaims -> PlaceRec]
  BY <1>1 DEF TiInv, InputsTyped
<1>3. jobs[n] \in PlaceRec /\ spool \in Subs
  BY PlaceTypes
<1>4. y \in PlaceRec /\ y.of = jobs[n].of /\ y.on = jobs[n].on /\ y.pc = "placed"
  BY <1>3 DEF PlaceRec
<1>5. /\ tdir \in [Systems -> Subs] /\ saw \in [1..MaxClaims -> Subs] /\ crossed \in BOOLEAN
      /\ "shared" \in Systems
  BY DEF TiInv, InputsTyped, Systems
<1>6. tdir' \in [Systems -> Subs]
  BY <1>1, <1>3, <1>5
<1>7. ~crossed /\ Now.spooled /\ RecOf(n).spooled => spool = latest
  BY <1>1 DEF TiInv, SpoolOwn
<1>8. \A s \in Systems : ~crossed' /\ Now.spooled => tdir'[s] \in {tdir[s], latest}
  BY <1>1, <1>5, <1>7
<1>9. jobs[n].of = latest /\ Now.spooled /\ ~crossed' => tdir'[y.on] = latest
  BY <1>1, <1>4, <1>5, <1>7 DEF RecOf, Now
<1> QED  BY <1>1, <1>2, <1>4, <1>5, <1>6, <1>8, <1>9, PlaceMoves

\* A put begins with what the spool holds.
LEMMA PutKeeps ==
  ASSUME TiInv, NEW n \in 1..MaxClaims, PutInputs(n)
  PROVE  TiInv'
<1> DEFINE has == IF RecOf(n).spooled THEN spool ELSE 0
           y == [jobs[n] EXCEPT !.pc = "put", !.has = has]
<1>1. /\ jobs[n].pc = "client" /\ jobs[n].on = "remote" /\ (RecOf(n).spooled => spool # 0)
      /\ jobs' = [jobs EXCEPT ![n].pc = "put", ![n].has = has]
      /\ UNCHANGED <<trec, latest, spool, tdir, claims, saw, staged, crossed>>
  BY DEF PutInputs, JobAt
<1>2. jobs' = [jobs EXCEPT ![n] = y]
  BY <1>1 DEF TiInv, InputsTyped
<1>3. jobs[n] \in PlaceRec /\ has \in Subs
  BY PlaceTypes
<1>4. y \in PlaceRec /\ y.of = jobs[n].of /\ y.on = jobs[n].on /\ y.pc = "put" /\ y.has = has
  BY <1>3 DEF PlaceRec
<1>5. /\ tdir \in [Systems -> Subs] /\ saw \in [1..MaxClaims -> Subs] /\ crossed \in BOOLEAN
  BY DEF TiInv, InputsTyped
<1>6. jobs[n].of = latest /\ Now.spooled /\ ~crossed => has = latest
  BY <1>1 DEF TiInv, SpoolOwn, RecOf, Now
<1>7. /\ tdir' \in [Systems -> Subs] /\ saw' \in [1..MaxClaims -> Subs] /\ crossed' \in BOOLEAN
      /\ y.on = "remote" /\ \A s \in Systems : tdir'[s] = tdir[s]
  BY <1>1, <1>4, <1>5
<1> HIDE DEF y, has
<1> QED  BY <1>1, <1>2, <1>4, <1>6, <1>7, PlaceMoves

\* A put lands.  One of an earlier submission is an exception from here on.
LEMMA LandsKeeps ==
  ASSUME TiInv, NEW n \in 1..MaxClaims, PutLands(n)
  PROVE  TiInv'
<1> DEFINE y == [jobs[n] EXCEPT !.pc = "placed", !.has = 0]
           h == jobs[n].has
<1>1. /\ jobs[n].pc = "put" /\ crossed' = (crossed \/ jobs[n].of # latest)
      /\ tdir' = IF h # 0 THEN [tdir EXCEPT !["remote"] = h] ELSE tdir
      /\ jobs' = [jobs EXCEPT ![n].pc = "placed", ![n].has = 0]
      /\ UNCHANGED <<trec, latest, spool, claims, saw, staged>>
  BY DEF PutLands, JobAt
<1>2. jobs' = [jobs EXCEPT ![n] = y]
  BY <1>1 DEF TiInv, InputsTyped
<1>3. jobs[n] \in PlaceRec /\ h \in Subs /\ 0 \in Subs /\ jobs[n].of \in 1..latest /\ latest # 0
  BY <1>1, PlaceTypes
<1>4. y \in PlaceRec /\ y.of = jobs[n].of /\ y.on = jobs[n].on /\ y.pc = "placed"
  BY <1>3 DEF PlaceRec
<1>5. /\ tdir \in [Systems -> Subs] /\ saw \in [1..MaxClaims -> Subs] /\ crossed \in BOOLEAN
      /\ "remote" \in Systems
  BY DEF TiInv, InputsTyped, Systems
<1>6. tdir' \in [Systems -> Subs] /\ crossed' \in BOOLEAN
  BY <1>1, <1>3, <1>5
<1>7. ~crossed' /\ Now.spooled => h = latest /\ jobs[n].on = "remote"
  BY <1>1 DEF TiInv, PlacedSound, PutsAreRemote
<1>8. \A s \in Systems : ~crossed' /\ Now.spooled => tdir'[s] \in {tdir[s], latest}
  BY <1>1, <1>5, <1>7
<1>9. Now.spooled /\ ~crossed' => tdir'[y.on] = latest
  BY <1>1, <1>3, <1>4, <1>5, <1>7
<1> QED  BY <1>1, <1>2, <1>4, <1>5, <1>6, <1>8, <1>9, PlaceMoves

\* The task starts on what its directory holds.
LEMMA InputsStart ==
  ASSUME TiInv, NEW n \in 1..MaxClaims, StartTask(n)
  PROVE  TiInv'
<1> DEFINE y == [jobs[n] EXCEPT !.pc = "sent"]
           d == tdir[jobs[n].on]
<1>1. /\ jobs[n].pc = "placed" /\ saw' = [saw EXCEPT ![n] = d]
      /\ jobs' = [jobs EXCEPT ![n].pc = "sent"]
      /\ UNCHANGED <<trec, latest, spool, tdir, claims, staged, crossed>>
  BY DEF StartTask, JobAt, Moves
<1>2. jobs' = [jobs EXCEPT ![n] = y]
  BY <1>1 DEF TiInv, InputsTyped
<1>3. jobs[n] \in PlaceRec /\ jobs[n].on \in Systems
  BY <1>1, PlaceTypes
<1>4. y \in PlaceRec /\ y.of = jobs[n].of /\ y.on = jobs[n].on /\ y.pc = "sent"
  BY <1>3 DEF PlaceRec
<1>5. /\ tdir \in [Systems -> Subs] /\ saw \in [1..MaxClaims -> Subs] /\ crossed \in BOOLEAN
  BY DEF TiInv, InputsTyped
<1>6. saw' \in [1..MaxClaims -> Subs] /\ saw'[n] = d /\ \A m \in 1..MaxClaims : m # n => saw'[m] = saw[m]
  BY <1>1, <1>3, <1>5
<1>7. jobs[n].of = latest /\ Now.spooled /\ ~crossed => d = latest
  BY <1>1 DEF TiInv, PlacedSound
<1> QED  BY <1>1, <1>2, <1>4, <1>5, <1>6, <1>7, PlaceMoves

\* A record changes, and a coroutine may begin or give up with it; the spool
\* may go, once the task has ended.
LEMMA RecordMoves ==
  ASSUME TiInv, NEW g \in Subs, NEW r \in InputRec, trec' = [trec EXCEPT ![g] = r],
         r.spooled = trec[g].spooled, r.cwd = "remote" /\ ~r.moved => r.member = "remote",
         UNCHANGED <<latest, tdir, saw, staged>>, claims' \in 0..MaxClaims,
         spool' \in {0, spool}, crossed' \in BOOLEAN, crossed => crossed',
         jobs' \in [1..MaxClaims -> PlaceRec],
         \A n \in 1..MaxClaims :
           \/ jobs'[n] = jobs[n]
           \/ jobs'[n].pc \in {"client", "over"} /\ jobs'[n].of \in 1..latest /\ jobs'[n].on \in Systems,
         latest > 0 /\ ~crossed' /\ Now'.state \in {"QUEUED", "RUNNING"} /\ Now'.spooled
           => spool' = latest
  PROVE  TiInv'
<1>1. /\ trec \in [Subs -> InputRec] /\ 0 \in Subs /\ spool \in Subs /\ latest \in Subs
  BY PlaceTypes, InputConstants DEF TiInv, InputsTyped, Subs
<1>2. InputsTyped'
  BY <1>1 DEF TiInv, InputsTyped
<1>3. CwdFollows'
  BY <1>1 DEF TiInv, CwdFollows
<1>4. PlacesKnown' /\ PutsAreRemote'
  BY DEF TiInv, PlacesKnown, PutsAreRemote
<1>5. Now'.spooled = Now.spooled
  BY <1>1 DEF Now
<1>6. SpoolOwn'
  BY <1>5 DEF TiInv, SpoolOwn
<1>7. PlacedSound'
  <2> SUFFICES ASSUME NEW n \in 1..MaxClaims, jobs'[n].of = latest, Now.spooled, ~crossed'
               PROVE  /\ jobs'[n].pc = "put" => jobs'[n].has = latest
                      /\ jobs'[n].pc = "placed" => tdir[jobs'[n].on] = latest
                      /\ jobs'[n].pc = "sent" => saw[n] = latest
    BY <1>5 DEF PlacedSound
  <2>1. CASE jobs'[n] = jobs[n]
    BY <2>1 DEF TiInv, PlacedSound
  <2>2. CASE jobs'[n].pc \in {"client", "over"}
    BY <2>2
  <2> QED  BY <2>1, <2>2
<1>8. SpoolSurvives'
  BY DEF SpoolSurvives
<1> QED  BY <1>2, <1>3, <1>4, <1>6, <1>7, <1>8 DEF TiInv, StagesLocally

\* A task that ends without its coroutine: a terminal state seen, or a cancel.
LEMMA EndKeeps ==
  ASSUME TiInv, NEW st \in TEnded, latest > 0, EndsAs(st)
  PROVE  TiInv'
<1> DEFINE r == [trec[latest] EXCEPT !.state = st]
<1>1. /\ trec \in [Subs -> InputRec] /\ latest \in Subs
      /\ jobs \in [1..MaxClaims -> PlaceRec] /\ claims \in 0..MaxClaims /\ crossed \in BOOLEAN
  BY DEF TiInv, InputsTyped
<1>2. /\ trec' = [trec EXCEPT ![latest] = r] /\ spool' = 0
      /\ UNCHANGED <<latest, tdir, jobs, claims, saw, staged, crossed>>
  BY <1>1 DEF EndsAs
<1>3. r \in InputRec /\ r.state = st /\ r.spooled = trec[latest].spooled /\ r.cwd = trec[latest].cwd
      /\ r.member = trec[latest].member /\ r.moved = trec[latest].moved
  BY <1>1 DEF InputRec
<1>4. r.cwd = "remote" /\ ~r.moved => r.member = "remote"
  BY <1>1, <1>3 DEF TiInv, CwdFollows
<1>5. Now'.state \notin {"QUEUED", "RUNNING"}
  BY <1>1, <1>2, <1>3 DEF Now, TEnded
<1> QED  BY <1>1, <1>2, <1>3, <1>4, <1>5, RecordMoves

\* _mark_task_failed(), for the coroutine's own record.
LEMMA MarkKeeps ==
  ASSUME TiInv, NEW n \in 1..MaxClaims, jobs[n].pc # "none", MarkFailed(n)
  PROVE  TiInv'
<1> DEFINE g == jobs[n].of
           r == [trec[g] EXCEPT !.state = "FAILED"]
           y == [jobs[n] EXCEPT !.pc = "over"]
<1>1. /\ trec \in [Subs -> InputRec] /\ latest \in Subs /\ latest \in Nat
      /\ jobs \in [1..MaxClaims -> PlaceRec] /\ claims \in 0..MaxClaims /\ crossed \in BOOLEAN
  BY InputConstants DEF TiInv, InputsTyped, Subs
<1>2. jobs[n] \in PlaceRec /\ g \in Subs /\ g \in 1..latest /\ jobs[n].on \in Systems
  BY PlaceTypes
<1>3. /\ trec' = [trec EXCEPT ![g] = r] /\ spool' = 0
      /\ crossed' = (crossed \/ g # latest) /\ jobs' = [jobs EXCEPT ![n] = y]
      /\ UNCHANGED <<latest, tdir, claims, saw, staged>>
  BY <1>1, <1>2 DEF MarkFailed, Moves
<1>4. r \in InputRec /\ r.state = "FAILED" /\ r.spooled = trec[g].spooled /\ r.cwd = trec[g].cwd
      /\ r.member = trec[g].member /\ r.moved = trec[g].moved
  BY <1>1, <1>2 DEF InputRec, TEnded
<1>5. r.cwd = "remote" /\ ~r.moved => r.member = "remote"
  BY <1>2, <1>4 DEF TiInv, CwdFollows
<1>6. y \in PlaceRec /\ y.of = g /\ y.on = jobs[n].on /\ y.pc = "over"
  BY <1>2 DEF PlaceRec
<1>7. /\ jobs' \in [1..MaxClaims -> PlaceRec]
      /\ \A m \in 1..MaxClaims :
           \/ jobs'[m] = jobs[m]
           \/ jobs'[m].pc \in {"client", "over"} /\ jobs'[m].of \in 1..latest /\ jobs'[m].on \in Systems
  BY <1>1, <1>2, <1>3, <1>6
<1>8. ~crossed' => Now'.state = "FAILED"
  BY <1>1, <1>2, <1>3, <1>4 DEF Now
<1>9. spool' \in {0, spool} /\ crossed' \in BOOLEAN /\ (crossed => crossed')
  BY <1>1, <1>3
<1> QED  BY <1>1, <1>2, <1>3, <1>4, <1>5, <1>7, <1>8, <1>9, RecordMoves

\* A claim assigns the directory and starts a coroutine.
LEMMA ClaimKeeps ==
  ASSUME TiInv, NEW m \in Systems, ClaimTask(m)
  PROVE  TiInv'
<1> DEFINE r == [trec[latest] EXCEPT !.state = "RUNNING", !.member = m, !.cwd = m, !.moved = FALSE]
           y == [of |-> latest, on |-> m, has |-> 0, pc |-> "client"]
<1>1. /\ trec \in [Subs -> InputRec] /\ latest \in Subs /\ latest \in Nat /\ 0 \in Subs
      /\ jobs \in [1..MaxClaims -> PlaceRec] /\ claims \in 0..MaxClaims /\ crossed \in BOOLEAN
  BY InputConstants DEF TiInv, InputsTyped, Subs
<1>2. /\ latest > 0 /\ Now.state = "QUEUED" /\ claims < MaxClaims /\ claims' = claims + 1
      /\ trec' = [trec EXCEPT ![latest] = r] /\ jobs' = [jobs EXCEPT ![claims + 1] = y]
      /\ UNCHANGED <<latest, spool, tdir, saw, staged, crossed>>
  BY DEF ClaimTask
<1>3. claims' \in 0..MaxClaims /\ claims + 1 \in 1..MaxClaims
  BY <1>1, <1>2, InputConstants
<1>4. r \in InputRec /\ r.spooled = trec[latest].spooled /\ r.cwd = m /\ r.member = m
  BY <1>1 DEF InputRec
<1>5. y \in PlaceRec /\ y.of \in 1..latest
  BY <1>1, <1>2 DEF PlaceRec
<1>6. /\ jobs' \in [1..MaxClaims -> PlaceRec]
      /\ \A n \in 1..MaxClaims :
           \/ jobs'[n] = jobs[n]
           \/ jobs'[n].pc \in {"client", "over"} /\ jobs'[n].of \in 1..latest /\ jobs'[n].on \in Systems
  BY <1>1, <1>2, <1>3, <1>5
<1>7. Now'.spooled = Now.spooled
  BY <1>1, <1>2, <1>4 DEF Now
<1>8. ~crossed /\ Now.spooled => spool = latest
  BY <1>2 DEF TiInv, SpoolSurvives
<1> QED  BY <1>1, <1>2, <1>3, <1>4, <1>6, <1>7, <1>8, RecordMoves

\* A pilot's loss queues the task again, and keeps its spool.
LEMMA LossKeeps ==
  ASSUME TiInv, PilotLost
  PROVE  TiInv'
<1> DEFINE r == [trec[latest] EXCEPT !.state = "QUEUED", !.member = "none", !.moved = TRUE]
<1>1. /\ trec \in [Subs -> InputRec] /\ latest \in Subs
      /\ jobs \in [1..MaxClaims -> PlaceRec] /\ claims \in 0..MaxClaims /\ crossed \in BOOLEAN
  BY DEF TiInv, InputsTyped
<1>2. /\ latest > 0 /\ Now.state = "RUNNING" /\ trec' = [trec EXCEPT ![latest] = r]
      /\ UNCHANGED <<spool, latest, tdir, jobs, claims, saw, staged, crossed>>
  BY DEF PilotLost, KeepsSpool
<1>3. r \in InputRec /\ r.spooled = trec[latest].spooled /\ r.moved
  BY <1>1 DEF InputRec
<1>4. Now'.spooled = Now.spooled
  BY <1>1, <1>2, <1>3 DEF Now
<1>5. ~crossed /\ Now.spooled => spool = latest
  BY <1>2 DEF TiInv, SpoolSurvives
<1> QED  BY <1>1, <1>2, <1>3, <1>4, <1>5, RecordMoves

\* A submission makes a new record, with a spool of its own if it has inputs.
LEMMA InputsSubmit ==
  ASSUME TiInv, NEW inputs \in BOOLEAN, SubmitTask(inputs)
  PROVE  TiInv'
<1> DEFINE r == [NoRecord EXCEPT !.state = "QUEUED", !.spooled = inputs]
<1>1. /\ latest \in 0..MaxSubs /\ (latest = 0 \/ latest < MaxSubs) /\ latest' = latest + 1
      /\ trec' = [trec EXCEPT ![latest + 1] = r] /\ spool' = (IF inputs THEN latest + 1 ELSE spool)
      /\ UNCHANGED <<tdir, jobs, claims, saw, staged, crossed>>
  BY DEF SubmitTask, Resubmits, Spooled, TiInv, InputsTyped, Subs
<1>2. latest + 1 \in Subs /\ latest \in Nat
  BY <1>1, InputConstants DEF Subs
<1>3. /\ r \in InputRec /\ r.state = "QUEUED" /\ r.spooled = inputs /\ r.cwd = "none"
  BY DEF InputRec, NoRecord
<1>4. trec \in [Subs -> InputRec] /\ trec'[latest + 1] = r
  BY <1>1, <1>2 DEF TiInv, InputsTyped
<1>5. InputsTyped'
  BY <1>1, <1>2, <1>3 DEF TiInv, InputsTyped
<1>6. CwdFollows'
  BY <1>1, <1>2, <1>3, <1>4 DEF TiInv, CwdFollows
<1>7. PlacesKnown' /\ PutsAreRemote'
  BY <1>1, <1>2 DEF TiInv, PlacesKnown, PutsAreRemote
<1>8. Now' = r
  BY <1>1, <1>4 DEF Now
<1>9. SpoolOwn' /\ SpoolSurvives'
  BY <1>1, <1>3, <1>8 DEF SpoolOwn, SpoolSurvives
<1>10. PlacedSound'
  <2> SUFFICES ASSUME NEW n \in 1..MaxClaims, jobs[n].of = latest + 1
               PROVE  jobs[n].pc \notin {"put", "placed", "sent"}
    BY <1>1 DEF PlacedSound
  <2>1. jobs[n].pc = "none"
    BY <1>2 DEF TiInv, PlacesKnown
  <2> QED  BY <2>1
<1> QED  BY <1>1, <1>5, <1>6, <1>7, <1>9, <1>10 DEF TiInv, StagesLocally

\* A resubmission that cannot write its spool leaves none.
LEMMA SpoolFailsKeeps ==
  ASSUME TiInv, SpoolFails
  PROVE  TiInv'
<1>1. /\ spool' = 0 /\ 0 \in Subs
      /\ latest = 0 \/ Now.state \notin {"QUEUED", "RUNNING"}
      /\ UNCHANGED <<trec, latest, tdir, jobs, claims, saw, staged, crossed>>
  BY InputConstants DEF SpoolFails, Resubmits, Subs
<1>2. latest \in Nat /\ Now' = Now
  BY <1>1, InputConstants DEF TiInv, InputsTyped, Subs, Now
<1>3. InputsTyped'
  BY <1>1 DEF TiInv, InputsTyped
<1>4. SpoolOwn' /\ SpoolSurvives'
  BY <1>1, <1>2 DEF SpoolOwn, SpoolSurvives
<1> QED  BY <1>1, <1>2, <1>3, <1>4
         DEF TiInv, CwdFollows, PlacesKnown, PutsAreRemote, PlacedSound, StagesLocally

\* A stage_in reaches the member's file system, or the task was moved.
LEMMA StageKeeps ==
  ASSUME TiInv, StageIn
  PROVE  TiInv'
<1>1. /\ Now.cwd # "none" /\ Now.member # "remote" /\ staged' = staged \cup {<<Now.cwd, Now.moved>>}
      /\ UNCHANGED <<trec, latest, spool, tdir, jobs, claims, saw, crossed>>
  BY DEF StageIn, BrokerLocal
<1>2. Now \in InputRec /\ latest \in Subs /\ Now' = Now
  BY <1>1 DEF TiInv, InputsTyped, Now
<1>3. Now.cwd \in Systems /\ Now.moved \in BOOLEAN
  BY <1>1, <1>2 DEF InputRec
<1>4. InputsTyped'
  BY <1>1, <1>3 DEF TiInv, InputsTyped
<1>5. Now.cwd = "remote" => Now.moved
  BY <1>1, <1>2 DEF TiInv, CwdFollows, Now
<1>6. StagesLocally'
  BY <1>1, <1>5 DEF TiInv, StagesLocally
<1> QED  BY <1>1, <1>2, <1>4, <1>6
         DEF TiInv, CwdFollows, PlacesKnown, PutsAreRemote, SpoolOwn, SpoolSurvives, PlacedSound

\* Every step keeps TiInv.
LEMMA TiNextKeeps ==
  ASSUME TiInv, [TiNext]_tiVars
  PROVE  TiInv'
<1>1. CASE \E inputs \in BOOLEAN : SubmitTask(inputs)
  BY <1>1, InputsSubmit
<1>2. CASE SpoolFails
  BY <1>2, SpoolFailsKeeps
<1>3. CASE \E m \in Systems : ClaimTask(m)
  BY <1>3, ClaimKeeps
<1>4. ASSUME NEW n \in 1..MaxClaims, NoClient(n) \/ CopyFails(n) \/ PutFails(n)
      PROVE  TiInv'
  <2>1. jobs[n].pc # "none" /\ MarkFailed(n)
    BY <1>4 DEF NoClient, CopyFails, PutFails, FailsTask, JobAt
  <2> QED  BY <2>1, MarkKeeps
<1>5. CASE \E n \in 1..MaxClaims : CopyInputs(n) \/ PutInputs(n) \/ PutLands(n) \/ StartTask(n)
  BY <1>5, CopyKeeps, PutKeeps, LandsKeeps, InputsStart
<1>6. CASE \E st \in {"DONE", "FAILED"} : TaskTerminal(st)
  <2>1. PICK st \in {"DONE", "FAILED"} : TaskTerminal(st)
    BY <1>6
  <2>2. st \in TEnded /\ latest > 0 /\ EndsAs(st)
    BY <2>1 DEF TaskTerminal, TEnded
  <2> QED  BY <2>2, EndKeeps
<1>7. CASE CancelSubmitted
  <2>1. "CANCELED" \in TEnded /\ latest > 0 /\ EndsAs("CANCELED")
    BY <1>7 DEF CancelSubmitted, TEnded
  <2> QED  BY <2>1, EndKeeps
<1>8. CASE PilotLost
  BY <1>8, LossKeeps
<1>9. CASE StageIn
  BY <1>9, StageKeeps
<1>10. CASE UNCHANGED tiVars
  BY <1>10 DEF tiVars, TiInv, InputsTyped, CwdFollows, PlacesKnown, PutsAreRemote, SpoolOwn,
               SpoolSurvives, PlacedSound, StagesLocally, Now
<1> QED  BY <1>1, <1>2, <1>3, <1>4, <1>5, <1>6, <1>7, <1>8, <1>9, <1>10 DEF TiNext

\* Nothing was submitted yet.
LEMMA TiInitSound ==
  ASSUME TiInit
  PROVE  TiInv
<1>1. NoRecord \in InputRec /\ 0 \in Subs /\ 0 \in 0..MaxClaims
  BY InputConstants DEF NoRecord, InputRec, Subs
<1>2. [of |-> 0, on |-> "none", has |-> 0, pc |-> "none"] \in PlaceRec
  BY <1>1 DEF PlaceRec
<1>3. InputsTyped
  BY <1>1, <1>2 DEF TiInit, InputsTyped
<1>4. Now = NoRecord
  BY <1>1 DEF TiInit, Now
<1> QED  BY <1>3, <1>4 DEF TiInit, NoRecord, TiInv, CwdFollows, PlacesKnown, PutsAreRemote,
                           SpoolOwn, SpoolSurvives, PlacedSound, StagesLocally

\* A task that is queued or runs keeps its own inputs in the spool, and is
\* started on them, however often it moved between pilots, unless an earlier
\* submission's placement ended behind its back; stage_in writes only where
\* the broker reaches the member's file system (_place_inputs, drop_spool,
\* stage_in).
THEOREM InputsArePlaced ==
  TiSpec => [](TiTypeOK /\ SpoolSurvives /\ StartedOnOwn /\ StagesLocally)
<1>1. TiInit => TiInv
  BY TiInitSound
<1>2. TiInv /\ [TiNext]_tiVars => TiInv'
  BY TiNextKeeps
<1>3. TiInv => TiTypeOK /\ SpoolSurvives /\ StartedOnOwn /\ StagesLocally
  BY TiImplies
<1> QED  BY <1>1, <1>2, <1>3, PTL DEF TiSpec

-----------------------------------------------------------------------------
(***************************************************************************)
(* Reports and writes in batches (TaskBatches).                            *)
(***************************************************************************)

Payloads == TbUids \X Nat \X ({"RUNNING"} \cup TbEnds)
TbStates == TbLive \cup TbEnds \cup {"none"}
Pairs == [q : [buf : Seq(Payloads), dirty : SUBSET TbPools, sched : BOOLEAN, timers : Nat,
               frame : Seq(Payloads)],
          disk : [TbUids -> TbStates]]

\* A payload that ends the submission that is current.
BatchEndsCurrent(e, tries) == e[2] = tries[e[1]] /\ e[3] \in TbEnds
Truthful(e, task, tries) == e[2] <= tries[e[1]] /\ (BatchEndsCurrent(e, tries) => task[e[1]] = e[3])

NoneOf(s, u) == \A i \in 1..Len(s) : s[i][1] # u
\* The last that s says of u is how it is.
Tells(s, e) == \E i \in 1..Len(s) : s[i] = e /\ \A j \in i + 1..Len(s) : s[j][1] # e[1]

SoonOnDisk(x, task, u) == x.disk[u] = task[u] \/ TbPool[u] \in x.q.dirty
\* What clients know of u, or will from the frame and the buffer.
Heard(x, task, tries, told, u) ==
  LET e == <<u, tries[u], task[u]>> IN
  \/ Tells(x.q.buf, e)
  \/ NoneOf(x.q.buf, u) /\ Tells(x.q.frame, e)
  \/ NoneOf(x.q.buf, u) /\ NoneOf(x.q.frame, u) /\ told[u] = task[u]

\* A queue and a ledger that belong together, in the middle of a step too: S has
\* the ends clients hear of, H those that ended before the shutdown began.
Together(x, task, tries, told, S, H) ==
  /\ x \in Pairs
  /\ \A i \in 1..Len(x.q.buf) : LET e == x.q.buf[i] IN
       Truthful(e, task, tries) /\ (BatchEndsCurrent(e, tries) => SoonOnDisk(x, task, e[1]))
  /\ \A i \in 1..Len(x.q.frame) : LET e == x.q.frame[i] IN
       Truthful(e, task, tries) /\ (BatchEndsCurrent(e, tries) => x.disk[e[1]] = task[e[1]])
  /\ \A u \in TbUids : told[u] \in TbEnds => task[u] = told[u] /\ x.disk[u] = told[u]
  /\ \A u \in S : SoonOnDisk(x, task, u) /\ Heard(x, task, tries, told, u)
  /\ \A u \in H : NoneOf(x.q.buf, u) /\ x.disk[u] = task[u]
  /\ \A u \in TbUids : task[u] # "none" \/ x.disk[u] # "none" => TbPool[u] \in TbPools

\* Whatever waits has a flush coming.
Comes(q) ==
  /\ Len(q.buf) < TbBatch
  /\ q.sched => q.timers > 0
  /\ q.buf # <<>> \/ q.dirty # {} => q.sched

\* Variables have their types.
TbTyped ==
  /\ tbTask \in [TbUids -> TbStates] /\ tbDisk \in [TbUids -> TbStates]
  /\ tbTries \in [TbUids -> Nat] /\ tbTold \in [TbUids -> {"none", "RUNNING"} \cup TbEnds]
  /\ tbLife \in {"up", "ending", "down"} /\ tbHeld \subseteq TbUids /\ tbStops \in Nat

Sure == {u \in TbUids : tbStops = 0 /\ tbTask[u] \in TbEnds}
Safe == {u \in tbHeld : tbStops = 0}

TbInv ==
  /\ TbTyped
  /\ Together(Before, tbTask, tbTries, tbTold, Sure, Safe) /\ Comes(tbQueue)
  /\ Safe \subseteq Sure /\ (tbLife = "up" => tbHeld = {})
  /\ tbLife = "down" => tbQueue.frame = <<>>

-----------------------------------------------------------------------------
\* The parts of a payload.
LEMMA PayloadFacts ==
  ASSUME NEW e \in Payloads
  PROVE  e[1] \in TbUids /\ e[2] \in Nat /\ e[3] \in {"RUNNING"} \cup TbEnds
BY DEF Payloads

\* Payloads after others: what is said last counts.
LEMMA ConcatTells ==
  ASSUME NEW p \in Seq(Payloads), NEW q \in Seq(Payloads), NEW e
  PROVE  /\ Tells(q, e) => Tells(p \o q, e)
         /\ Tells(p, e) /\ NoneOf(q, e[1]) => Tells(p \o q, e)
         /\ NoneOf(p, e[1]) /\ NoneOf(q, e[1]) => NoneOf(p \o q, e[1])
<1>0. /\ Len(p) \in Nat /\ Len(q) \in Nat /\ Len(p \o q) = Len(p) + Len(q)
      /\ \A i \in 1..Len(p) : (p \o q)[i] = p[i]
      /\ \A i \in Len(p) + 1..Len(p) + Len(q) : (p \o q)[i] = q[i - Len(p)]
  BY ConcatFacts
<1>1. \A i \in 1..Len(q) : i + Len(p) \in Len(p) + 1..Len(p) + Len(q) /\ (i + Len(p)) - Len(p) = i
  BY <1>0
<1>2. \A j \in 1..Len(p) + Len(q) : j \in 1..Len(p) \/ (j - Len(p) \in 1..Len(q) /\ (p \o q)[j] = q[j - Len(p)])
  BY <1>0
<1>3. ASSUME Tells(q, e)
      PROVE  Tells(p \o q, e)
  <2>1. PICK i \in 1..Len(q) : q[i] = e /\ \A j \in i + 1..Len(q) : q[j][1] # e[1]
    BY <1>3 DEF Tells
  <2>2. i + Len(p) \in 1..Len(p \o q) /\ (p \o q)[i + Len(p)] = e
    BY <1>0, <1>1, <2>1
  <2>3. \A j \in (i + Len(p)) + 1..Len(p \o q) : (p \o q)[j][1] # e[1]
    <3> SUFFICES ASSUME NEW j \in (i + Len(p)) + 1..Len(p \o q)
                 PROVE  (p \o q)[j][1] # e[1]
      OBVIOUS
    <3>1. j \in Len(p) + 1..Len(p) + Len(q) /\ j - Len(p) \in i + 1..Len(q)
      BY <1>0
    <3> QED  BY <1>0, <2>1, <3>1
  <2> QED  BY <2>2, <2>3 DEF Tells
<1>4. ASSUME Tells(p, e), NoneOf(q, e[1])
      PROVE  Tells(p \o q, e)
  <2>1. PICK i \in 1..Len(p) : p[i] = e /\ \A j \in i + 1..Len(p) : p[j][1] # e[1]
    BY <1>4 DEF Tells
  <2>2. i \in 1..Len(p \o q) /\ (p \o q)[i] = e
    BY <1>0, <2>1
  <2>3. \A j \in i + 1..Len(p \o q) : (p \o q)[j][1] # e[1]
    <3> SUFFICES ASSUME NEW j \in i + 1..Len(p \o q)
                 PROVE  (p \o q)[j][1] # e[1]
      OBVIOUS
    <3>1. CASE j \in 1..Len(p)
      BY <1>0, <2>1, <3>1
    <3>2. CASE j - Len(p) \in 1..Len(q) /\ (p \o q)[j] = q[j - Len(p)]
      BY <1>4, <3>2 DEF NoneOf
    <3> QED  BY <1>0, <1>2, <3>1, <3>2
  <2> QED  BY <2>2, <2>3 DEF Tells
<1>5. ASSUME NoneOf(p, e[1]), NoneOf(q, e[1])
      PROVE  NoneOf(p \o q, e[1])
  <2> SUFFICES ASSUME NEW j \in 1..Len(p \o q)
               PROVE  (p \o q)[j][1] # e[1]
    BY DEF NoneOf
  <2>1. CASE j \in 1..Len(p)
    BY <1>0, <1>5, <2>1 DEF NoneOf
  <2>2. CASE j - Len(p) \in 1..Len(q) /\ (p \o q)[j] = q[j - Len(p)]
    BY <1>5, <2>2 DEF NoneOf
  <2> QED  BY <1>0, <1>2, <2>1, <2>2
<1> QED  BY <1>3, <1>4, <1>5

\* One more payload.
LEMMA AppendTells ==
  ASSUME NEW s \in Seq(Payloads), NEW e \in Payloads, NEW d
  PROVE  /\ Tells(Append(s, e), e)
         /\ Tells(s, d) /\ e[1] # d[1] => Tells(Append(s, e), d)
         /\ NoneOf(s, d[1]) /\ e[1] # d[1] => NoneOf(Append(s, e), d[1])
<1>0. /\ Len(s) \in Nat /\ Len(Append(s, e)) = Len(s) + 1
      /\ \A i \in 1..Len(s) + 1 : Append(s, e)[i] = IF i = Len(s) + 1 THEN e ELSE s[i]
  BY AppendFacts
<1>1. Tells(Append(s, e), e)
  <2>1. Len(s) + 1 \in 1..Len(Append(s, e)) /\ Append(s, e)[Len(s) + 1] = e
        /\ \A j \in (Len(s) + 1) + 1..Len(Append(s, e)) : FALSE
    BY <1>0
  <2> QED  BY <2>1 DEF Tells
<1>2. ASSUME Tells(s, d), e[1] # d[1]
      PROVE  Tells(Append(s, e), d)
  <2>1. PICK i \in 1..Len(s) : s[i] = d /\ \A j \in i + 1..Len(s) : s[j][1] # d[1]
    BY <1>2 DEF Tells
  <2>2. i \in 1..Len(Append(s, e)) /\ Append(s, e)[i] = d
    BY <1>0, <2>1
  <2>3. \A j \in i + 1..Len(Append(s, e)) : Append(s, e)[j][1] # d[1]
    BY <1>0, <1>2, <2>1
  <2> QED  BY <2>2, <2>3 DEF Tells
<1>3. ASSUME NoneOf(s, d[1]), e[1] # d[1]
      PROVE  NoneOf(Append(s, e), d[1])
  BY <1>0, <1>3 DEF NoneOf
<1> QED  BY <1>1, <1>2, <1>3

\* The first payload is taken.
LEMMA TailTells ==
  ASSUME NEW s \in Seq(Payloads), s # <<>>, NEW d
  PROVE  /\ Tells(s, d) => Tells(Tail(s), d) \/ (s[1] = d /\ NoneOf(Tail(s), d[1]))
         /\ NoneOf(s, d[1]) => NoneOf(Tail(s), d[1]) /\ s[1][1] # d[1]
<1>0. /\ Len(s) \in Nat /\ Len(s) >= 1 /\ Len(Tail(s)) = Len(s) - 1
      /\ \A i \in 1..Len(s) - 1 : Tail(s)[i] = s[i + 1]
  BY TailFacts
<1>1. ASSUME Tells(s, d)
      PROVE  Tells(Tail(s), d) \/ (s[1] = d /\ NoneOf(Tail(s), d[1]))
  <2>1. PICK i \in 1..Len(s) : s[i] = d /\ \A j \in i + 1..Len(s) : s[j][1] # d[1]
    BY <1>1 DEF Tells
  <2>2. CASE i = 1
    <3>1. \A j \in 1..Len(Tail(s)) : j + 1 \in i + 1..Len(s) /\ Tail(s)[j] = s[j + 1]
      BY <1>0, <2>2
    <3> QED  BY <2>1, <2>2, <3>1 DEF NoneOf
  <2>3. CASE i # 1
    <3>1. i - 1 \in 1..Len(Tail(s)) /\ Tail(s)[i - 1] = d
      BY <1>0, <2>1, <2>3
    <3>2. \A j \in (i - 1) + 1..Len(Tail(s)) : j + 1 \in i + 1..Len(s) /\ Tail(s)[j] = s[j + 1]
      BY <1>0, <2>3
    <3> QED  BY <2>1, <3>1, <3>2 DEF Tells
  <2> QED  BY <2>2, <2>3
<1>2. ASSUME NoneOf(s, d[1])
      PROVE  NoneOf(Tail(s), d[1]) /\ s[1][1] # d[1]
  <2>1. 1 \in 1..Len(s) /\ \A j \in 1..Len(Tail(s)) : j + 1 \in 1..Len(s) /\ Tail(s)[j] = s[j + 1]
    BY <1>0
  <2> QED  BY <1>2, <2>1 DEF NoneOf
<1> QED  BY <1>1, <1>2

-----------------------------------------------------------------------------
\* The parts of a queue with its ledger.
LEMMA PairFacts ==
  ASSUME NEW x \in Pairs
  PROVE  /\ x.q.buf \in Seq(Payloads) /\ x.q.frame \in Seq(Payloads) /\ x.q.dirty \subseteq TbPools
         /\ x.q.sched \in BOOLEAN /\ x.q.timers \in Nat /\ x.disk \in [TbUids -> TbStates]
BY DEF Pairs

\* A ledger saved in part.
LEMMA SavedFacts ==
  ASSUME NEW onDisk \in [TbUids -> TbStates], NEW task \in [TbUids -> TbStates], NEW ps
  PROVE  /\ Saved(onDisk, task, ps) \in [TbUids -> TbStates]
         /\ \A u \in TbUids : Saved(onDisk, task, ps)[u] = IF TbPool[u] \in ps THEN task[u] ELSE onDisk[u]
BY DEF Saved

\* y is x with some pools saved.
SavedBy(x, task, ps, y) == y = [x EXCEPT !.disk = Saved(@, task, ps)]

\* The ledger is saved for some pools: what was on disk as it is still is.
LEMMA SaveSound ==
  ASSUME NEW x, NEW task \in [TbUids -> TbStates], NEW tries \in [TbUids -> Nat], NEW told,
         NEW S \in SUBSET TbUids, NEW H \in SUBSET TbUids, NEW ps, NEW y,
         SavedBy(x, task, ps, y), Together(x, task, tries, told, S, H)
  PROVE  Together(y, task, tries, told, S, H) /\ y.q = x.q
<1>1. x \in Pairs
  BY DEF Together
<1>2. /\ x.q.buf \in Seq(Payloads) /\ x.q.frame \in Seq(Payloads) /\ x.disk \in [TbUids -> TbStates]
  BY <1>1, PairFacts
<1>3. y \in Pairs /\ y.q = x.q /\ y.disk = Saved(x.disk, task, ps)
  <2>1. Saved(x.disk, task, ps) \in [TbUids -> TbStates]
    BY <1>2, SavedFacts
  <2> QED  BY <1>1, <2>1 DEF Pairs, SavedBy
<1>4. \A u \in TbUids : x.disk[u] = task[u] => y.disk[u] = task[u]
  <2>1. PICK onDisk \in [TbUids -> TbStates] : onDisk = x.disk
    BY <1>2
  <2>2. \A u \in TbUids : Saved(onDisk, task, ps)[u] = IF TbPool[u] \in ps THEN task[u] ELSE onDisk[u]
    BY SavedFacts
  <2> QED  BY <1>3, <2>1, <2>2
<1>5. \A u \in TbUids : SoonOnDisk(x, task, u) => SoonOnDisk(y, task, u)
  BY <1>3, <1>4 DEF SoonOnDisk
<1>6. \A u \in TbUids : Heard(x, task, tries, told, u) <=> Heard(y, task, tries, told, u)
  BY <1>3, Zenon DEF Heard
<1>7. \A i \in 1..Len(y.q.buf) : y.q.buf[i][1] \in TbUids
  BY <1>2, <1>3, SeqElements, PayloadFacts
<1>8. \A i \in 1..Len(y.q.frame) : y.q.frame[i][1] \in TbUids
  BY <1>2, <1>3, SeqElements, PayloadFacts
<1>a. \A i \in 1..Len(y.q.buf) : LET e == y.q.buf[i] IN
        Truthful(e, task, tries) /\ (BatchEndsCurrent(e, tries) => SoonOnDisk(y, task, e[1]))
  <2>1. \A i \in 1..Len(x.q.buf) : LET e == x.q.buf[i] IN
          Truthful(e, task, tries) /\ (BatchEndsCurrent(e, tries) => SoonOnDisk(x, task, e[1]))
    BY DEF Together
  <2> QED  BY <1>3, <1>5, <1>7, <2>1
<1>b. \A i \in 1..Len(y.q.frame) : LET e == y.q.frame[i] IN
        Truthful(e, task, tries) /\ (BatchEndsCurrent(e, tries) => y.disk[e[1]] = task[e[1]])
  <2>1. \A i \in 1..Len(x.q.frame) : LET e == x.q.frame[i] IN
          Truthful(e, task, tries) /\ (BatchEndsCurrent(e, tries) => x.disk[e[1]] = task[e[1]])
    BY DEF Together
  <2> QED  BY <1>3, <1>4, <1>8, <2>1
<1>c. \A u \in TbUids : told[u] \in TbEnds => task[u] = told[u] /\ y.disk[u] = told[u]
  <2>1. \A u \in TbUids : told[u] \in TbEnds => task[u] = told[u] /\ x.disk[u] = told[u]
    BY DEF Together
  <2> QED  BY <1>4, <2>1
<1>d. \A u \in S : SoonOnDisk(y, task, u) /\ Heard(y, task, tries, told, u)
  <2>1. \A u \in S : SoonOnDisk(x, task, u) /\ Heard(x, task, tries, told, u)
    BY DEF Together
  <2> QED  BY <1>5, <1>6, <2>1
<1>e. \A u \in H : NoneOf(y.q.buf, u) /\ y.disk[u] = task[u]
  <2>1. \A u \in H : NoneOf(x.q.buf, u) /\ x.disk[u] = task[u]
    BY DEF Together
  <2> QED  BY <1>3, <1>4, <2>1
<1>k. \A u \in TbUids : task[u] # "none" \/ y.disk[u] # "none" => TbPool[u] \in TbPools
  <2>1. \A u \in TbUids : task[u] # "none" \/ x.disk[u] # "none" => TbPool[u] \in TbPools
    BY DEF Together
  <2>2. \A u \in TbUids : y.disk[u] \in {task[u], x.disk[u]}
    BY <1>2, <1>3 DEF Saved
  <2> QED  BY <2>1, <2>2
<1>9. Together(y, task, tries, told, S, H)
  BY <1>3, <1>a, <1>b, <1>c, <1>d, <1>e, <1>k DEF Together
<1> QED  BY <1>3, <1>9

\* A flush saves what is dirty and takes the buffer.
LEMMA FlushSound ==
  ASSUME NEW x, NEW task \in [TbUids -> TbStates], NEW tries \in [TbUids -> Nat], NEW told,
         NEW S \in SUBSET TbUids, NEW H \in SUBSET TbUids,
         Together(x, task, tries, told, S, H)
  PROVE  /\ Together(TbFlushed(x, task), task, tries, told, S, H) /\ Comes(TbFlushed(x, task).q)
         /\ TbFlushed(x, task).q.buf = <<>>
         /\ \A u \in S : TbFlushed(x, task).disk[u] = task[u]
<1>1. x \in Pairs
  BY DEF Together
<1>2. /\ x.q.buf \in Seq(Payloads) /\ x.q.frame \in Seq(Payloads) /\ x.disk \in [TbUids -> TbStates]
      /\ x.q.dirty \subseteq TbPools /\ x.q.sched \in BOOLEAN /\ x.q.timers \in Nat
  BY <1>1, PairFacts
<1>p. PICK bu \in Seq(Payloads), fr \in Seq(Payloads) : bu = x.q.buf /\ fr = x.q.frame
  BY <1>2
<1>q. fr \o bu \in Seq(Payloads)
  BY ConcatFacts
<1>s. /\ Saved(x.disk, task, x.q.dirty) \in [TbUids -> TbStates]
      /\ \A u \in TbUids : Saved(x.disk, task, x.q.dirty)[u]
                           = IF TbPool[u] \in x.q.dirty THEN task[u] ELSE x.disk[u]
  <2>0. PICK onDisk \in [TbUids -> TbStates] : onDisk = x.disk
    BY <1>2
  <2>1. PICK ps : ps = x.q.dirty
    OBVIOUS
  <2>2. /\ Saved(onDisk, task, ps) \in [TbUids -> TbStates]
        /\ \A u \in TbUids : Saved(onDisk, task, ps)[u] = IF TbPool[u] \in ps THEN task[u] ELSE onDisk[u]
    BY SavedFacts
  <2> QED  BY <2>0, <2>1, <2>2
<1>y. PICK y : y = TbFlushed(x, task)
  OBVIOUS
<1>3. /\ y.q.buf = <<>> /\ y.q.dirty = {} /\ y.q.sched = FALSE /\ y.q.timers = x.q.timers
      /\ y.q.frame = fr \o bu /\ y.disk = Saved(x.disk, task, x.q.dirty)
  BY <1>1, <1>p, <1>y DEF TbFlushed, Pairs
<1>4. y \in Pairs
  <2>1. [x.q EXCEPT !.sched = FALSE, !.buf = <<>>, !.dirty = {}, !.frame = fr \o bu]
        \in [buf : Seq(Payloads), dirty : SUBSET TbPools, sched : BOOLEAN, timers : Nat, frame : Seq(Payloads)]
    <3>1. <<>> \in Seq(Payloads)
      OBVIOUS
    <3>2. x.q \in [buf : Seq(Payloads), dirty : SUBSET TbPools, sched : BOOLEAN, timers : Nat, frame : Seq(Payloads)]
      BY <1>1 DEF Pairs
    <3> QED  BY <1>q, <3>1, <3>2
  <2>2. y = [q |-> [x.q EXCEPT !.sched = FALSE, !.buf = <<>>, !.dirty = {}, !.frame = fr \o bu],
             disk |-> Saved(x.disk, task, x.q.dirty)]
    BY <1>p, <1>y DEF TbFlushed
  <2> QED  BY <1>s, <2>1, <2>2 DEF Pairs
<1>5. \A u \in TbUids : SoonOnDisk(x, task, u) => y.disk[u] = task[u]
  BY <1>3, <1>s DEF SoonOnDisk
<1>6. \A u \in TbUids : x.disk[u] = task[u] => y.disk[u] = task[u]
  BY <1>5 DEF SoonOnDisk
<1>7. \A u : NoneOf(<<>>, u)
  BY DEF NoneOf
<1>a. \A i \in 1..Len(y.q.buf) : LET e == y.q.buf[i] IN
        Truthful(e, task, tries) /\ (BatchEndsCurrent(e, tries) => SoonOnDisk(y, task, e[1]))
  BY <1>3
<1>b. \A i \in 1..Len(y.q.frame) : LET e == y.q.frame[i] IN
        Truthful(e, task, tries) /\ (BatchEndsCurrent(e, tries) => y.disk[e[1]] = task[e[1]])
  <2> SUFFICES ASSUME NEW i \in 1..Len(fr \o bu), NEW e, e = (fr \o bu)[i]
               PROVE  Truthful(e, task, tries) /\ (BatchEndsCurrent(e, tries) => y.disk[e[1]] = task[e[1]])
    BY <1>3
  <2>0. /\ Len(fr) \in Nat /\ Len(bu) \in Nat /\ Len(fr \o bu) = Len(fr) + Len(bu)
        /\ \A j \in 1..Len(fr) : (fr \o bu)[j] = fr[j]
        /\ \A j \in Len(fr) + 1..Len(fr) + Len(bu) : (fr \o bu)[j] = bu[j - Len(fr)]
    BY ConcatFacts
  <2>1. CASE i \in 1..Len(fr)
    <3>1. e = fr[i] /\ e[1] \in TbUids
      BY <2>0, <2>1, SeqElements, PayloadFacts
    <3>2. Truthful(e, task, tries) /\ (BatchEndsCurrent(e, tries) => x.disk[e[1]] = task[e[1]])
      <4>1. \A k \in 1..Len(fr) : Truthful(fr[k], task, tries)
              /\ (BatchEndsCurrent(fr[k], tries) => x.disk[fr[k][1]] = task[fr[k][1]])
        BY <1>p DEF Together
      <4> QED  BY <2>1, <3>1, <4>1
    <3> QED  BY <1>6, <3>1, <3>2
  <2>2. CASE i \in Len(fr) + 1..Len(fr) + Len(bu)
    <3>1. PICK j \in 1..Len(bu) : j = i - Len(fr)
      BY <2>0, <2>2
    <3>2. e = bu[j] /\ e[1] \in TbUids
      BY <2>0, <2>2, <3>1, SeqElements, PayloadFacts
    <3>3. Truthful(e, task, tries) /\ (BatchEndsCurrent(e, tries) => SoonOnDisk(x, task, e[1]))
      BY <1>p, <3>1, <3>2 DEF Together
    <3> QED  BY <1>5, <3>2, <3>3
  <2> QED  BY <2>0, <2>1, <2>2
<1>c. \A u \in TbUids : told[u] \in TbEnds => task[u] = told[u] /\ y.disk[u] = told[u]
  <2>1. \A u \in TbUids : told[u] \in TbEnds => task[u] = told[u] /\ x.disk[u] = told[u]
    BY DEF Together
  <2> QED  BY <1>6, <2>1
<1>d. \A u \in S : y.disk[u] = task[u] /\ SoonOnDisk(y, task, u)
  <2>1. \A u \in S : SoonOnDisk(x, task, u)
    BY DEF Together
  <2> QED  BY <1>5, <2>1 DEF SoonOnDisk
<1>e. \A u \in S : Heard(y, task, tries, told, u)
  <2> SUFFICES ASSUME NEW u \in S
               PROVE  Heard(y, task, tries, told, u)
    OBVIOUS
  <2>1. Heard(x, task, tries, told, u)
    BY DEF Together
  <2>e. PICK e : e = <<u, tries[u], task[u]>>
    OBVIOUS
  <2>2. e = <<u, tries[u], task[u]>> /\ e[1] = u
    BY <2>e
  <2>3. \/ Tells(bu, e)
        \/ NoneOf(bu, u) /\ Tells(fr, e)
        \/ NoneOf(bu, u) /\ NoneOf(fr, u) /\ told[u] = task[u]
    BY <1>p, <2>1, <2>2, Zenon DEF Heard
  <2>4. Tells(fr \o bu, e) \/ (NoneOf(fr \o bu, u) /\ told[u] = task[u])
    BY <2>2, <2>3, ConcatTells
  <2> QED  BY <1>3, <1>7, <2>2, <2>4, Zenon DEF Heard
<1>f. \A u \in H : NoneOf(y.q.buf, u) /\ y.disk[u] = task[u]
  <2>1. \A u \in H : x.disk[u] = task[u]
    BY DEF Together
  <2> QED  BY <1>3, <1>6, <1>7, <2>1
<1>k. \A u \in TbUids : task[u] # "none" \/ y.disk[u] # "none" => TbPool[u] \in TbPools
  <2>1. \A u \in TbUids : task[u] # "none" \/ x.disk[u] # "none" => TbPool[u] \in TbPools
    BY DEF Together
  <2> QED  BY <1>3, <1>s, <2>1
<1>8. Together(y, task, tries, told, S, H)
  BY <1>4, <1>a, <1>b, <1>c, <1>d, <1>e, <1>f, <1>k DEF Together
<1>9. Comes(y.q)
  <2>1. Len(y.q.buf) = 0
    BY <1>3
  <2> QED  BY <1>3, <2>1, BatchConstants DEF Comes
<1> QED  BY <1>3, <1>8, <1>9, <1>d, <1>y

\* Neither the buffer nor the frame nor the ledger changes.
LEMMA SameSound ==
  ASSUME NEW x, NEW y \in Pairs, NEW task, NEW tries, NEW told, NEW S, NEW H,
         Together(x, task, tries, told, S, H),
         y.q.buf = x.q.buf, y.q.frame = x.q.frame, y.disk = x.disk, x.q.dirty \subseteq y.q.dirty
  PROVE  Together(y, task, tries, told, S, H)
<1>1. \A u : SoonOnDisk(x, task, u) => SoonOnDisk(y, task, u)
  BY DEF SoonOnDisk
<1>2. \A u : Heard(x, task, tries, told, u) => Heard(y, task, tries, told, u)
  BY Zenon DEF Heard
<1>a. \A i \in 1..Len(y.q.buf) : LET e == y.q.buf[i] IN
        Truthful(e, task, tries) /\ (BatchEndsCurrent(e, tries) => SoonOnDisk(y, task, e[1]))
  <2>1. \A i \in 1..Len(x.q.buf) : LET e == x.q.buf[i] IN
          Truthful(e, task, tries) /\ (BatchEndsCurrent(e, tries) => SoonOnDisk(x, task, e[1]))
    BY DEF Together
  <2> QED  BY <1>1, <2>1
<1>b. \A i \in 1..Len(y.q.frame) : LET e == y.q.frame[i] IN
        Truthful(e, task, tries) /\ (BatchEndsCurrent(e, tries) => y.disk[e[1]] = task[e[1]])
  BY DEF Together
<1>c. \A u \in TbUids : told[u] \in TbEnds => task[u] = told[u] /\ y.disk[u] = told[u]
  BY DEF Together
<1>d. \A u \in S : SoonOnDisk(y, task, u) /\ Heard(y, task, tries, told, u)
  <2>1. \A u \in S : SoonOnDisk(x, task, u) /\ Heard(x, task, tries, told, u)
    BY DEF Together
  <2> QED  BY <1>1, <1>2, <2>1
<1>e. \A u \in H : NoneOf(y.q.buf, u) /\ y.disk[u] = task[u]
  BY DEF Together
<1>k. \A u \in TbUids : task[u] # "none" \/ y.disk[u] # "none" => TbPool[u] \in TbPools
  BY DEF Together
<1> QED  BY <1>a, <1>b, <1>c, <1>d, <1>e, <1>k DEF Together

\* A flush is asked for unless one is.
LEMMA ArmedFacts ==
  ASSUME NEW x \in Pairs, x.q.sched => x.q.timers > 0, Len(x.q.buf) < TbBatch
  PROVE  /\ [x EXCEPT !.q = Armed(@)] \in Pairs
         /\ LET y == [x EXCEPT !.q = Armed(@)] IN
              y.q.buf = x.q.buf /\ y.q.frame = x.q.frame /\ y.q.dirty = x.q.dirty /\ y.disk = x.disk
         /\ Comes([x EXCEPT !.q = Armed(@)].q)
<1> DEFINE Qs == [buf : Seq(Payloads), dirty : SUBSET TbPools, sched : BOOLEAN, timers : Nat, frame : Seq(Payloads)]
<1>1. x.q \in Qs /\ x.disk \in [TbUids -> TbStates] /\ x = [q |-> x.q, disk |-> x.disk]
  BY DEF Pairs
<1>2. PICK q \in Qs : q = x.q
  BY <1>1
<1>3. /\ Armed(q) \in Qs
      /\ Armed(q).buf = q.buf /\ Armed(q).frame = q.frame /\ Armed(q).dirty = q.dirty
      /\ Armed(q).sched /\ Armed(q).timers > 0
  <2>1. CASE q.sched
    <3>1. Armed(q) = q
      BY <2>1 DEF Armed
    <3> QED  BY <1>2, <2>1, <3>1
  <2>2. CASE ~q.sched
    <3>1. PICK n \in Nat : n = q.timers + 1 /\ n > 0
      <4>1. q.timers \in Nat
        OBVIOUS
      <4> QED  BY <4>1
    <3>2. Armed(q) = [q EXCEPT !.sched = TRUE, !.timers = n]
      BY <2>2, <3>1 DEF Armed
    <3>4. PICK w : w = Armed(q)
      OBVIOUS
    <3>5. w = [q EXCEPT !.sched = TRUE, !.timers = n]
      BY <3>2, <3>4
    <3>6. w.buf = q.buf /\ w.frame = q.frame /\ w.dirty = q.dirty /\ w.timers = n
      BY <3>5
    <3>7. w.sched = TRUE
      BY <3>5
    <3>8. w \in Qs
      BY <3>5
    <3> HIDE DEF Qs
    <3> QED  BY <3>1, <3>4, <3>6, <3>7, <3>8
  <2> QED  BY <2>1, <2>2
<1>4. [x EXCEPT !.q = Armed(@)] = [q |-> Armed(q), disk |-> x.disk]
  BY <1>1, <1>2
<1>5. Comes(Armed(q))
  BY <1>2, <1>3 DEF Comes
<1> HIDE DEF Qs
<1>6. [q |-> Armed(q), disk |-> x.disk] \in Pairs
  BY <1>1, <1>3 DEF Pairs, Qs
<1> QED  BY <1>2, <1>3, <1>4, <1>5, <1>6

\* A pool is marked.
LEMMA MarkSound ==
  ASSUME NEW x, NEW task, NEW tries, NEW told, NEW S, NEW H, NEW p \in TbPools,
         Together(x, task, tries, told, S, H), Comes(x.q)
  PROVE  /\ Together(MarkedDirty(x, p), task, tries, told, S, H) /\ Comes(MarkedDirty(x, p).q)
         /\ p \in MarkedDirty(x, p).q.dirty
<1> DEFINE Qs == [buf : Seq(Payloads), dirty : SUBSET TbPools, sched : BOOLEAN, timers : Nat, frame : Seq(Payloads)]
<1>1. x \in Pairs
  BY DEF Together
<1>2. x.q \in Qs /\ x.disk \in [TbUids -> TbStates] /\ x = [q |-> x.q, disk |-> x.disk]
  BY <1>1 DEF Pairs
<1>3. PICK z : z = [q |-> [x.q EXCEPT !.dirty = @ \cup {p}], disk |-> x.disk]
  OBVIOUS
<1>4. /\ z.q.buf = x.q.buf /\ z.q.frame = x.q.frame /\ z.disk = x.disk /\ x.q.dirty \subseteq z.q.dirty
      /\ p \in z.q.dirty /\ z.q.sched = x.q.sched /\ z.q.timers = x.q.timers
      /\ z.q = [x.q EXCEPT !.dirty = @ \cup {p}]
  BY <1>2, <1>3
<1>5. z \in Pairs
  BY <1>2, <1>3 DEF Pairs
<1>6. Together(z, task, tries, told, S, H)
  BY <1>4, <1>5, SameSound
<1>7. (z.q.sched => z.q.timers > 0) /\ Len(z.q.buf) < TbBatch
  BY <1>4 DEF Comes
<1>8. PICK y : y = [z EXCEPT !.q = Armed(@)]
  OBVIOUS
<1>9. /\ y \in Pairs /\ Comes(y.q)
      /\ y.q.buf = z.q.buf /\ y.q.frame = z.q.frame /\ y.q.dirty = z.q.dirty /\ y.disk = z.disk
  BY <1>5, <1>7, <1>8, ArmedFacts
<1>10. Together(y, task, tries, told, S, H)
  BY <1>6, <1>9, SameSound
<1>11. y = MarkedDirty(x, p)
  <2>1. PICK w : w = Armed(z.q)
    OBVIOUS
  <2>2. w = Armed([x.q EXCEPT !.dirty = @ \cup {p}])
    BY <1>4, <2>1
  <2>3. MarkedDirty(x, p) = [x EXCEPT !.q = w]
    BY <2>2 DEF MarkedDirty
  <2>4. y = [z EXCEPT !.q = w]
    BY <1>8, <2>1
  <2> QED  BY <1>2, <1>3, <2>3, <2>4
<1> QED  BY <1>4, <1>9, <1>10, <1>11

\* A task is told about: if it has ended, its clients hear of that.
LEMMA QueueSound ==
  ASSUME NEW x, NEW task \in [TbUids -> TbStates], NEW tries \in [TbUids -> Nat], NEW told,
         NEW S \in SUBSET TbUids, NEW H \in SUBSET TbUids, NEW u \in TbUids \ H,
         Together(x, task, tries, told, S, H), Comes(x.q), tbTries' = tries,
         task[u] \in {"RUNNING"} \cup TbEnds, task[u] \in TbEnds => SoonOnDisk(x, task, u),
         NEW S2 \in SUBSET (S \cup {u}), u \in S2 => task[u] \in TbEnds
  PROVE  Together(TbQueued(x, task, u), task, tries, told, S2, H) /\ Comes(TbQueued(x, task, u).q)
<1>1. x \in Pairs
  BY DEF Together
<1>2. /\ x.q.buf \in Seq(Payloads) /\ x.q.frame \in Seq(Payloads) /\ x.disk \in [TbUids -> TbStates]
      /\ x.q.dirty \subseteq TbPools /\ x.q.sched \in BOOLEAN /\ x.q.timers \in Nat
  BY <1>1, PairFacts
<1>3. PICK bu \in Seq(Payloads) : bu = x.q.buf
  BY <1>2
<1>e. PICK e : e = <<u, tries[u], task[u]>>
  OBVIOUS
<1>4. /\ e = <<u, tries[u], task[u]>> /\ e \in Payloads /\ e[1] = u /\ e[2] = tries[u] /\ e[3] = task[u]
      /\ tries[u] \in Nat
  BY <1>e DEF Payloads
<1>5. PICK z : z = [x EXCEPT !.q.buf = Append(@, <<u, tbTries'[u], task[u]>>)]
  OBVIOUS
<1>6. /\ Append(bu, e) \in Seq(Payloads) /\ Len(Append(bu, e)) = Len(bu) + 1 /\ Len(bu) \in Nat
      /\ \A i \in 1..Len(bu) + 1 : Append(bu, e)[i] = IF i = Len(bu) + 1 THEN e ELSE bu[i]
  BY <1>4, AppendFacts
<1>7. z = [q |-> [x.q EXCEPT !.buf = Append(bu, e)], disk |-> x.disk]
  BY <1>1, <1>3, <1>4, <1>5 DEF Pairs
<1>8. /\ z \in Pairs /\ z.q.buf = Append(bu, e) /\ z.q.frame = x.q.frame /\ z.disk = x.disk
      /\ z.q.dirty = x.q.dirty /\ z.q.sched = x.q.sched /\ z.q.timers = x.q.timers
  BY <1>1, <1>6, <1>7 DEF Pairs
<1>9. \A v : SoonOnDisk(x, task, v) <=> SoonOnDisk(z, task, v)
  BY <1>8 DEF SoonOnDisk
<1>a. \A i \in 1..Len(z.q.buf) : LET d == z.q.buf[i] IN
        Truthful(d, task, tries) /\ (BatchEndsCurrent(d, tries) => SoonOnDisk(z, task, d[1]))
  <2> SUFFICES ASSUME NEW i \in 1..Len(bu) + 1, NEW d, d = Append(bu, e)[i]
               PROVE  Truthful(d, task, tries) /\ (BatchEndsCurrent(d, tries) => SoonOnDisk(z, task, d[1]))
    BY <1>6, <1>8
  <2>1. CASE i = Len(bu) + 1
    <3>1. d = e
      BY <1>6, <2>1
    <3> QED  BY <1>4, <1>9, <3>1 DEF Truthful, BatchEndsCurrent
  <2>2. CASE i # Len(bu) + 1
    <3>1. i \in 1..Len(bu) /\ d = bu[i]
      BY <1>6, <2>2
    <3>2. \A k \in 1..Len(bu) : Truthful(bu[k], task, tries)
            /\ (BatchEndsCurrent(bu[k], tries) => SoonOnDisk(x, task, bu[k][1]))
      BY <1>3 DEF Together
    <3> QED  BY <1>9, <3>1, <3>2
  <2> QED  BY <2>1, <2>2
<1>b. \A i \in 1..Len(z.q.frame) : LET d == z.q.frame[i] IN
        Truthful(d, task, tries) /\ (BatchEndsCurrent(d, tries) => z.disk[d[1]] = task[d[1]])
  BY <1>8 DEF Together
<1>c. \A v \in TbUids : told[v] \in TbEnds => task[v] = told[v] /\ z.disk[v] = told[v]
  BY <1>8 DEF Together
<1>d. \A v \in S2 : SoonOnDisk(z, task, v) /\ Heard(z, task, tries, told, v)
  <2> SUFFICES ASSUME NEW v \in S2
               PROVE  SoonOnDisk(z, task, v) /\ Heard(z, task, tries, told, v)
    OBVIOUS
  <2>1. CASE v = u
    <3>1. Tells(Append(bu, e), e)
      BY <1>4, AppendTells
    <3> QED  BY <1>4, <1>8, <1>9, <2>1, <3>1, Zenon DEF Heard
  <2>2. CASE v # u
    <3>1. SoonOnDisk(x, task, v) /\ Heard(x, task, tries, told, v)
      BY <2>2 DEF Together
    <3>d. PICK d : d = <<v, tries[v], task[v]>>
      OBVIOUS
    <3>2. d = <<v, tries[v], task[v]>> /\ d[1] = v /\ e[1] # d[1]
      BY <1>4, <2>2, <3>d
    <3>3. /\ Tells(bu, d) => Tells(Append(bu, e), d)
          /\ NoneOf(bu, d[1]) => NoneOf(Append(bu, e), d[1])
      BY <1>4, <3>2, AppendTells
    <3>4. Heard(z, task, tries, told, v)
      BY <1>3, <1>8, <3>1, <3>2, <3>3, Zenon DEF Heard
    <3> QED  BY <1>9, <3>1, <3>4
  <2> QED  BY <2>1, <2>2
<1>f. \A v \in H : NoneOf(z.q.buf, v) /\ z.disk[v] = task[v]
  <2> SUFFICES ASSUME NEW v \in H
               PROVE  NoneOf(z.q.buf, v) /\ z.disk[v] = task[v]
    OBVIOUS
  <2>1. NoneOf(bu, v) /\ x.disk[v] = task[v] /\ v # u
    BY <1>3 DEF Together
  <2>d. PICK d : d = <<v>>
    OBVIOUS
  <2>2. d[1] = v
    BY <2>d
  <2>3. NoneOf(Append(bu, e), v)
    BY <1>4, <2>1, <2>2, AppendTells
  <2> QED  BY <1>8, <2>1, <2>3
<1>k. \A v \in TbUids : task[v] # "none" \/ z.disk[v] # "none" => TbPool[v] \in TbPools
  BY <1>8 DEF Together
<1>10. Together(z, task, tries, told, S2, H)
  BY <1>8, <1>a, <1>b, <1>c, <1>d, <1>f, <1>k DEF Together
<1>11. CASE Len(z.q.buf) >= TbBatch
  <2>1. TbQueued(x, task, u) = TbFlushed(z, task)
    BY <1>5, <1>11, Zenon DEF TbQueued
  <2>2. S2 \in SUBSET TbUids
    OBVIOUS
  <2>3. Together(TbFlushed(z, task), task, tries, told, S2, H) /\ Comes(TbFlushed(z, task).q)
    BY <1>10, <2>2, FlushSound
  <2> QED  BY <2>1, <2>3
<1>12. CASE ~(Len(z.q.buf) >= TbBatch)
  <2>1. PICK y : y = [z EXCEPT !.q = Armed(@)]
    OBVIOUS
  <2>2. y = TbQueued(x, task, u)
    BY <1>5, <1>12, <2>1, Zenon DEF TbQueued
  <2>3. (z.q.sched => z.q.timers > 0) /\ Len(z.q.buf) < TbBatch
    BY <1>6, <1>8, <1>12, BatchConstants DEF Comes
  <2>4. /\ y \in Pairs /\ Comes(y.q)
        /\ y.q.buf = z.q.buf /\ y.q.frame = z.q.frame /\ y.q.dirty = z.q.dirty /\ y.disk = z.disk
    BY <1>8, <2>1, <2>3, ArmedFacts
  <2>5. Together(y, task, tries, told, S2, H)
    BY <1>10, <2>4, SameSound
  <2> QED  BY <2>2, <2>4, <2>5
<1> QED  BY <1>11, <1>12

\* Only tasks of C change: they had not ended, or are submitted again.
Restarted(C, task, tries, told, task1, tries1, told1) ==
  /\ \A u \in TbUids \ C : task1[u] = task[u] /\ tries1[u] = tries[u] /\ told1[u] = told[u]
  /\ \A u \in C : \/ tries1[u] > tries[u] /\ told1[u] = "none"
                  \/ tries1[u] = tries[u] /\ told1[u] = told[u] /\ task[u] \notin TbEnds
  /\ \A u \in C : TbPool[u] \in TbPools

\* Tasks change.
LEMMA ChangeSound ==
  ASSUME NEW x, NEW task \in [TbUids -> TbStates], NEW tries \in [TbUids -> Nat], NEW told,
         NEW task1 \in [TbUids -> TbStates], NEW tries1 \in [TbUids -> Nat], NEW told1,
         NEW H \in SUBSET TbUids, NEW C \in SUBSET (TbUids \ H), NEW S \in SUBSET TbUids,
         NEW S1 \in SUBSET (S \ C),
         Together(x, task, tries, told, S, H),
         Restarted(C, task, tries, told, task1, tries1, told1)
  PROVE  Together(x, task1, tries1, told1, S1, H)
<1> USE DEF Restarted
<1>1. x \in Pairs
  BY DEF Together
<1>2. x.q.buf \in Seq(Payloads) /\ x.q.frame \in Seq(Payloads)
  BY <1>1, PairFacts
<1>3. ASSUME NEW e \in Payloads, Truthful(e, task, tries)
      PROVE  /\ Truthful(e, task1, tries1)
             /\ BatchEndsCurrent(e, tries1) => BatchEndsCurrent(e, tries) /\ e[1] \in TbUids \ C
  <2>1. e[1] \in TbUids /\ e[2] \in Nat /\ tries[e[1]] \in Nat /\ tries1[e[1]] \in Nat
    BY PayloadFacts
  <2>2. CASE e[1] \in C
    <3>1. e[2] <= tries[e[1]] /\ (e[2] = tries[e[1]] /\ e[3] \in TbEnds => task[e[1]] = e[3])
      BY <1>3 DEF Truthful, BatchEndsCurrent
    <3>2. e[2] <= tries1[e[1]]
      BY <2>1, <2>2, <3>1
    <3>3. ~(e[2] = tries1[e[1]] /\ e[3] \in TbEnds)
      BY <2>1, <2>2, <3>1
    <3> QED  BY <3>2, <3>3 DEF Truthful, BatchEndsCurrent
  <2>3. CASE e[1] \notin C
    BY <1>3, <2>1, <2>3 DEF Truthful, BatchEndsCurrent
  <2> QED  BY <2>2, <2>3
<1>a. \A i \in 1..Len(x.q.buf) : LET e == x.q.buf[i] IN
        Truthful(e, task1, tries1) /\ (BatchEndsCurrent(e, tries1) => SoonOnDisk(x, task1, e[1]))
  <2> SUFFICES ASSUME NEW i \in 1..Len(x.q.buf), NEW e, e = x.q.buf[i]
               PROVE  Truthful(e, task1, tries1) /\ (BatchEndsCurrent(e, tries1) => SoonOnDisk(x, task1, e[1]))
    OBVIOUS
  <2>1. e \in Payloads
    BY <1>2, SeqElements
  <2>2. Truthful(e, task, tries) /\ (BatchEndsCurrent(e, tries) => SoonOnDisk(x, task, e[1]))
    BY DEF Together
  <2> QED  BY <1>3, <2>1, <2>2 DEF SoonOnDisk
<1>b. \A i \in 1..Len(x.q.frame) : LET e == x.q.frame[i] IN
        Truthful(e, task1, tries1) /\ (BatchEndsCurrent(e, tries1) => x.disk[e[1]] = task1[e[1]])
  <2> SUFFICES ASSUME NEW i \in 1..Len(x.q.frame), NEW e, e = x.q.frame[i]
               PROVE  Truthful(e, task1, tries1) /\ (BatchEndsCurrent(e, tries1) => x.disk[e[1]] = task1[e[1]])
    OBVIOUS
  <2>1. e \in Payloads
    BY <1>2, SeqElements
  <2>2. Truthful(e, task, tries) /\ (BatchEndsCurrent(e, tries) => x.disk[e[1]] = task[e[1]])
    BY DEF Together
  <2> QED  BY <1>3, <2>1, <2>2
<1>c. \A u \in TbUids : told1[u] \in TbEnds => task1[u] = told1[u] /\ x.disk[u] = told1[u]
  <2>1. \A u \in TbUids : told[u] \in TbEnds => task[u] = told[u] /\ x.disk[u] = told[u]
    BY DEF Together
  <2>2. "none" \notin TbEnds
    BY DEF TbEnds
  <2>3. \A u \in C : told1[u] \notin TbEnds
    BY <2>1, <2>2
  <2> QED  BY <2>1, <2>3
<1>d. \A u \in S1 : SoonOnDisk(x, task1, u) /\ Heard(x, task1, tries1, told1, u)
  <2> SUFFICES ASSUME NEW u \in S1
               PROVE  SoonOnDisk(x, task1, u) /\ Heard(x, task1, tries1, told1, u)
    OBVIOUS
  <2>1. SoonOnDisk(x, task, u) /\ Heard(x, task, tries, told, u)
    BY DEF Together
  <2>2. task1[u] = task[u] /\ tries1[u] = tries[u] /\ told1[u] = told[u]
    OBVIOUS
  <2> QED  BY <2>1, <2>2, Zenon DEF Heard, SoonOnDisk
<1>e. \A u \in H : NoneOf(x.q.buf, u) /\ x.disk[u] = task1[u]
  <2>1. \A u \in H : NoneOf(x.q.buf, u) /\ x.disk[u] = task[u] /\ u \in TbUids \ C
    BY DEF Together
  <2> QED  BY <2>1
<1>k. \A u \in TbUids : task1[u] # "none" \/ x.disk[u] # "none" => TbPool[u] \in TbPools
  <2>1. \A u \in TbUids : task[u] # "none" \/ x.disk[u] # "none" => TbPool[u] \in TbPools
    BY DEF Together
  <2> QED  BY <2>1
<1> QED  BY <1>1, <1>a, <1>b, <1>c, <1>d, <1>e, <1>k DEF Together

\* A drain begins with the ledger.
DrainBegins(x, task, us) == [x EXCEPT !.disk = Saved(@, task, {TbPool[u] : u \in us})]

\* The N steps of a drain, one for each claim.
DrainRuns(x, task, us, N, order, F) ==
  /\ N \in Nat /\ Drained(x, task, us) = F[N] /\ F[0] = DrainBegins(x, task, us)
  /\ \A i \in 1..N : order[i] \in us /\ F[i] = TbQueued(F[i - 1], task, order[i])

\* The claims of a drain, one after the other.
LEMMA DrainExists ==
  ASSUME NEW x, NEW task, NEW us \in SUBSET TbUids
  PROVE  \E N, order, F : DrainRuns(x, task, us, N, order, F)
<1>1. PICK order : order = SetToSeq(us)
  OBVIOUS
<1>2. order \in Seq(us) /\ Len(order) \in Nat /\ \A i \in 1..Len(order) : order[i] \in us
  <2>1. IsFiniteSet(us)
    BY BatchConstants, FS_Subset DEF TbUids
  <2>2. Cardinality(us) \in Nat /\ \E f : f \in Bijection(1..Cardinality(us), us)
    BY <2>1, FS_CardinalityType DEF ExistsBijection
  <2>3. \E f \in [1..Cardinality(us) -> us] : IsInjective(f)
    BY <2>2 DEF Bijection, Injection
  <2>4. order \in [1..Cardinality(us) -> us]
    BY <1>1, <2>3 DEF SetToSeq
  <2> QED  BY <2>2, <2>4
<1> DEFINE N == Len(order)
           x0 == DrainBegins(x, task, us)
           Runs(n, g) == /\ g = [i \in 0..n |-> g[i]] /\ g[0] = x0
                         /\ \A i \in 1..n : g[i] = TbQueued(g[i - 1], task, order[i])
           T == {n \in 0..N : ~\E g : Runs(n, g)}
<1>3. T = {}
  <2> SUFFICES ASSUME T # {}
               PROVE  FALSE
    OBVIOUS
  <2>1. PICK n \in T : \A m \in T : n <= m
    <3>1. T \subseteq Nat
      BY <1>2
    <3> HIDE DEF T
    <3> QED  BY <3>1, LeastNatural
  <2>2. CASE n = 0
    <3>1. PICK g : g = [i \in 0..0 |-> x0]
      OBVIOUS
    <3> HIDE DEF x0
    <3>2. g[0] = x0 /\ g = [i \in 0..0 |-> g[i]]
      BY <3>1
    <3>3. Runs(0, g)
      BY <3>2
    <3> QED  BY <2>2, <3>3
  <2>3. CASE n # 0
    <3>0. n \in 0..N
      <4> HIDE DEF Runs
      <4> QED  BY <2>1
    <3>1. /\ n \in 1..N /\ n - 1 \in 0..N /\ n - 1 \in Nat /\ n \in Nat /\ ~(n <= n - 1)
          /\ n - 1 \in 0..n - 1
      <4> HIDE DEF T, Runs, x0
      <4> QED  BY <1>2, <2>3, <3>0
    <3>2. PICK g : Runs(n - 1, g)
      BY <2>1, <3>1
    <3>3. PICK s : s = TbQueued(g[n - 1], task, order[n])
      OBVIOUS
    <3> HIDE DEF x0
    <3>4. PICK h : h = [i \in 0..n |-> IF i = n THEN s ELSE g[i]]
      OBVIOUS
    <3>5. h[0] = g[0] /\ h[n] = s /\ (\A i \in 0..n - 1 : h[i] = g[i]) /\ h = [i \in 0..n |-> h[i]]
      BY <3>1, <3>4
    <3>6. \A i \in 1..n : h[i] = TbQueued(h[i - 1], task, order[i])
      <4> SUFFICES ASSUME NEW i \in 1..n
                   PROVE  h[i] = TbQueued(h[i - 1], task, order[i])
        OBVIOUS
      <4>1. CASE i = n
        <5>1. h[n - 1] = g[n - 1]
          BY <3>1, <3>5
        <5> QED  BY <3>3, <3>5, <4>1, <5>1
      <4>2. CASE i # n
        <5>1. i \in 1..n - 1 /\ i \in 0..n - 1 /\ i - 1 \in 0..n - 1
          BY <3>1, <4>2
        <5>2. h[i] = g[i] /\ h[i - 1] = g[i - 1] /\ g[i] = TbQueued(g[i - 1], task, order[i])
          BY <3>2, <3>5, <5>1
        <5> QED  BY <5>2
      <4> QED  BY <4>1, <4>2
    <3>7. Runs(n, h)
      BY <3>2, <3>5, <3>6
    <3> QED  BY <3>7
  <2> QED  BY <2>2, <2>3
<1>4. PICK g : Runs(N, g)
  <2>1. N \in 0..N
    BY <1>2
  <2> HIDE DEF Runs
  <2> QED  BY <1>3, <2>1
<1> DEFINE Steps(f) == f = [i \in 0..Len(order) |-> IF i = 0 THEN x0 ELSE TbQueued(f[i - 1], task, order[i])]
<1>5. Steps(g)
  <2>1. g = [i \in 0..Len(order) |-> g[i]]
    BY <1>4
  <2>2. \A i \in 0..Len(order) : g[i] = IF i = 0 THEN x0 ELSE TbQueued(g[i - 1], task, order[i])
    <3> SUFFICES ASSUME NEW i \in 0..Len(order)
                 PROVE  g[i] = IF i = 0 THEN x0 ELSE TbQueued(g[i - 1], task, order[i])
      OBVIOUS
    <3>1. CASE i = 0
      BY <1>4, <3>1
    <3>2. CASE i # 0
      <4>1. i \in 1..N
        BY <1>2, <3>2
      <4> QED  BY <1>4, <3>2, <4>1
    <3> QED  BY <3>1, <3>2
  <2> HIDE DEF Runs, x0
  <2> QED  BY <2>1, <2>2
<1>6. PICK F : F = (CHOOSE f : Steps(f))
  OBVIOUS
<1>7. Steps(F)
  <2> HIDE DEF Steps
  <2> QED  BY <1>5, <1>6
<1>8. Drained(x, task, us) = F[Len(order)]
  BY <1>1, <1>6 DEF Drained, DrainBegins
<1>9. F[0] = x0 /\ \A i \in 1..Len(order) : F[i] = TbQueued(F[i - 1], task, order[i])
  <2> HIDE DEF x0
  <2> QED  BY <1>2, <1>7
<1> HIDE DEF Steps, Runs, T
<1>10. DrainRuns(x, task, us, Len(order), order, F)
  BY <1>2, <1>8, <1>9 DEF DrainRuns
<1> QED  BY <1>10

\* A drain: its claims have not ended.
LEMMA BatchDrainSound ==
  ASSUME NEW x, NEW task \in [TbUids -> TbStates], NEW tries \in [TbUids -> Nat], NEW told,
         NEW S \in SUBSET TbUids, NEW H \in SUBSET TbUids, NEW us \in SUBSET (TbUids \ H),
         Together(x, task, tries, told, S, H), Comes(x.q), tbTries' = tries,
         \A u \in us : task[u] = "RUNNING", \A u \in S : task[u] \in TbEnds
  PROVE  Together(Drained(x, task, us), task, tries, told, S, H) /\ Comes(Drained(x, task, us).q)
<1>0. PICK N, order, F : DrainRuns(x, task, us, N, order, F)
  <2>1. us \in SUBSET TbUids
    OBVIOUS
  <2> QED  BY <2>1, DrainExists
<1>1. /\ N \in Nat /\ Drained(x, task, us) = F[N]
      /\ F[0] = DrainBegins(x, task, us)
      /\ \A i \in 1..N : order[i] \in us /\ F[i] = TbQueued(F[i - 1], task, order[i])
  BY <1>0 DEF DrainRuns
<1> DEFINE T == {i \in 0..N : ~(Together(F[i], task, tries, told, S, H) /\ Comes(F[i].q))}
<1>2. T = {}
  <2> SUFFICES ASSUME T # {}
               PROVE  FALSE
    OBVIOUS
  <2>1. PICK n \in T : \A m \in T : n <= m
    <3>1. T \subseteq Nat
      BY <1>1
    <3> HIDE DEF T
    <3> QED  BY <3>1, LeastNatural
  <2>2. CASE n = 0
    <3>1. PICK ps : ps = {TbPool[u] : u \in us}
      OBVIOUS
    <3>2. F[0] = [x EXCEPT !.disk = Saved(@, task, ps)]
      BY <1>1, <3>1 DEF DrainBegins
    <3>z. PICK z : z = [x EXCEPT !.disk = Saved(@, task, ps)]
      OBVIOUS
    <3>y. Together(z, task, tries, told, S, H) /\ z.q = x.q
      <4>1. SavedBy(x, task, ps, z)
        BY <3>z DEF SavedBy
      <4> QED  BY <4>1, SaveSound
    <3>3. Together(F[0], task, tries, told, S, H) /\ F[0].q = x.q
      BY <3>2, <3>y, <3>z
    <3> QED  BY <2>2, <3>3
  <2>3. CASE n # 0
    <3>1. n \in 1..N /\ n - 1 \in 0..N /\ ~(n <= n - 1)
      BY <1>1, <2>3
    <3>2. PICK y : y = F[n - 1]
      OBVIOUS
    <3>3. Together(y, task, tries, told, S, H) /\ Comes(y.q)
      BY <2>1, <3>1, <3>2
    <3>4. PICK u \in TbUids \ H : u = order[n] /\ task[u] = "RUNNING"
      BY <1>1, <3>1
    <3>5. task[u] \in {"RUNNING"} \cup TbEnds /\ task[u] \notin TbEnds
      BY <3>4 DEF TbEnds
    <3>6. S \in SUBSET (S \cup {u}) /\ u \notin S
      BY <3>5
    <3>7. Together(TbQueued(y, task, u), task, tries, told, S, H) /\ Comes(TbQueued(y, task, u).q)
      BY <3>3, <3>5, <3>6, QueueSound
    <3>8. F[n] = TbQueued(y, task, u)
      BY <1>1, <3>1, <3>2, <3>4
    <3> QED  BY <2>1, <3>7, <3>8
  <2> QED  BY <2>2, <2>3
<1> QED  BY <1>1, <1>2

-----------------------------------------------------------------------------
\* What a step needs of the state it begins in.
LEMMA TbInvFacts ==
  ASSUME TbInv
  PROVE  /\ tbTask \in [TbUids -> TbStates] /\ tbTries \in [TbUids -> Nat]
         /\ tbTold \in [TbUids -> {"none", "RUNNING"} \cup TbEnds]
         /\ Sure \in SUBSET TbUids /\ Safe \in SUBSET TbUids /\ Safe \subseteq Sure
         /\ Together(Before, tbTask, tbTries, tbTold, Sure, Safe) /\ Comes(Before.q)
         /\ Before.q = tbQueue /\ Before.disk = tbDisk
BY DEF TbInv, TbTyped, Sure, Safe, Before

\* What is on disk after a step, for tasks of pools.
LEMMA TogetherDisk ==
  ASSUME NEW x, NEW task, NEW tries, NEW told, NEW S, NEW H, Together(x, task, tries, told, S, H)
  PROVE  x.disk \in [TbUids -> TbStates] /\ x.q.frame \in Seq(Payloads)
BY PairFacts DEF Together


\* The first state is sound.
LEMMA TbInitSound == TbInit => TbInv
<1> SUFFICES ASSUME TbInit
             PROVE  TbInv
  OBVIOUS
<1>1. TbTyped
  BY DEF TbInit, TbTyped, TbStates
<1>2. /\ Before \in Pairs /\ Before.q = EmptyQueue /\ Before.disk = tbDisk
      /\ EmptyQueue.buf = <<>> /\ EmptyQueue.frame = <<>> /\ EmptyQueue.dirty = {} /\ EmptyQueue.sched = FALSE
  <2>1. <<>> \in Seq(Payloads)
    OBVIOUS
  <2>2. EmptyQueue \in [buf : Seq(Payloads), dirty : SUBSET TbPools, sched : BOOLEAN, timers : Nat,
                        frame : Seq(Payloads)]
    BY <2>1 DEF EmptyQueue
  <2>3. tbDisk \in [TbUids -> TbStates] /\ tbQueue = EmptyQueue
    BY <1>1 DEF TbTyped, TbInit
  <2> QED  BY <2>2, <2>3 DEF Before, Pairs, EmptyQueue
<1>3. Sure = {} /\ Safe = {}
  BY DEF Sure, Safe, TbInit, TbEnds
<1>4. \A u \in TbUids : tbTask[u] = "none" /\ tbDisk[u] = "none" /\ tbTold[u] \notin TbEnds
  BY DEF TbInit, TbEnds
<1>5. Len(<<>>) = 0
  OBVIOUS
<1>6. Together(Before, tbTask, tbTries, tbTold, Sure, Safe)
  BY <1>2, <1>3, <1>4, <1>5 DEF Together
<1>7. Comes(tbQueue)
  <2>1. tbQueue = EmptyQueue
    BY DEF TbInit
  <2> QED  BY <1>2, <1>5, <2>1, BatchConstants DEF Comes
<1> QED  BY <1>1, <1>3, <1>6, <1>7 DEF TbInv, TbInit, EmptyQueue

\* A step whose queue and ledger are x in the end.
LEMMA SettlesSound ==
  ASSUME NEW x, Settles(x), Comes(x.q), TbTyped',
         NEW task, NEW tries, NEW told, NEW S, NEW H,
         Together(x, task, tries, told, S, H),
         tbTask' = task, tbTries' = tries, tbTold' = told, Sure' = S, Safe' = H, H \subseteq S,
         tbLife' = "up" => tbHeld' = {}, tbLife' = "down" => tbQueue'.frame = <<>>
  PROVE  TbInv'
<1>1. Before' = x
  <2>1. x \in Pairs
    BY DEF Together
  <2>2. x = [q |-> x.q, disk |-> x.disk]
    BY <2>1 DEF Pairs
  <2> QED  BY <2>2 DEF Before, Settles
<1>2. Together(Before', tbTask', tbTries', tbTold', Sure', Safe') /\ Comes(tbQueue')
  BY <1>1 DEF Settles
<1> QED  BY <1>2 DEF TbInv


\* The end of a task: its pool is marked, its clients are told.
LEMMA BatchEndSound ==
  ASSUME TbInv, NEW u \in TbUids, tbTask[u] \in TbLive, NEW st \in TbEnds, tbTries' = tbTries,
         NEW task1, task1 = [tbTask EXCEPT ![u] = st], NEW S2 \in SUBSET (Sure \cup {u})
  PROVE  /\ Together(MarksFirst(task1, u), task1, tbTries, tbTold, S2, Safe)
         /\ Comes(MarksFirst(task1, u).q) /\ task1 \in [TbUids -> TbStates]
         /\ u \notin Sure /\ u \notin Safe
<1>1. /\ tbTask \in [TbUids -> TbStates] /\ tbTries \in [TbUids -> Nat]
      /\ Sure \in SUBSET TbUids /\ Safe \in SUBSET TbUids /\ Safe \subseteq Sure
      /\ Together(Before, tbTask, tbTries, tbTold, Sure, Safe) /\ Comes(Before.q)
  BY TbInvFacts
<1>2. tbTask[u] \notin TbEnds /\ tbTask[u] # "none"
  BY DEF TbLive, TbEnds
<1>3. u \notin Sure /\ u \notin Safe
  BY <1>1, <1>2 DEF Sure
<1>4. /\ task1 \in [TbUids -> TbStates] /\ task1[u] = st /\ \A v \in TbUids \ {u} : task1[v] = tbTask[v]
  BY <1>1 DEF TbStates
<1>5. TbPool[u] \in TbPools
  BY <1>1, <1>2 DEF Together
<1>6. Together(Before, task1, tbTries, tbTold, Sure, Safe)
  <2>1. {u} \in SUBSET (TbUids \ Safe) /\ Sure \in SUBSET (Sure \ {u})
    BY <1>3
  <2>2. Restarted({u}, tbTask, tbTries, tbTold, task1, tbTries, tbTold)
    BY <1>2, <1>4, <1>5 DEF Restarted
  <2> QED  BY <1>1, <1>4, <2>1, <2>2, ChangeSound
<1>7. PICK y : y = MarkedDirty(Before, TbPool[u])
  OBVIOUS
<1>8. Together(y, task1, tbTries, tbTold, Sure, Safe) /\ Comes(y.q) /\ TbPool[u] \in y.q.dirty
  BY <1>1, <1>5, <1>6, <1>7, MarkSound
<1>9. Together(TbQueued(y, task1, u), task1, tbTries, tbTold, S2, Safe) /\ Comes(TbQueued(y, task1, u).q)
  <2>1. SoonOnDisk(y, task1, u) /\ task1[u] \in {"RUNNING"} \cup TbEnds
    BY <1>4, <1>8 DEF SoonOnDisk
  <2> QED  BY <1>1, <1>3, <1>4, <1>8, <2>1, QueueSound
<1> QED  BY <1>3, <1>4, <1>7, <1>9 DEF MarksFirst

\* A task is given up.
LEMMA GivenUpKeeps ==
  ASSUME TbInv, NEW u \in TbUids, NEW st \in {"CANCELED", "FAILED"}, TbGivenUp(u, st)
  PROVE  TbInv'
<1>1. /\ tbTask \in [TbUids -> TbStates] /\ Sure \in SUBSET TbUids /\ Safe \subseteq Sure
  BY TbInvFacts
<1>2. PICK task1 : task1 = [tbTask EXCEPT ![u] = st]
  OBVIOUS
<1>3. /\ tbTask[u] \in TbLive /\ st \in TbEnds /\ tbTask' = task1 /\ tbTries' = tbTries /\ tbTold' = tbTold
      /\ tbLife' = tbLife /\ tbHeld' = tbHeld /\ tbStops' = tbStops /\ tbLife # "down"
      /\ Settles(MarksFirst(task1, u))
  BY <1>2 DEF TbGivenUp, TbLive, TbEnds, TbFree
<1>4. Sure' \in SUBSET (Sure \cup {u}) /\ Safe' = Safe
  BY <1>1, <1>2, <1>3 DEF Sure, Safe
<1>5. PICK x : x = MarksFirst(task1, u)
  OBVIOUS
<1>6. /\ Together(x, task1, tbTries, tbTold, Sure', Safe) /\ Comes(x.q) /\ task1 \in [TbUids -> TbStates]
      /\ u \notin Safe
  BY <1>2, <1>3, <1>4, <1>5, BatchEndSound
<1>7. Safe \subseteq Sure'
  BY <1>1, <1>2, <1>3, <1>6 DEF Sure, Safe
<1>8. TbTyped'
  <2>1. x.disk \in [TbUids -> TbStates] /\ tbDisk' = x.disk
    BY <1>3, <1>5, <1>6, TogetherDisk DEF Settles
  <2> QED  BY <1>3, <1>6, <2>1 DEF TbInv, TbTyped
<1>9. tbLife' = "up" => tbHeld' = {}
  BY <1>3 DEF TbInv
<1> QED  BY <1>3, <1>4, <1>5, <1>6, <1>7, <1>8, <1>9, SettlesSound

\* A task ends and others are claimed.
LEMMA TerminalKeeps ==
  ASSUME TbInv, NEW u \in TbUids, NEW st \in {"DONE", "FAILED"}, NEW c \in SUBSET TbUids, TbTerminal(u, st, c)
  PROVE  TbInv'
<1>1. /\ tbTask \in [TbUids -> TbStates] /\ tbTries \in [TbUids -> Nat]
      /\ Sure \in SUBSET TbUids /\ Safe \in SUBSET TbUids /\ Safe \subseteq Sure
      /\ Together(Before, tbTask, tbTries, tbTold, Sure, Safe)
  BY TbInvFacts
<1>2. PICK task1, task2 : task1 = [tbTask EXCEPT ![u] = st] /\ task2 = TbClaimed(task1, c)
  OBVIOUS
<1>3. /\ tbTask[u] = "RUNNING" /\ tbTask[u] \in TbLive /\ st \in TbEnds /\ tbTask' = task2 /\ tbTries' = tbTries
      /\ tbTold' = tbTold /\ tbLife' = tbLife /\ tbHeld' = tbHeld /\ tbStops' = tbStops /\ tbLife # "down"
      /\ Settles(Drained(MarksFirst(task1, u), task2, c))
      /\ \A v \in c : TbPool[v] = TbPool[u] /\ tbTask[v] = "QUEUED"
  BY <1>2 DEF TbTerminal, TbLive, TbEnds, TbFree
<1>4. /\ task1 \in [TbUids -> TbStates] /\ task1[u] = st /\ \A v \in TbUids \ {u} : task1[v] = tbTask[v]
  BY <1>1, <1>2, <1>3 DEF TbStates
<1>5. /\ task2 \in [TbUids -> TbStates] /\ \A v \in TbUids : task2[v] = IF v \in c THEN "RUNNING" ELSE task1[v]
  BY <1>2, <1>4 DEF TbClaimed, TbStates, TbLive
<1>6. u \notin c /\ \A v \in c : v \notin Sure /\ v \notin Safe
  <2>1. "QUEUED" \notin TbEnds
    BY DEF TbEnds
  <2> QED  BY <1>1, <1>3, <2>1 DEF Sure
<1>r. "RUNNING" \notin TbEnds
  BY DEF TbEnds
<1>7. Sure' \in SUBSET (Sure \cup {u}) /\ Safe' = Safe
  BY <1>3, <1>4, <1>5, <1>r DEF Sure, Safe
<1>8. PICK y : y = MarksFirst(task1, u)
  OBVIOUS
<1>9. /\ Together(y, task1, tbTries, tbTold, Sure', Safe) /\ Comes(y.q) /\ u \notin Safe
  BY <1>2, <1>3, <1>7, <1>8, BatchEndSound
<1>10. Together(y, task2, tbTries, tbTold, Sure', Safe)
  <2>1. c \in SUBSET (TbUids \ Safe) /\ Sure' \in SUBSET (Sure' \ c) /\ Sure' \in SUBSET TbUids
    BY <1>1, <1>6, <1>7
  <2>2. \A v \in c : task1[v] \notin TbEnds
    <3>1. "QUEUED" \notin TbEnds
      BY DEF TbEnds
    <3> QED  BY <1>3, <1>4, <1>6, <3>1
  <2>3. \A v \in c : TbPool[v] \in TbPools
    <3>1. TbPool[u] \in TbPools
      BY <1>1, <1>3 DEF Together
    <3> QED  BY <1>3, <3>1
  <2>4. Restarted(c, task1, tbTries, tbTold, task2, tbTries, tbTold)
    BY <1>4, <1>5, <2>2, <2>3 DEF Restarted
  <2> QED  BY <1>1, <1>4, <1>5, <1>9, <2>1, <2>4, ChangeSound
<1>11. PICK x : x = Drained(y, task2, c)
  OBVIOUS
<1>12. Together(x, task2, tbTries, tbTold, Sure', Safe) /\ Comes(x.q)
  <2>1. c \in SUBSET (TbUids \ Safe) /\ Sure' \in SUBSET TbUids
    BY <1>1, <1>6, <1>7
  <2>2. \A v \in Sure' : task2[v] \in TbEnds
    BY <1>3 DEF Sure
  <2>3. \A v \in c : task2[v] = "RUNNING"
    BY <1>5
  <2> QED  BY <1>1, <1>3, <1>5, <1>9, <1>10, <1>11, <2>1, <2>2, <2>3, BatchDrainSound
<1>13. Safe \subseteq Sure'
  BY <1>1, <1>3, <1>4, <1>5, <1>6, <1>9 DEF Sure, Safe
<1>14. TbTyped'
  <2>1. x.disk \in [TbUids -> TbStates] /\ tbDisk' = x.disk
    BY <1>3, <1>8, <1>11, <1>12, TogetherDisk DEF Settles
  <2> QED  BY <1>3, <1>5, <2>1 DEF TbInv, TbTyped
<1>15. tbLife' = "up" => tbHeld' = {}
  BY <1>3 DEF TbInv
<1>16. Settles(x)
  BY <1>3, <1>8, <1>11
<1> QED  BY <1>3, <1>7, <1>12, <1>13, <1>14, <1>15, <1>16, SettlesSound


\* The tasks of a batch that are submitted anew.
LEMMA FreshFacts ==
  ASSUME NEW batch \in TbBatches, ValidBatch(batch)
  PROVE  /\ FreshOnes(batch) \in SUBSET TbUids
         /\ \A u \in FreshOnes(batch) : TbPool[u] \in TbPools /\ tbTask[u] \notin TbLive
<1>1. batch \in Seq(TbUids)
  <2>1. PICK u \in TbUids, v \in TbUids : batch = <<u>> \/ batch = <<u, v>>
    BY DEF TbBatches
  <2>2. <<u>> \in Seq(TbUids) /\ <<u, v>> \in Seq(TbUids)
    OBVIOUS
  <2> QED  BY <2>1, <2>2
<1>2. /\ DOMAIN batch = 1..Len(batch) /\ \A i \in 1..Len(batch) : batch[i] \in TbUids
  BY <1>1, SeqElements
<1>3. \A u \in FreshOnes(batch) : tbTask[u] \notin TbLive /\ \E i \in DOMAIN batch : batch[i] = u
  BY DEF FreshOnes, ToSet
<1> QED  BY <1>2, <1>3 DEF ValidBatch

\* A batch is submitted.
LEMMA SubmitRhKeeps ==
  ASSUME TbInv, NEW batch \in TbBatches, NEW c \in SUBSET TbUids, SubmitRh(batch, c)
  PROVE  TbInv'
<1>1. /\ tbTask \in [TbUids -> TbStates] /\ tbTries \in [TbUids -> Nat]
      /\ tbTold \in [TbUids -> {"none", "RUNNING"} \cup TbEnds]
      /\ Sure \in SUBSET TbUids /\ Safe \in SUBSET TbUids /\ Safe \subseteq Sure
      /\ Together(Before, tbTask, tbTries, tbTold, Sure, Safe) /\ Comes(Before.q)
  BY TbInvFacts
<1>2. PICK new, ps, task : /\ new = FreshOnes(batch) /\ ps = {TbPool[u] : u \in new}
                           /\ task = TbClaimed([u \in TbUids |-> IF u \in new THEN "QUEUED" ELSE tbTask[u]], c)
  OBVIOUS
<1>3. new \in SUBSET TbUids /\ \A u \in new : TbPool[u] \in TbPools
  BY <1>2, FreshFacts DEF SubmitRh
<1>4. /\ tbTask' = task /\ tbTries' = [u \in TbUids |-> tbTries[u] + IF u \in new THEN 1 ELSE 0]
      /\ tbTold' = [u \in TbUids |-> IF u \in new THEN "none" ELSE tbTold[u]]
      /\ tbLife' = tbLife /\ tbHeld' = tbHeld /\ tbStops' = tbStops /\ tbLife = "up"
      /\ \A u \in c : TbPool[u] \in ps /\ (u \in new \/ tbTask[u] = "QUEUED")
      /\ Settles(Drained([Before EXCEPT !.disk = Saved(@, task, ps)], task, c))
  BY <1>2 DEF SubmitRh
<1>5. /\ task \in [TbUids -> TbStates]
      /\ \A u \in TbUids : task[u] = IF u \in c THEN "RUNNING" ELSE IF u \in new THEN "QUEUED" ELSE tbTask[u]
  BY <1>1, <1>2 DEF TbClaimed, TbStates, TbLive
<1>6. /\ tbTries' \in [TbUids -> Nat] /\ \A u \in new : tbTries'[u] > tbTries[u]
      /\ \A u \in TbUids \ new : tbTries'[u] = tbTries[u]
  BY <1>1, <1>3, <1>4
<1>7. /\ tbTold' \in [TbUids -> {"none", "RUNNING"} \cup TbEnds] /\ \A u \in new : tbTold'[u] = "none"
      /\ \A u \in TbUids \ new : tbTold'[u] = tbTold[u]
  BY <1>1, <1>3, <1>4
<1>8. "QUEUED" \notin TbEnds /\ "RUNNING" \notin TbEnds
  BY DEF TbEnds
<1>9. Safe = {} /\ Safe' = {} /\ tbHeld = {}
  BY <1>4 DEF Safe, TbInv
<1>10. Sure' \in SUBSET (Sure \ (new \cup c)) /\ Sure' \in SUBSET TbUids
  BY <1>4, <1>5, <1>8 DEF Sure
<1>n. PICK tries, told, S1 : tries = tbTries' /\ told = tbTold' /\ S1 = Sure'
  OBVIOUS
<1>m. tries \in [TbUids -> Nat] /\ tbTries' = tries
  BY <1>6, <1>n
<1>11. Together(Before, task, tries, told, S1, Safe)
  <2>1. PICK C : C = new \cup c
    OBVIOUS
  <2>2. C \in SUBSET (TbUids \ Safe) /\ S1 \in SUBSET (Sure \ C)
    BY <1>3, <1>9, <1>10, <1>n, <2>1
  <2>3. \A u \in TbUids \ C : task[u] = tbTask[u] /\ tries[u] = tbTries[u] /\ told[u] = tbTold[u]
    BY <1>5, <1>6, <1>7, <1>n, <2>1
  <2>4. \A u \in C : \/ tries[u] > tbTries[u] /\ told[u] = "none"
                     \/ tries[u] = tbTries[u] /\ told[u] = tbTold[u] /\ tbTask[u] \notin TbEnds
    BY <1>4, <1>6, <1>7, <1>8, <1>n, <2>1
  <2>5. \A u \in C : TbPool[u] \in TbPools
    BY <1>2, <1>3, <1>4, <2>1
  <2>6. /\ task \in [TbUids -> TbStates] /\ tries \in [TbUids -> Nat] /\ tbTask \in [TbUids -> TbStates]
        /\ tbTries \in [TbUids -> Nat] /\ Sure \in SUBSET TbUids /\ Safe \in SUBSET TbUids
    BY <1>1, <1>5, <1>m
  <2>7. Together(Before, tbTask, tbTries, tbTold, Sure, Safe)
    BY <1>1
  <2>8. Restarted(C, tbTask, tbTries, tbTold, task, tries, told)
    BY <2>3, <2>4, <2>5, Zenon DEF Restarted
  <2> QED  BY <2>2, <2>6, <2>7, <2>8, ChangeSound
<1>12. PICK y : y = [Before EXCEPT !.disk = Saved(@, task, ps)]
  OBVIOUS
<1>13. Together(y, task, tries, told, S1, Safe) /\ y.q = Before.q
  <2>1. S1 \in SUBSET TbUids
    BY <1>10, <1>n
  <2>2. SavedBy(Before, task, ps, y)
    BY <1>12 DEF SavedBy
  <2> QED  BY <1>1, <1>5, <1>m, <1>11, <2>1, <2>2, SaveSound
<1>14. PICK x : x = Drained(y, task, c)
  OBVIOUS
<1>15. Together(x, task, tries, told, S1, Safe) /\ Comes(x.q)
  <2>1. \A u \in S1 : task[u] \in TbEnds
    BY <1>4, <1>n DEF Sure
  <2>2. c \in SUBSET (TbUids \ Safe) /\ \A u \in c : task[u] = "RUNNING"
    BY <1>5, <1>9
  <2>3. Comes(y.q)
    BY <1>1, <1>13
  <2>4. S1 \in SUBSET TbUids
    BY <1>10, <1>n
  <2> QED  BY <1>1, <1>5, <1>m, <1>13, <1>14, <2>1, <2>2, <2>3, <2>4, BatchDrainSound
<1>16. TbTyped'
  <2>1. x.disk \in [TbUids -> TbStates] /\ tbDisk' = x.disk
    BY <1>4, <1>12, <1>14, <1>15, TogetherDisk DEF Settles
  <2> QED  BY <1>4, <1>5, <1>6, <1>7, <2>1 DEF TbInv, TbTyped
<1>17. Settles(x)
  BY <1>4, <1>12, <1>14
<1>18. Safe' = Safe /\ Safe \subseteq S1
  BY <1>9
<1> QED  BY <1>4, <1>9, <1>15, <1>16, <1>17, <1>18, <1>n, SettlesSound

\* The pool of submitted tasks is marked.
LEMMA SubmittedKeeps ==
  ASSUME TbInv, NEW p \in TbPools, TbSubmitted(p)
  PROVE  TbInv'
<1>1. /\ Together(Before, tbTask, tbTries, tbTold, Sure, Safe) /\ Comes(Before.q) /\ Safe \subseteq Sure
  BY TbInvFacts
<1>2. PICK x : x = MarkedDirty(Before, p)
  OBVIOUS
<1>3. /\ Settles(x) /\ tbTask' = tbTask /\ tbTries' = tbTries /\ tbTold' = tbTold /\ tbLife' = tbLife
      /\ tbHeld' = tbHeld /\ tbStops' = tbStops /\ tbLife # "down"
  BY <1>2 DEF TbSubmitted, TbFree
<1>4. Together(x, tbTask, tbTries, tbTold, Sure, Safe) /\ Comes(x.q)
  BY <1>1, <1>2, MarkSound
<1>5. Sure' = Sure /\ Safe' = Safe
  BY <1>3 DEF Sure, Safe
<1>6. TbTyped'
  <2>1. x.disk \in [TbUids -> TbStates] /\ tbDisk' = x.disk
    BY <1>3, <1>4, TogetherDisk DEF Settles
  <2> QED  BY <1>3, <2>1 DEF TbInv, TbTyped
<1>7. tbLife' = "up" => tbHeld' = {}
  BY <1>3 DEF TbInv
<1> QED  BY <1>1, <1>3, <1>4, <1>5, <1>6, <1>7, SettlesSound

\* A delayed flush.
LEMMA TimerKeeps ==
  ASSUME TbInv, FlushTimer
  PROVE  TbInv'
<1>1. /\ tbTask \in [TbUids -> TbStates] /\ tbTries \in [TbUids -> Nat]
      /\ Sure \in SUBSET TbUids /\ Safe \in SUBSET TbUids /\ Safe \subseteq Sure
      /\ Together(Before, tbTask, tbTries, tbTold, Sure, Safe) /\ Before.q = tbQueue
  BY TbInvFacts
<1>2. PICK z : z = [Before EXCEPT !.q.timers = @ - 1]
  OBVIOUS
<1>3. /\ Settles(TbFlushed(z, tbTask)) /\ tbTask' = tbTask /\ tbTries' = tbTries /\ tbTold' = tbTold
      /\ tbLife' = tbLife /\ tbHeld' = tbHeld /\ tbStops' = tbStops /\ tbLife # "down" /\ Before.q.timers > 0
  BY <1>1, <1>2 DEF FlushTimer, TbFree
<1>4. Together(z, tbTask, tbTries, tbTold, Sure, Safe)
  <2>1. Before \in Pairs
    BY <1>1 DEF Together
  <2>2. PICK n \in Nat : n = Before.q.timers - 1
    BY <1>3, <2>1 DEF Pairs
  <2>3. z = [q |-> [Before.q EXCEPT !.timers = n], disk |-> Before.disk]
    BY <1>2, <2>1, <2>2 DEF Pairs
  <2>4. /\ z \in Pairs /\ z.q.buf = Before.q.buf /\ z.q.frame = Before.q.frame /\ z.disk = Before.disk
        /\ z.q.dirty = Before.q.dirty
    BY <2>1, <2>3 DEF Pairs
  <2> QED  BY <1>1, <2>4, SameSound
<1>5. PICK x : x = TbFlushed(z, tbTask)
  OBVIOUS
<1>6. Together(x, tbTask, tbTries, tbTold, Sure, Safe) /\ Comes(x.q)
  BY <1>1, <1>4, <1>5, FlushSound
<1>7. Sure' = Sure /\ Safe' = Safe
  BY <1>3 DEF Sure, Safe
<1>8. TbTyped'
  <2>1. x.disk \in [TbUids -> TbStates] /\ tbDisk' = x.disk
    BY <1>3, <1>5, <1>6, TogetherDisk DEF Settles
  <2> QED  BY <1>3, <2>1 DEF TbInv, TbTyped
<1>9. tbLife' = "up" => tbHeld' = {}
  BY <1>3 DEF TbInv
<1> QED  BY <1>1, <1>3, <1>5, <1>6, <1>7, <1>8, <1>9, SettlesSound

\* The shutdown flushes: what had ended is safe.
LEMMA BatchShutdown ==
  ASSUME TbInv, TbShutdown
  PROVE  TbInv'
<1>1. /\ tbTask \in [TbUids -> TbStates] /\ tbTries \in [TbUids -> Nat]
      /\ Sure \in SUBSET TbUids /\ Safe \in SUBSET TbUids
      /\ Together(Before, tbTask, tbTries, tbTold, Sure, Safe)
  BY TbInvFacts
<1>2. PICK x : x = TbFlushed(Before, tbTask)
  OBVIOUS
<1>3. /\ Settles(x) /\ tbTask' = tbTask /\ tbTries' = tbTries /\ tbTold' = tbTold
      /\ tbLife' = "ending" /\ tbHeld' = {u \in TbUids : tbTask[u] \in TbEnds} /\ tbStops' = tbStops
  BY <1>2 DEF TbShutdown, StopsFlushed
<1>4. /\ Together(x, tbTask, tbTries, tbTold, Sure, Safe) /\ Comes(x.q) /\ x.q.buf = <<>>
      /\ \A u \in Sure : x.disk[u] = tbTask[u]
  BY <1>1, <1>2, FlushSound
<1>5. Sure' = Sure /\ Safe' = Sure
  BY <1>3 DEF Sure, Safe
<1>6. Together(x, tbTask, tbTries, tbTold, Sure, Sure)
  <2>1. \A u \in Sure : NoneOf(x.q.buf, u)
    BY <1>4 DEF NoneOf
  <2> QED  BY <1>4, <2>1 DEF Together
<1>7. TbTyped'
  <2>1. x.disk \in [TbUids -> TbStates] /\ tbDisk' = x.disk
    BY <1>3, <1>6, TogetherDisk DEF Settles
  <2> QED  BY <1>3, <2>1 DEF TbInv, TbTyped
<1>8. tbLife' # "up" /\ tbLife' # "down"
  BY <1>3
<1> QED  BY <1>3, <1>4, <1>5, <1>6, <1>7, <1>8, SettlesSound

\* The broker is down.
LEMMA DownKeeps ==
  ASSUME TbInv, TbDown
  PROVE  TbInv'
<1>1. /\ tbTask' = tbTask /\ tbDisk' = tbDisk /\ tbTries' = tbTries /\ tbTold' = tbTold /\ tbQueue' = tbQueue
      /\ tbHeld' = tbHeld /\ tbStops' = tbStops /\ tbLife' = "down" /\ tbQueue.frame = <<>>
  BY DEF TbDown, TbFree
<1>2. Sure' = Sure /\ Safe' = Safe /\ Before' = Before
  BY <1>1 DEF Sure, Safe, Before
<1>3. TbTyped'
  BY <1>1 DEF TbInv, TbTyped
<1> QED  BY <1>1, <1>2, <1>3 DEF TbInv

\* The ledger is loaded.
LEMMA BatchRestart ==
  ASSUME TbInv, TbRestart
  PROVE  TbInv'
<1>1. /\ tbDisk \in [TbUids -> TbStates] /\ tbStops \in Nat
      /\ Together(Before, tbTask, tbTries, tbTold, Sure, Safe) /\ Before.disk = tbDisk
  BY TbInvFacts DEF TbInv, TbTyped
<1>2. /\ tbTask' = tbDisk /\ tbDisk' = tbDisk /\ tbTries' = tbTries /\ tbTold' = tbTold /\ tbQueue' = EmptyQueue
      /\ tbHeld' = {} /\ tbStops' = tbStops + 1 /\ tbLife' = "up"
  BY DEF TbRestart
<1>3. Sure' = {} /\ Safe' = {}
  BY <1>1, <1>2 DEF Sure, Safe
<1>4. TbTyped'
  BY <1>1, <1>2 DEF TbInv, TbTyped
<1>5. PICK x : x = [q |-> EmptyQueue, disk |-> tbDisk]
  OBVIOUS
<1>6. /\ x \in Pairs /\ x.q = EmptyQueue /\ x.disk = tbDisk
      /\ EmptyQueue.buf = <<>> /\ EmptyQueue.frame = <<>> /\ EmptyQueue.dirty = {} /\ EmptyQueue.sched = FALSE
  <2>1. <<>> \in Seq(Payloads)
    OBVIOUS
  <2>2. EmptyQueue \in [buf : Seq(Payloads), dirty : SUBSET TbPools, sched : BOOLEAN, timers : Nat,
                        frame : Seq(Payloads)]
    BY <2>1 DEF EmptyQueue
  <2> QED  BY <1>1, <1>5, <2>2 DEF Pairs, EmptyQueue
<1>7. \A u \in TbUids : tbTold[u] \in TbEnds => tbDisk[u] = tbTold[u]
  BY <1>1 DEF Together
<1>8. \A u \in TbUids : tbDisk[u] # "none" => TbPool[u] \in TbPools
  BY <1>1 DEF Together
<1>9. Len(<<>>) = 0
  OBVIOUS
<1>10. Together(x, tbDisk, tbTries, tbTold, {}, {})
  BY <1>6, <1>7, <1>8, <1>9 DEF Together
<1>11. Comes(x.q)
  BY <1>6, <1>9, BatchConstants DEF Comes
<1>12. Settles(x)
  BY <1>2, <1>6 DEF Settles
<1> QED  BY <1>2, <1>3, <1>4, <1>10, <1>11, <1>12, SettlesSound


\* A frame goes out.
LEMMA FrameKeeps ==
  ASSUME TbInv, SendFrame
  PROVE  TbInv'
<1>1. /\ tbTask \in [TbUids -> TbStates] /\ tbTries \in [TbUids -> Nat]
      /\ tbTold \in [TbUids -> {"none", "RUNNING"} \cup TbEnds]
      /\ Safe \subseteq Sure /\ Before \in Pairs /\ Before.q = tbQueue /\ Before.disk = tbDisk
      /\ Together(Before, tbTask, tbTries, tbTold, Sure, Safe) /\ Comes(tbQueue)
  BY TbInvFacts DEF Together
<1>2. PICK fr \in Seq(Payloads) : fr = tbQueue.frame
  BY <1>1, PairFacts
<1>3. PICK f : f = fr[1]
  OBVIOUS
<1>4. /\ fr # <<>> /\ tbTold' = IF f[2] = tbTries[f[1]] THEN [tbTold EXCEPT ![f[1]] = f[3]] ELSE tbTold
      /\ tbQueue' = [tbQueue EXCEPT !.frame = Tail(fr)]
      /\ tbTask' = tbTask /\ tbDisk' = tbDisk /\ tbTries' = tbTries /\ tbLife' = tbLife /\ tbHeld' = tbHeld
      /\ tbStops' = tbStops
  BY <1>2, <1>3 DEF SendFrame
<1>5. /\ Tail(fr) \in Seq(Payloads) /\ Len(Tail(fr)) = Len(fr) - 1 /\ Len(fr) >= 1 /\ f \in Payloads
      /\ \A i \in 1..Len(fr) - 1 : Tail(fr)[i] = fr[i + 1]
  BY <1>3, <1>4, TailFacts
<1>6. f[1] \in TbUids /\ f[3] \in {"RUNNING"} \cup TbEnds
  BY <1>5, PayloadFacts
<1>7. PICK told : told = tbTold'
  OBVIOUS
<1>8. /\ told \in [TbUids -> {"none", "RUNNING"} \cup TbEnds]
      /\ \A u \in TbUids : told[u] = IF u = f[1] /\ f[2] = tbTries[u] THEN f[3] ELSE tbTold[u]
  <2>1. CASE f[2] = tbTries[f[1]]
    <3>1. told = [tbTold EXCEPT ![f[1]] = f[3]]
      BY <1>4, <1>7, <2>1
    <3> QED  BY <1>1, <1>6, <2>1, <3>1
  <2>2. CASE f[2] # tbTries[f[1]]
    <3>1. told = tbTold
      BY <1>4, <1>7, <2>2
    <3> QED  BY <1>1, <2>2, <3>1
  <2> QED  BY <2>1, <2>2
<1>9. PICK x : x = [q |-> [tbQueue EXCEPT !.frame = Tail(fr)], disk |-> tbDisk]
  OBVIOUS
<1>10. /\ x \in Pairs /\ x.q.buf = tbQueue.buf /\ x.q.dirty = tbQueue.dirty /\ x.q.sched = tbQueue.sched
       /\ x.q.timers = tbQueue.timers /\ x.q.frame = Tail(fr) /\ x.disk = tbDisk
  BY <1>1, <1>5, <1>9 DEF Pairs
<1>11. \A i \in 1..Len(fr) : Truthful(fr[i], tbTask, tbTries)
         /\ (BatchEndsCurrent(fr[i], tbTries) => tbDisk[fr[i][1]] = tbTask[fr[i][1]])
  BY <1>1, <1>2 DEF Together
<1>12. \A u : SoonOnDisk(x, tbTask, u) <=> SoonOnDisk(Before, tbTask, u)
  BY <1>1, <1>10 DEF SoonOnDisk
<1>a. \A i \in 1..Len(x.q.buf) : LET e == x.q.buf[i] IN
        Truthful(e, tbTask, tbTries) /\ (BatchEndsCurrent(e, tbTries) => SoonOnDisk(x, tbTask, e[1]))
  <2>1. \A i \in 1..Len(tbQueue.buf) : LET e == tbQueue.buf[i] IN
          Truthful(e, tbTask, tbTries) /\ (BatchEndsCurrent(e, tbTries) => SoonOnDisk(Before, tbTask, e[1]))
    BY <1>1 DEF Together
  <2> QED  BY <1>10, <1>12, <2>1
<1>b. \A i \in 1..Len(x.q.frame) : LET e == x.q.frame[i] IN
        Truthful(e, tbTask, tbTries) /\ (BatchEndsCurrent(e, tbTries) => x.disk[e[1]] = tbTask[e[1]])
  <2> SUFFICES ASSUME NEW i \in 1..Len(Tail(fr))
               PROVE  Truthful(Tail(fr)[i], tbTask, tbTries)
                      /\ (BatchEndsCurrent(Tail(fr)[i], tbTries) => tbDisk[Tail(fr)[i][1]] = tbTask[Tail(fr)[i][1]])
    BY <1>10
  <2>1. i + 1 \in 1..Len(fr) /\ Tail(fr)[i] = fr[i + 1]
    BY <1>5
  <2> QED  BY <1>11, <2>1
<1>c. \A u \in TbUids : told[u] \in TbEnds => tbTask[u] = told[u] /\ x.disk[u] = told[u]
  <2> SUFFICES ASSUME NEW u \in TbUids, told[u] \in TbEnds
               PROVE  tbTask[u] = told[u] /\ tbDisk[u] = told[u]
    BY <1>10
  <2>1. CASE u = f[1] /\ f[2] = tbTries[u]
    <3>1. 1 \in 1..Len(fr)
      BY <1>5
    <3>2. Truthful(f, tbTask, tbTries) /\ (BatchEndsCurrent(f, tbTries) => tbDisk[f[1]] = tbTask[f[1]])
      BY <1>3, <1>11, <3>1
    <3>3. told[u] = f[3] /\ BatchEndsCurrent(f, tbTries)
      BY <1>8, <2>1 DEF BatchEndsCurrent
    <3> QED  BY <2>1, <3>2, <3>3 DEF Truthful
  <2>2. CASE ~(u = f[1] /\ f[2] = tbTries[u])
    <3>1. told[u] = tbTold[u]
      BY <1>8, <2>2
    <3> QED  BY <1>1, <3>1 DEF Together
  <2> QED  BY <2>1, <2>2
<1>d. \A u \in Sure : SoonOnDisk(x, tbTask, u) /\ Heard(x, tbTask, tbTries, told, u)
  <2> SUFFICES ASSUME NEW u \in Sure
               PROVE  SoonOnDisk(x, tbTask, u) /\ Heard(x, tbTask, tbTries, told, u)
    OBVIOUS
  <2>1. SoonOnDisk(Before, tbTask, u) /\ Heard(Before, tbTask, tbTries, tbTold, u) /\ u \in TbUids
    BY <1>1 DEF Together, Sure
  <2>e. PICK e : e = <<u, tbTries[u], tbTask[u]>>
    OBVIOUS
  <2>2. e = <<u, tbTries[u], tbTask[u]>> /\ e[1] = u /\ e[2] = tbTries[u] /\ e[3] = tbTask[u]
    BY <2>e
  <2>3. \/ Tells(tbQueue.buf, e)
        \/ NoneOf(tbQueue.buf, u) /\ Tells(fr, e)
        \/ NoneOf(tbQueue.buf, u) /\ NoneOf(fr, u) /\ tbTold[u] = tbTask[u]
    BY <1>1, <1>2, <2>1, <2>2, Zenon DEF Heard
  <2>4. CASE Tells(tbQueue.buf, e)
    BY <1>10, <1>12, <2>1, <2>2, <2>4, Zenon DEF Heard
  <2>5. CASE NoneOf(tbQueue.buf, u) /\ Tells(fr, e)
    <3>1. Tells(Tail(fr), e) \/ (f = e /\ NoneOf(Tail(fr), u))
      BY <1>3, <1>4, <2>2, <2>5, TailTells
    <3>2. f = e => told[u] = tbTask[u]
      BY <1>8, <2>1, <2>2
    <3> QED  BY <1>10, <1>12, <2>1, <2>2, <2>5, <3>1, <3>2, Zenon DEF Heard
  <2>6. CASE NoneOf(tbQueue.buf, u) /\ NoneOf(fr, u) /\ tbTold[u] = tbTask[u]
    <3>1. NoneOf(Tail(fr), u) /\ f[1] # u
      BY <1>3, <1>4, <2>2, <2>6, TailTells
    <3>2. told[u] = tbTask[u]
      BY <1>8, <2>1, <2>6, <3>1
    <3> QED  BY <1>10, <1>12, <2>1, <2>6, <3>1, <3>2, Zenon DEF Heard
  <2> QED  BY <2>3, <2>4, <2>5, <2>6
<1>e. \A u \in Safe : NoneOf(x.q.buf, u) /\ x.disk[u] = tbTask[u]
  BY <1>1, <1>10 DEF Together
<1>k. \A u \in TbUids : tbTask[u] # "none" \/ x.disk[u] # "none" => TbPool[u] \in TbPools
  BY <1>1, <1>10 DEF Together
<1>13. Together(x, tbTask, tbTries, told, Sure, Safe)
  BY <1>10, <1>a, <1>b, <1>c, <1>d, <1>e, <1>k DEF Together
<1>14. Comes(x.q)
  BY <1>1, <1>10 DEF Comes
<1>15. Settles(x) /\ Sure' = Sure /\ Safe' = Safe
  BY <1>4, <1>9 DEF Settles, Sure, Safe
<1>16. TbTyped'
  BY <1>4, <1>7, <1>8 DEF TbInv, TbTyped
<1>17. (tbLife' = "up" => tbHeld' = {}) /\ tbLife' # "down"
  BY <1>2, <1>4 DEF TbInv
<1> QED  BY <1>1, <1>4, <1>7, <1>13, <1>14, <1>15, <1>16, <1>17, SettlesSound

\* Every step keeps the invariant.
LEMMA TbNextKeeps == TbInv /\ [TbNext]_tbVars => TbInv'
<1> SUFFICES ASSUME TbInv, [TbNext]_tbVars
             PROVE  TbInv'
  OBVIOUS
<1>1. ASSUME NEW b \in TbBatches, NEW c \in SUBSET TbUids, SubmitRh(b, c)
      PROVE  TbInv'
  BY <1>1, SubmitRhKeeps
<1>2. ASSUME NEW u \in TbUids, NEW st \in {"DONE", "FAILED"}, NEW c \in SUBSET TbUids, TbTerminal(u, st, c)
      PROVE  TbInv'
  BY <1>2, TerminalKeeps
<1>3. ASSUME NEW u \in TbUids, NEW st \in {"CANCELED", "FAILED"}, TbGivenUp(u, st)
      PROVE  TbInv'
  BY <1>3, GivenUpKeeps
<1>4. ASSUME NEW p \in TbPools, TbSubmitted(p)
      PROVE  TbInv'
  BY <1>4, SubmittedKeeps
<1>5. CASE FlushTimer
  BY <1>5, TimerKeeps
<1>6. CASE SendFrame
  BY <1>6, FrameKeeps
<1>7. CASE TbShutdown
  BY <1>7, BatchShutdown
<1>8. CASE TbDown
  BY <1>8, DownKeeps
<1>9. CASE TbRestart
  BY <1>9, BatchRestart
<1>10. CASE UNCHANGED tbVars
  <2>1. /\ tbTask' = tbTask /\ tbDisk' = tbDisk /\ tbTries' = tbTries /\ tbTold' = tbTold /\ tbQueue' = tbQueue
        /\ tbHeld' = tbHeld /\ tbStops' = tbStops /\ tbLife' = tbLife
    BY <1>10 DEF tbVars
  <2>2. Sure' = Sure /\ Safe' = Safe /\ Before' = Before
    BY <2>1 DEF Sure, Safe, Before
  <2> QED  BY <2>1, <2>2 DEF TbInv, TbTyped
<1> QED  BY <1>1, <1>2, <1>3, <1>4, <1>5, <1>6, <1>7, <1>8, <1>9, <1>10 DEF TbNext

\* What the runs check follows.
LEMMA TbImplies ==
  ASSUME TbInv
  PROVE  TbTypeOK /\ BufferedIsArmed /\ ToldIsSaved /\ ShutdownLosesNothing
<1>1. /\ Together(Before, tbTask, tbTries, tbTold, Sure, Safe) /\ Before.q = tbQueue /\ Before.disk = tbDisk
      /\ Comes(tbQueue) /\ Before \in Pairs /\ Safe \subseteq Sure
  BY TbInvFacts DEF Together
<1>2. TbTypeOK
  <2>1. tbQueue.dirty \subseteq TbPools /\ tbQueue.sched \in BOOLEAN /\ tbQueue.timers \in Nat
    BY <1>1, PairFacts
  <2> QED  BY <1>1, <2>1 DEF TbTypeOK, TbInv, TbTyped, TbStates, Comes
<1>3. BufferedIsArmed
  BY <1>1 DEF BufferedIsArmed, Comes
<1>4. ToldIsSaved
  BY <1>1 DEF ToldIsSaved, Together
<1>5. ShutdownLosesNothing
  <2> SUFFICES ASSUME tbLife = "down", tbStops = 0, NEW u \in tbHeld
               PROVE  tbDisk[u] = tbTask[u] /\ tbTold[u] = tbTask[u]
    BY DEF ShutdownLosesNothing
  <2>1. u \in Safe /\ u \in Sure
    BY <1>1 DEF Safe
  <2>2. NoneOf(tbQueue.buf, u) /\ tbDisk[u] = tbTask[u] /\ Heard(Before, tbTask, tbTries, tbTold, u)
    BY <1>1, <2>1 DEF Together
  <2>3. PICK e : e = <<u, tbTries[u], tbTask[u]>>
    OBVIOUS
  <2>4. e[1] = u
    BY <2>3
  <2>5. ~Tells(tbQueue.buf, e)
    BY <2>2, <2>4 DEF Tells, NoneOf
  <2>6. ~Tells(tbQueue.frame, e)
    <3>1. tbQueue.frame = <<>> /\ Len(<<>>) = 0
      BY DEF TbInv
    <3> QED  BY <3>1 DEF Tells
  <2> QED  BY <1>1, <2>2, <2>3, <2>5, <2>6, Zenon DEF Heard
<1> QED  BY <1>2, <1>3, <1>4, <1>5

\* Whatever is buffered has a flush coming, what clients were told is saved,
\* and a shutdown loses nothing that had ended (_notify_task, _flush_rh,
\* shutdown).
THEOREM NothingToldIsLost ==
  TbSpec => [](TbTypeOK /\ BufferedIsArmed /\ ToldIsSaved /\ ShutdownLosesNothing)
<1>1. TbInv => TbTypeOK /\ BufferedIsArmed /\ ToldIsSaved /\ ShutdownLosesNothing
  BY TbImplies
<1> QED  BY <1>1, TbInitSound, TbNextKeeps, PTL DEF TbSpec

-----------------------------------------------------------------------------
(***************************************************************************)
(* Placement of tasks (Placement).                                         *)
(***************************************************************************)

AnyDecl == PlDecls \cup {PlLegacy}
AnyReq  == {Parsed(raw) : raw \in {x \in PlRaws : ShapeValid(x)}}
PilotRecs == [st : {"gone", "pending", "active"}, member : PlMembers \cup {NoPilot},
              decl : AnyDecl \cup {NoDecl}, open : BOOLEAN, load : Nat, late : BOOLEAN]
TaskRecs == [st : {"none", "done", "queued", "running"}, req : AnyReq \cup {NoReq},
             pilot : PlPilots \cup {NoPilot}, tries : Nat, waits : BOOLEAN]
RemovalRecs == [on : BOOLEAN, left : SUBSET PlPilots, failThem : BOOLEAN]
Fleets == [kind : {"class", "legacy"}, decl : [PlMembers -> AnyDecl \cup {NoDecl}],
           pilot : [PlPilots -> PilotRecs], task : [PlTasks -> TaskRecs],
           order : Seq(PlTasks), removal : [PlMembers -> RemovalRecs]]

\* A task that runs is on a live pilot that can run it.
TaskPlaced(f, t) ==
  LET k == f.task[t] IN
  /\ k.st \in {"queued", "running"} => k.req \in AnyReq
  /\ k.st # "running" => k.pilot = NoPilot
  /\ k.st = "running" => /\ k.pilot \in PlPilots /\ f.pilot[k.pilot].st # "gone"
                         /\ Accepts(f.pilot[k.pilot].decl, k.req)
                         /\ f.pilot[k.pilot].decl.size.cpus > 0
\* A live pilot has what its member declares, unless it is to be cancelled.
PilotCurrent(f, p, X) ==
  LET r == f.pilot[p] IN
  r.st # "gone" =>
    /\ r.decl \in AnyDecl /\ r.member \in PlMembers
    /\ p \in X \/ (\E m \in PlMembers : p \in f.removal[m].left) \/ f.decl[r.member] = r.decl

\* A fleet in the middle of a step: the pilots of X are about to be cancelled,
\* the tasks of Y about to be failed.
PlSound(f, X, Y) ==
  /\ f \in Fleets
  /\ \A t \in PlTasks : TaskPlaced(f, t) /\ (t \notin Y => f.task[t].tries <= PlRequeues)
  /\ \A p \in PlPilots : PilotCurrent(f, p, X) /\ f.pilot[p].load = Cardinality(Held(f, {p}))
  /\ \A m \in PlMembers : ~f.removal[m].on => f.removal[m].left = {}

Quiet(f) == f.kind = "class" /\ \A m \in PlMembers : ~f.removal[m].on
Servable(f) ==
  Quiet(f) => \A t \in PlTasks : f.task[t].st = "queued" /\ ~f.task[t].waits => SomeMember(f, f.task[t].req)

-----------------------------------------------------------------------------
\* The fields of a fleet.
LEMMA FleetFacts ==
  ASSUME NEW f \in Fleets
  PROVE  /\ f.kind \in {"class", "legacy"} /\ f.decl \in [PlMembers -> AnyDecl \cup {NoDecl}]
         /\ f.pilot \in [PlPilots -> PilotRecs] /\ f.task \in [PlTasks -> TaskRecs]
         /\ f.order \in Seq(PlTasks) /\ f.removal \in [PlMembers -> RemovalRecs]
BY DEF Fleets

\* The fields of the records in a fleet.
LEMMA RecordFacts ==
  ASSUME NEW f \in Fleets
  PROVE  /\ \A t \in PlTasks : /\ f.task[t].st \in {"none", "done", "queued", "running"}
                               /\ f.task[t].req \in AnyReq \cup {NoReq}
                               /\ f.task[t].pilot \in PlPilots \cup {NoPilot}
                               /\ f.task[t].tries \in Nat /\ f.task[t].waits \in BOOLEAN
         /\ \A p \in PlPilots : /\ f.pilot[p].st \in {"gone", "pending", "active"}
                                /\ f.pilot[p].decl \in AnyDecl \cup {NoDecl} /\ f.pilot[p].load \in Nat
         /\ \A m \in PlMembers : f.removal[m].left \subseteq PlPilots
BY DEF Fleets, TaskRecs, PilotRecs, RemovalRecs

\* Sizes of declarations.
LEMMA DeclFacts ==
  ASSUME NEW d \in AnyDecl
  PROVE  d.size.cpus \in Nat /\ d.size.gpus \in Nat /\ d # NoDecl
BY PlacementConstants DEF AnyDecl

\* Whom a pilot holds.
LEMMA HeldFacts ==
  ASSUME NEW f, NEW p
  PROVE  /\ IsFiniteSet(Held(f, {p})) /\ Cardinality(Held(f, {p})) \in Nat
         /\ Held(f, {p}) = {t \in PlTasks : f.task[t].st = "running" /\ f.task[t].pilot = p}
<1>1. Held(f, {p}) \subseteq PlTasks /\ Held(f, {p}) = {t \in PlTasks : f.task[t].st = "running" /\ f.task[t].pilot = p}
  BY DEF Held
<1> QED  BY <1>1, PlacementConstants, FS_Subset, FS_CardinalityType

\* Part of a queue is a queue.
LEMMA KeptType ==
  ASSUME NEW q \in Seq(PlTasks), NEW S
  PROVE  KeptOf(q, S) \in Seq(PlTasks)
<1>0. PICK N, V, e : N = Len(q) /\ V = Seq(PlTasks) /\ e = <<>>
  OBVIOUS
<1> DEFINE Steps(g) == g = [n \in 0..Len(q) |->
                              IF n = 0 THEN <<>>
                              ELSE IF q[n] \in S THEN Append(g[n - 1], q[n]) ELSE g[n - 1]]
<1>1. N \in Nat /\ \A i \in 1..N : q[i] \in PlTasks
  BY <1>0, SeqElements
<1>2. e \in V
  BY <1>0
<1>3. \A s \in V, i \in 1..N : (IF q[i] \in S THEN Append(s, q[i]) ELSE s) \in V
  BY <1>0, <1>1, AppendFacts
<1>4. PICK step : step = [x \in V \X (1..N) |-> IF q[x[2]] \in S THEN Append(x[1], q[x[2]]) ELSE x[1]]
  OBVIOUS
<1>5. /\ step \in [V \X (1..N) -> V]
      /\ \A s \in V, i \in 1..N : step[<<s, i>>] = IF q[i] \in S THEN Append(s, q[i]) ELSE s
  <2>1. \A x \in V \X (1..N) : x[1] \in V /\ x[2] \in 1..N
    OBVIOUS
  <2> QED  BY <1>3, <1>4, <2>1
<1>6. PICK g \in [0..N -> V] : g[0] = e /\ \A i \in 1..N : g[i] = step[<<g[i - 1], i>>]
  <2>1. Stepping(N, V, e, step)
    BY <1>1, <1>2, <1>5 DEF Stepping
  <2> QED  BY <2>1, StepsExist
<1>7. Steps(g)
  <2>1. g = [n \in 0..N |-> g[n]]
    BY <1>6
  <2>2. \A n \in 0..N : g[n] = IF n = 0 THEN <<>>
                               ELSE IF q[n] \in S THEN Append(g[n - 1], q[n]) ELSE g[n - 1]
    <3> SUFFICES ASSUME NEW n \in 0..N, n # 0
                 PROVE  g[n] = IF q[n] \in S THEN Append(g[n - 1], q[n]) ELSE g[n - 1]
      BY <1>0, <1>6
    <3>1. n \in 1..N /\ n - 1 \in 0..N
      BY <1>1
    <3>2. g[n - 1] \in V
      BY <1>6, <3>1
    <3> QED  BY <1>5, <1>6, <3>1, <3>2
  <2> QED  BY <1>0, <2>1, <2>2
<1>8. PICK F : F = (CHOOSE f : Steps(f))
  OBVIOUS
<1>9. Steps(F)
  <2> HIDE DEF Steps
  <2> QED  BY <1>7, <1>8
<1>10. F[0] = e /\ \A i \in 1..N : F[i] = IF q[i] \in S THEN Append(F[i - 1], q[i]) ELSE F[i - 1]
  <2>1. F[0] = e
    BY <1>0, <1>1, <1>9
  <2>2. ASSUME NEW i \in 1..N
        PROVE  F[i] = IF q[i] \in S THEN Append(F[i - 1], q[i]) ELSE F[i - 1]
    <3>1. i \in 0..Len(q) /\ i # 0
      BY <1>0, <1>1
    <3> QED  BY <1>9, <3>1
  <2> QED  BY <2>1, <2>2
<1>11. \A i \in 1..N : F[i - 1] \in V => F[i] \in V
  BY <1>3, <1>10
<1>12. F[0] \in V
  BY <1>2, <1>10
<1>13. \A i \in 0..N : F[i] \in V
  <2> HIDE DEF Steps
  <2> QED  BY <1>1, <1>11, <1>12, StepsStay
<1>14. KeptOf(q, S) = F[N]
  BY <1>0, <1>8 DEF KeptOf
<1> QED  BY <1>0, <1>1, <1>13, <1>14

\* g is what f becomes when the tasks of S end; those of Y had to.
Ends(f, X, Y, S, st, g) ==
  /\ PlSound(f, X, Y) /\ Y \subseteq S /\ S \subseteq PlTasks /\ st \in {"none", "done"}
  /\ g = PlEndTasks(f, S, st)

\* Tasks end: they give back what they held.
LEMMA EndSound ==
  ASSUME NEW f, NEW X, NEW Y, NEW S, NEW st, NEW g, Ends(f, X, Y, S, st, g)
  PROVE  /\ PlSound(g, X, {}) /\ (Servable(f) => Servable(g))
         /\ g.removal = f.removal /\ g.decl = f.decl /\ g.kind = f.kind
         /\ \A p \in PlPilots : g.pilot[p].st = f.pilot[p].st
         /\ \A t \in PlTasks : g.task[t] = IF t \in S THEN OverTask(st) ELSE f.task[t]
<1>0. /\ PlSound(f, X, Y) /\ Y \subseteq S /\ S \subseteq PlTasks /\ st \in {"none", "done"}
      /\ g = PlEndTasks(f, S, st)
  BY DEF Ends
<1>1. f \in Fleets
  BY <1>0 DEF PlSound
<1>2. /\ f.decl \in [PlMembers -> AnyDecl \cup {NoDecl}]
      /\ f.pilot \in [PlPilots -> PilotRecs] /\ f.task \in [PlTasks -> TaskRecs]
      /\ f.order \in Seq(PlTasks) /\ f.removal \in [PlMembers -> RemovalRecs]
  BY <1>1, FleetFacts
<1> DEFINE Given(p) == Cardinality({t \in S : f.task[t].pilot = p})
<1>3. PICK tasks, order, pilots :
        /\ tasks = [t \in PlTasks |-> IF t \in S THEN OverTask(st) ELSE f.task[t]]
        /\ order = KeptOf(f.order, PlTasks \ S)
        /\ pilots = [p \in PlPilots |-> [f.pilot[p] EXCEPT !.load = Max({0, @ - Given(p)})]]
  OBVIOUS
<1>5. g = [f EXCEPT !.task = tasks, !.order = order, !.pilot = pilots]
  BY <1>0, <1>3 DEF PlEndTasks
<1>6. OverTask(st) \in TaskRecs /\ OverTask(st).st = st /\ OverTask(st).pilot = NoPilot /\ OverTask(st).tries = 0
  BY <1>0 DEF OverTask, TaskRecs
<1>7. tasks \in [PlTasks -> TaskRecs] /\ \A t \in PlTasks : tasks[t] = IF t \in S THEN OverTask(st) ELSE f.task[t]
  BY <1>2, <1>3, <1>6
<1>8. order \in Seq(PlTasks)
  BY <1>2, <1>3, KeptType
<1>9. \A p \in PlPilots : Max({0, f.pilot[p].load - Given(p)}) = Cardinality(Held(f, {p}) \ S)
  <2> SUFFICES ASSUME NEW p \in PlPilots
               PROVE  Max({0, f.pilot[p].load - Given(p)}) = Cardinality(Held(f, {p}) \ S)
    OBVIOUS
  <2>1. {t \in S : f.task[t].pilot = p} = Held(f, {p}) \cap S
    <3>1. \A t \in PlTasks : f.task[t].pilot = p => f.task[t].st = "running"
      <4>1. \A t \in PlTasks : f.task[t].st # "running" => f.task[t].pilot = NoPilot
        BY <1>0 DEF PlSound, TaskPlaced
      <4> QED  BY <4>1, PlacementConstants
    <3>2. Held(f, {p}) = {t \in PlTasks : f.task[t].st = "running" /\ f.task[t].pilot = p}
      BY DEF Held
    <3> QED  BY <1>0, <3>1, <3>2
  <2>2. PICK H : H = Held(f, {p}) /\ IsFiniteSet(H) /\ f.pilot[p].load = Cardinality(H)
    BY <1>0, HeldFacts DEF PlSound
  <2>3. /\ IsFiniteSet(H \ S) /\ Cardinality(H \ S) = Cardinality(H) - Cardinality(H \cap S)
        /\ Cardinality(H \ S) \in Nat /\ Cardinality(H) \in Nat
    BY <2>2, FS_Difference, FS_CardinalityType
  <2>4. PICK n \in Nat : n = Cardinality(H \ S) /\ f.pilot[p].load - Given(p) = n
    BY <2>1, <2>2, <2>3
  <2>5. Max({0, n}) = n
    <3>1. Max({0, n}) \in {0, n} /\ Max({0, n}) >= n
      BY MaxOfTwo
    <3> QED  BY <3>1
  <2> QED  BY <2>2, <2>4, <2>5
<1>10. \A p \in PlPilots : Cardinality(Held(f, {p}) \ S) \in Nat
  <2>1. \A p : IsFiniteSet(Held(f, {p}) \ S)
    BY HeldFacts, FS_Difference
  <2> QED  BY <2>1, FS_CardinalityType
<1>11. pilots = [p \in PlPilots |-> [f.pilot[p] EXCEPT !.load = Cardinality(Held(f, {p}) \ S)]]
  <2> HIDE DEF Given
  <2> QED  BY <1>3, <1>9
<1>12. pilots \in [PlPilots -> PilotRecs]
  BY <1>2, <1>10, <1>11 DEF PilotRecs
<1>13. \A p \in PlPilots : /\ pilots[p].load = Cardinality(Held(f, {p}) \ S)
                           /\ pilots[p].st = f.pilot[p].st /\ pilots[p].member = f.pilot[p].member
                           /\ pilots[p].decl = f.pilot[p].decl
  BY <1>2, <1>11 DEF PilotRecs
<1> HIDE DEF Given
<1>14. /\ g \in Fleets /\ g.task = tasks /\ g.order = order /\ g.pilot = pilots
       /\ g.decl = f.decl /\ g.removal = f.removal /\ g.kind = f.kind
  BY <1>1, <1>5, <1>7, <1>8, <1>12 DEF Fleets
<1>15. ASSUME NEW t \in PlTasks
       PROVE  TaskPlaced(g, t) /\ g.task[t].tries <= PlRequeues
  <2>1. TaskPlaced(f, t) /\ (t \notin S => f.task[t].tries <= PlRequeues)
    BY <1>0 DEF PlSound
  <2>2. CASE t \in S
    BY <1>0, <1>6, <1>7, <1>14, <2>2, PlacementConstants DEF TaskPlaced
  <2>3. CASE t \notin S
    <3>1. g.task[t] = f.task[t]
      BY <1>7, <1>14, <2>3
    <3>2. \A p \in PlPilots : g.pilot[p].st = f.pilot[p].st /\ g.pilot[p].decl = f.pilot[p].decl
      BY <1>13, <1>14
    <3> QED  BY <1>0, <2>1, <2>3, <3>1, <3>2 DEF TaskPlaced
  <2> QED  BY <2>2, <2>3
<1>16. ASSUME NEW p \in PlPilots
       PROVE  PilotCurrent(g, p, X) /\ g.pilot[p].load = Cardinality(Held(g, {p}))
  <2>1. Held(g, {p}) = Held(f, {p}) \ S
    <3>1. \A t \in PlTasks : g.task[t].st = "running" /\ g.task[t].pilot = p
                             <=> f.task[t].st = "running" /\ f.task[t].pilot = p /\ t \notin S
      BY <1>0, <1>6, <1>7, <1>14, PlacementConstants
    <3>2. /\ Held(f, {p}) = {t \in PlTasks : f.task[t].st = "running" /\ f.task[t].pilot = p}
          /\ Held(g, {p}) = {t \in PlTasks : g.task[t].st = "running" /\ g.task[t].pilot = p}
      BY DEF Held
    <3> QED  BY <3>1, <3>2
  <2>2. PilotCurrent(f, p, X)
    BY <1>0 DEF PlSound
  <2> QED  BY <1>13, <1>14, <2>1, <2>2 DEF PilotCurrent
<1>17. PlSound(g, X, {})
  <2>1. \A m \in PlMembers : ~g.removal[m].on => g.removal[m].left = {}
    BY <1>0, <1>14 DEF PlSound
  <2> QED  BY <1>14, <1>15, <1>16, <2>1 DEF PlSound
<1>18. ASSUME Servable(f)
       PROVE  Servable(g)
  <2> SUFFICES ASSUME Quiet(g), NEW t \in PlTasks, g.task[t].st = "queued", ~g.task[t].waits
               PROVE  SomeMember(g, g.task[t].req)
    BY DEF Servable
  <2>1. t \notin S /\ g.task[t] = f.task[t]
    BY <1>0, <1>6, <1>7, <1>14
  <2>2. Quiet(f)
    BY <1>14 DEF Quiet
  <2>3. SomeMember(f, f.task[t].req)
    BY <1>18, <2>1, <2>2 DEF Servable
  <2> QED  BY <1>14, <2>1, <2>3 DEF SomeMember, Declared
<1> QED  BY <1>7, <1>13, <1>14, <1>17, <1>18

\* A queued task gets a slot of the least loaded pilot that can run it, or
\* stays queued.
LEMMA DispatchOneSound ==
  ASSUME NEW f, NEW t \in PlTasks, PlSound(f, {}, {}), Servable(f)
  PROVE  PlSound(DispatchOne(f, t), {}, {}) /\ Servable(DispatchOne(f, t))
<1>1. PICK c : c = Candidates(f, t)
  OBVIOUS
<1>2. CASE f.task[t].st # "queued" \/ c = {}
  BY <1>1, <1>2 DEF DispatchOne
<1>3. CASE f.task[t].st = "queued" /\ c # {}
  <2>1. /\ f \in Fleets
        /\ f.pilot \in [PlPilots -> PilotRecs] /\ f.task \in [PlTasks -> TaskRecs]
    <3>1. f \in Fleets
      BY DEF PlSound
    <3> QED  BY <3>1, FleetFacts
  <2>2. PICK p : p = CHOOSE x \in c : \A y \in c : f.pilot[x].load <= f.pilot[y].load
    OBVIOUS
  <2>3. p \in c /\ p \in PlPilots
    <3>1. c \subseteq PlPilots
      BY <1>1 DEF Candidates, Live
    <3>2. PICK L : L = {f.pilot[x].load : x \in c}
      OBVIOUS
    <3>3. L \subseteq Nat /\ L # {}
      BY <1>3, <2>1, <3>1, <3>2 DEF PilotRecs
    <3>4. PICK n \in L : \A m \in L : n <= m
      BY <3>3, LeastNatural
    <3>5. \E x \in c : \A y \in c : f.pilot[x].load <= f.pilot[y].load
      BY <3>2, <3>4
    <3> QED  BY <2>2, <3>1, <3>5
  <2>4. f.pilot[p].st # "gone" /\ FreeCapacity(f.pilot[p]) > 0 /\ Accepts(f.pilot[p].decl, f.task[t].req)
    BY <1>1, <2>3 DEF Candidates, Live, Serves
  <2>5. f.pilot[p].decl \in AnyDecl /\ f.pilot[p].load \in Nat
    BY <2>1, <2>3, <2>4 DEF PlSound, PilotCurrent, PilotRecs
  <2>6. f.pilot[p].decl.size.cpus > 0
    <3>1. f.pilot[p].decl.size.cpus \in Nat
      BY <2>5, DeclFacts
    <3> QED  BY <2>4, <2>5, <3>1 DEF FreeCapacity
  <2>7. f.task[t].req \in AnyReq
    BY <1>3 DEF PlSound, TaskPlaced
  <2>8. PICK k, r, tasks, pilots, g :
          /\ k = [f.task[t] EXCEPT !.st = "running", !.pilot = p, !.waits = FALSE]
          /\ r = [f.pilot[p] EXCEPT !.load = @ + 1]
          /\ tasks = [f.task EXCEPT ![t] = k] /\ pilots = [f.pilot EXCEPT ![p] = r]
          /\ g = [f EXCEPT !.task = tasks, !.pilot = pilots]
    OBVIOUS
  <2>9. DispatchOne(f, t) = g
    <3>1. DispatchOne(f, t) = [f EXCEPT !.task[t] = [@ EXCEPT !.st = "running", !.pilot = p, !.waits = FALSE],
                                        !.pilot[p].load = @ + 1]
      BY <1>1, <1>3, <2>2 DEF DispatchOne
    <3>2. f.pilot = [f EXCEPT !.task = tasks].pilot
      BY <2>1 DEF Fleets
    <3> QED  BY <2>1, <2>8, <3>1, <3>2
  <2>10. /\ tasks \in [PlTasks -> TaskRecs] /\ pilots \in [PlPilots -> PilotRecs]
         /\ \A x \in PlTasks \ {t} : tasks[x] = f.task[x]
         /\ tasks[t].st = "running" /\ tasks[t].pilot = p
         /\ tasks[t].req = f.task[t].req /\ tasks[t].tries = f.task[t].tries
         /\ \A x \in PlPilots \ {p} : pilots[x] = f.pilot[x]
         /\ pilots[p].load = f.pilot[p].load + 1 /\ pilots[p].st = f.pilot[p].st
         /\ pilots[p].decl = f.pilot[p].decl /\ pilots[p].member = f.pilot[p].member
    <3>1. /\ k \in TaskRecs /\ k.st = "running" /\ k.pilot = p
          /\ k.req = f.task[t].req /\ k.tries = f.task[t].tries
      <4>1. f.task[t] \in TaskRecs
        BY <2>1
      <4> QED  BY <2>3, <2>8, <4>1 DEF TaskRecs
    <3>2. /\ r \in PilotRecs /\ r.load = f.pilot[p].load + 1 /\ r.st = f.pilot[p].st
          /\ r.decl = f.pilot[p].decl /\ r.member = f.pilot[p].member
      <4>1. f.pilot[p] \in PilotRecs
        BY <2>1, <2>3
      <4> QED  BY <2>5, <2>8, <4>1 DEF PilotRecs
    <3> QED  BY <2>1, <2>3, <2>8, <3>1, <3>2
  <2>11. /\ g \in Fleets /\ g.task = tasks /\ g.pilot = pilots
         /\ g.decl = f.decl /\ g.removal = f.removal /\ g.kind = f.kind
    BY <2>1, <2>8, <2>10 DEF Fleets
  <2>12. ASSUME NEW x \in PlTasks
         PROVE  TaskPlaced(g, x) /\ g.task[x].tries <= PlRequeues
    <3>1. TaskPlaced(f, x) /\ f.task[x].tries <= PlRequeues
      BY DEF PlSound
    <3>2. \A y \in PlPilots : g.pilot[y].st = f.pilot[y].st /\ g.pilot[y].decl = f.pilot[y].decl
      BY <2>10, <2>11
    <3>3. CASE x = t
      BY <2>3, <2>4, <2>6, <2>7, <2>10, <2>11, <3>1, <3>2, <3>3 DEF TaskPlaced
    <3>4. CASE x # t
      <4>1. g.task[x] = f.task[x]
        BY <2>10, <2>11, <3>4
      <4> QED  BY <3>1, <3>2, <4>1 DEF TaskPlaced
    <3> QED  BY <3>3, <3>4
  <2>13. ASSUME NEW y \in PlPilots
         PROVE  PilotCurrent(g, y, {}) /\ g.pilot[y].load = Cardinality(Held(g, {y}))
    <3>1. PilotCurrent(f, y, {}) /\ f.pilot[y].load = Cardinality(Held(f, {y})) /\ f.pilot[y].load \in Nat
      BY <2>1 DEF PlSound, PilotRecs
    <3>2. PilotCurrent(g, y, {})
      BY <2>10, <2>11, <3>1 DEF PilotCurrent
    <3>3. \A x \in PlTasks : g.task[x].st = "running" /\ g.task[x].pilot = y
                             <=> (x = t /\ y = p) \/ (f.task[x].st = "running" /\ f.task[x].pilot = y)
      <4>1. f.task[t].st # "running"
        BY <1>3
      <4> QED  BY <2>10, <2>11, <4>1
    <3>4. PICK H : H = Held(f, {y}) /\ IsFiniteSet(H)
      BY HeldFacts
    <3>5. H = {x \in PlTasks : f.task[x].st = "running" /\ f.task[x].pilot = y}
      BY <3>4 DEF Held
    <3>6. CASE y = p
      <4>1. Held(g, {y}) = H \cup {t}
        BY <3>3, <3>5, <3>6 DEF Held
      <4>2. t \notin H
        BY <1>3, <3>5
      <4>3. Cardinality(H \cup {t}) = Cardinality(H) + 1
        BY <3>4, <4>2, FS_AddElement
      <4> QED  BY <2>10, <2>11, <3>1, <3>2, <3>4, <3>6, <4>1, <4>3
    <3>7. CASE y # p
      <4>1. Held(g, {y}) = H
        BY <3>3, <3>5, <3>7 DEF Held
      <4> QED  BY <2>10, <2>11, <3>1, <3>2, <3>4, <3>7, <4>1
    <3> QED  BY <3>6, <3>7
  <2>14. PlSound(g, {}, {})
    <3>1. \A m \in PlMembers : ~g.removal[m].on => g.removal[m].left = {}
      BY <2>11 DEF PlSound
    <3> QED  BY <2>11, <2>12, <2>13, <3>1 DEF PlSound
  <2>15. Servable(g)
    <3> SUFFICES ASSUME Quiet(g), NEW x \in PlTasks, g.task[x].st = "queued", ~g.task[x].waits
                 PROVE  SomeMember(g, g.task[x].req)
      BY DEF Servable
    <3>1. g.task[x] = f.task[x] /\ Quiet(f)
      BY <2>10, <2>11 DEF Quiet
    <3>2. SomeMember(f, f.task[x].req)
      BY <3>1 DEF Servable
    <3> QED  BY <2>11, <3>1, <3>2 DEF SomeMember, Declared
  <2> QED  BY <2>9, <2>14, <2>15
<1> QED  BY <1>2, <1>3

\* Draining a queue keeps a fleet sound.
LEMMA DrainSound ==
  ASSUME NEW f, PlSound(f, {}, {}), Servable(f)
  PROVE  PlSound(DrainPending(f), {}, {}) /\ Servable(DrainPending(f))
<1>0. PICK V : V = {g \in Fleets : PlSound(g, {}, {}) /\ Servable(g)}
  OBVIOUS
<1>1. PICK q : q = Pending(f)
  OBVIOUS
<1>2. q \in Seq(PlTasks)
  <2>1. f \in Fleets
    BY DEF PlSound
  <2>2. f.order \in Seq(PlTasks)
    BY <2>1, FleetFacts
  <2> QED  BY <1>1, <2>2, KeptType DEF Pending
<1>3. PICK N : N = Len(q)
  OBVIOUS
<1>4. N \in Nat /\ \A i \in 1..N : q[i] \in PlTasks
  BY <1>2, <1>3, SeqElements
<1>5. \A g : g \in V <=> PlSound(g, {}, {}) /\ Servable(g)
  BY <1>0 DEF PlSound
<1>6. \A g \in V, i \in 1..N : DispatchOne(g, q[i]) \in V
  BY <1>4, <1>5, DispatchOneSound
<1> DEFINE Steps(h) == h = [n \in 0..Len(q) |-> IF n = 0 THEN f ELSE DispatchOne(h[n - 1], q[n])]
<1>7. PICK step : step = [x \in V \X (1..N) |-> DispatchOne(x[1], q[x[2]])]
  OBVIOUS
<1>8. step \in [V \X (1..N) -> V] /\ \A g \in V, i \in 1..N : step[<<g, i>>] = DispatchOne(g, q[i])
  <2>1. \A x \in V \X (1..N) : x[1] \in V /\ x[2] \in 1..N
    OBVIOUS
  <2> QED  BY <1>6, <1>7, <2>1
<1>9. PICK h \in [0..N -> V] : h[0] = f /\ \A i \in 1..N : h[i] = step[<<h[i - 1], i>>]
  <2>1. Stepping(N, V, f, step)
    BY <1>4, <1>5, <1>8 DEF Stepping
  <2> QED  BY <2>1, StepsExist
<1>10. Steps(h)
  <2>1. h = [n \in 0..N |-> h[n]]
    BY <1>9
  <2>2. \A n \in 0..N : h[n] = IF n = 0 THEN f ELSE DispatchOne(h[n - 1], q[n])
    <3> SUFFICES ASSUME NEW n \in 0..N, n # 0
                 PROVE  h[n] = DispatchOne(h[n - 1], q[n])
      BY <1>9
    <3>1. n \in 1..N /\ n - 1 \in 0..N
      BY <1>4
    <3>2. h[n - 1] \in V
      BY <1>9, <3>1
    <3> QED  BY <1>8, <1>9, <3>1, <3>2
  <2> QED  BY <1>3, <2>1, <2>2
<1>11. PICK F : F = (CHOOSE g : Steps(g))
  OBVIOUS
<1>12. Steps(F)
  <2> HIDE DEF Steps
  <2> QED  BY <1>10, <1>11
<1>13. F[0] = f /\ \A i \in 1..N : F[i] = DispatchOne(F[i - 1], q[i])
  <2>1. F[0] = f
    BY <1>3, <1>4, <1>12
  <2>2. ASSUME NEW i \in 1..N
        PROVE  F[i] = DispatchOne(F[i - 1], q[i])
    <3>1. i \in 0..Len(q) /\ i # 0
      BY <1>3, <1>4
    <3> QED  BY <1>12, <3>1
  <2> QED  BY <2>1, <2>2
<1>14. \A i \in 1..N : F[i - 1] \in V => F[i] \in V
  BY <1>6, <1>13
<1>15. F[0] \in V
  BY <1>5, <1>13
<1>16. \A i \in 0..N : F[i] \in V
  <2> HIDE DEF Steps
  <2> QED  BY <1>4, <1>14, <1>15, StepsStay
<1>17. DrainPending(f) = F[N]
  BY <1>1, <1>3, <1>11 DEF DrainPending
<1> QED  BY <1>4, <1>5, <1>16, <1>17

\* A pilot is gone: its tasks queue again or have been tried too often.
LEMMA FinalizeSound ==
  ASSUME NEW f, NEW p \in PlPilots, PlSound(f, {}, {})
  PROVE  /\ PlSound(FinalizePilot(f, p), {}, {}) /\ (Servable(f) => Servable(FinalizePilot(f, p)))
         /\ FinalizePilot(f, p).removal = f.removal /\ FinalizePilot(f, p).decl = f.decl
         /\ FinalizePilot(f, p).kind = f.kind /\ FinalizePilot(f, p).pilot[p].st = "gone"
<1>1. /\ f \in Fleets
      /\ f.pilot \in [PlPilots -> PilotRecs] /\ f.task \in [PlTasks -> TaskRecs]
  <2>1. f \in Fleets
    BY DEF PlSound
  <2> QED  BY <2>1, FleetFacts
<1>2. PICK mine, tooOft : /\ mine = Held(f, {p})
                          /\ tooOft = {t \in mine : f.task[t].tries + 1 > PlRequeues}
  OBVIOUS
<1>3. mine = {t \in PlTasks : f.task[t].st = "running" /\ f.task[t].pilot = p} /\ tooOft \subseteq PlTasks
  BY <1>2 DEF Held
<1>4. PICK tasks, pilots, g :
        /\ tasks = [t \in PlTasks |->
                      IF t \notin mine THEN f.task[t]
                      ELSE [f.task[t] EXCEPT !.st = "queued", !.tries = @ + 1, !.pilot = NoPilot]]
        /\ pilots = [f.pilot EXCEPT ![p] = GonePilot]
        /\ g = [f EXCEPT !.pilot = pilots, !.task = tasks]
  OBVIOUS
<1>5. FinalizePilot(f, p) = PlEndTasks(g, tooOft, "none")
  BY <1>2, <1>4 DEF FinalizePilot
<1>6. \A t \in PlTasks : /\ tasks[t] \in TaskRecs
                         /\ t \notin mine => tasks[t] = f.task[t]
                         /\ t \in mine => /\ tasks[t].st = "queued" /\ tasks[t].pilot = NoPilot
                                          /\ tasks[t].tries = f.task[t].tries + 1
                                          /\ tasks[t].req = f.task[t].req
  <2> SUFFICES ASSUME NEW t \in PlTasks
               PROVE  /\ tasks[t] \in TaskRecs
                      /\ t \notin mine => tasks[t] = f.task[t]
                      /\ t \in mine => /\ tasks[t].st = "queued" /\ tasks[t].pilot = NoPilot
                                       /\ tasks[t].tries = f.task[t].tries + 1
                                       /\ tasks[t].req = f.task[t].req
    OBVIOUS
  <2>1. f.task[t] \in TaskRecs
    BY <1>1
  <2>2. CASE t \in mine
    <3>1. tasks[t] = [f.task[t] EXCEPT !.st = "queued", !.tries = @ + 1, !.pilot = NoPilot]
      BY <1>4, <2>2
    <3>2. /\ tasks[t].st = "queued" /\ tasks[t].pilot = NoPilot
          /\ tasks[t].tries = f.task[t].tries + 1 /\ tasks[t].req = f.task[t].req
      BY <2>1, <3>1 DEF TaskRecs
    <3>3. f.task[t].tries + 1 \in Nat
      BY <2>1 DEF TaskRecs
    <3>4. tasks[t] \in TaskRecs
      BY <2>1, <3>1, <3>3 DEF TaskRecs
    <3> QED  BY <2>2, <3>2, <3>4
  <2>3. CASE t \notin mine
    BY <1>4, <2>1, <2>3
  <2> QED  BY <2>2, <2>3
<1>7. GonePilot \in PilotRecs /\ GonePilot.st = "gone" /\ GonePilot.load = 0
  BY DEF GonePilot, PilotRecs
<1>8. /\ tasks \in [PlTasks -> TaskRecs] /\ pilots \in [PlPilots -> PilotRecs]
      /\ pilots[p] = GonePilot /\ \A q \in PlPilots \ {p} : pilots[q] = f.pilot[q]
  BY <1>1, <1>4, <1>6, <1>7
<1>9. /\ g \in Fleets /\ g.task = tasks /\ g.pilot = pilots
      /\ g.decl = f.decl /\ g.removal = f.removal /\ g.kind = f.kind
  BY <1>1, <1>4, <1>8 DEF Fleets
<1>10. ASSUME NEW t \in PlTasks
       PROVE  TaskPlaced(g, t) /\ (t \notin tooOft => g.task[t].tries <= PlRequeues)
  <2>1. TaskPlaced(f, t) /\ f.task[t].tries <= PlRequeues /\ f.task[t].tries \in Nat
    <3>1. f.task[t] \in TaskRecs
      BY <1>1
    <3> QED  BY <3>1 DEF PlSound, TaskRecs
  <2>2. CASE t \in mine
    <3>1. f.task[t].st = "running"
      BY <1>3, <2>2
    <3>2. TaskPlaced(g, t)
      BY <1>6, <1>9, <2>1, <2>2, <3>1 DEF TaskPlaced
    <3>3. t \notin tooOft => f.task[t].tries + 1 <= PlRequeues
      BY <1>2, <2>1, <2>2, PlacementConstants
    <3> QED  BY <1>6, <1>9, <2>2, <3>2, <3>3
  <2>3. CASE t \notin mine
    <3>1. g.task[t] = f.task[t]
      BY <1>6, <1>9, <2>3
    <3>2. f.task[t].st = "running" => f.task[t].pilot \in PlPilots \ {p}
      BY <1>3, <2>1, <2>3 DEF TaskPlaced
    <3>3. f.task[t].st = "running" => g.pilot[f.task[t].pilot] = f.pilot[f.task[t].pilot]
      BY <1>8, <1>9, <3>2
    <3> QED  BY <2>1, <3>1, <3>3 DEF TaskPlaced
  <2> QED  BY <2>2, <2>3
<1>11. ASSUME NEW q \in PlPilots
       PROVE  PilotCurrent(g, q, {}) /\ g.pilot[q].load = Cardinality(Held(g, {q}))
  <2>1. PilotCurrent(f, q, {}) /\ f.pilot[q].load = Cardinality(Held(f, {q}))
    BY DEF PlSound
  <2>2. CASE q = p
    <3>1. Held(g, {q}) = {}
      <4>1. \A t \in PlTasks : ~(g.task[t].st = "running" /\ g.task[t].pilot = p)
        BY <1>3, <1>6, <1>9
      <4> QED  BY <2>2, <4>1 DEF Held
    <3>2. Cardinality({}) = 0
      BY FS_EmptySet
    <3>3. g.pilot[q].st = "gone" /\ g.pilot[q].load = 0
      BY <1>7, <1>8, <1>9, <2>2
    <3> QED  BY <3>1, <3>2, <3>3 DEF PilotCurrent
  <2>3. CASE q # p
    <3>1. g.pilot[q] = f.pilot[q]
      BY <1>8, <1>9, <2>3
    <3>2. Held(g, {q}) = Held(f, {q})
      <4>1. \A t \in PlTasks : g.task[t].st = "running" /\ g.task[t].pilot = q
                               <=> f.task[t].st = "running" /\ f.task[t].pilot = q
        BY <1>3, <1>6, <1>9, <2>3, PlacementConstants
      <4> QED  BY <4>1 DEF Held
    <3> QED  BY <1>9, <2>1, <3>1, <3>2 DEF PilotCurrent
  <2> QED  BY <2>2, <2>3
<1>12. PlSound(g, {}, tooOft)
  <2>1. \A m \in PlMembers : ~g.removal[m].on => g.removal[m].left = {}
    BY <1>9 DEF PlSound
  <2> QED  BY <1>9, <1>10, <1>11, <2>1 DEF PlSound
<1>13. ASSUME Servable(f)
       PROVE  Servable(g)
  <2> SUFFICES ASSUME Quiet(g), NEW t \in PlTasks, g.task[t].st = "queued", ~g.task[t].waits
               PROVE  SomeMember(g, g.task[t].req)
    BY DEF Servable
  <2>1. Quiet(f)
    BY <1>9 DEF Quiet
  <2>2. SomeMember(f, f.task[t].req)
    <3>1. CASE t \in mine
      <4>1. TaskPlaced(f, t) /\ f.task[t].st = "running" /\ f.task[t].pilot = p
        BY <1>3, <3>1 DEF PlSound
      <4>2. f.pilot[p].st # "gone" /\ Accepts(f.pilot[p].decl, f.task[t].req)
        BY <4>1 DEF TaskPlaced
      <4>3. PilotCurrent(f, p, {})
        BY DEF PlSound
      <4>4. \A m \in PlMembers : f.removal[m].left = {}
        BY <2>1 DEF PlSound, Quiet
      <4>5. f.pilot[p].decl \in AnyDecl /\ f.pilot[p].member \in PlMembers /\ f.decl[f.pilot[p].member] = f.pilot[p].decl
        BY <4>2, <4>3, <4>4 DEF PilotCurrent
      <4>6. f.pilot[p].decl # NoDecl
        BY <4>5, DeclFacts
      <4> QED  BY <4>2, <4>5, <4>6 DEF SomeMember, Declared
    <3>2. CASE t \notin mine
      <4>1. g.task[t] = f.task[t]
        BY <1>6, <1>9, <3>2
      <4> QED  BY <1>13, <2>1, <4>1 DEF Servable
    <3> QED  BY <3>1, <3>2
  <2>3. g.task[t].req = f.task[t].req
    BY <1>6, <1>9
  <2> QED  BY <1>9, <2>2, <2>3 DEF SomeMember, Declared
<1>14. PICK h : h = PlEndTasks(g, tooOft, "none")
  OBVIOUS
<1>15. /\ PlSound(h, {}, {}) /\ (Servable(g) => Servable(h))
       /\ h.removal = g.removal /\ h.decl = g.decl /\ h.kind = g.kind /\ h.pilot[p].st = g.pilot[p].st
  <2>1. Ends(g, {}, tooOft, tooOft, "none", h)
    BY <1>3, <1>12, <1>14 DEF Ends
  <2> QED  BY <2>1, EndSound
<1>16. g.pilot[p].st = "gone"
  BY <1>7, <1>8, <1>9
<1> QED  BY <1>5, <1>9, <1>13, <1>14, <1>15, <1>16

\* A removal is over: no queued task is left that nobody can run.
LEMMA RemovalEndsSound ==
  ASSUME NEW f, NEW m \in PlMembers, NEW failThem \in BOOLEAN,
         PlSound(f, {}, {}), f.removal[m].left = {}
  PROVE  PlSound(RemovalEnds(f, m, failThem), {}, {}) /\ Servable(RemovalEnds(f, m, failThem))
<1>1. /\ f \in Fleets /\ f.removal \in [PlMembers -> RemovalRecs] /\ f.task \in [PlTasks -> TaskRecs]
  <2>1. f \in Fleets
    BY DEF PlSound
  <2> QED  BY <2>1, FleetFacts
<1>2. PICK rec, g : /\ rec = [on |-> FALSE, left |-> {}, failThem |-> FALSE]
                    /\ g = [f EXCEPT !.removal[m] = rec]
  OBVIOUS
<1>3. rec \in RemovalRecs /\ rec.left = {}
  BY <1>2 DEF RemovalRecs
<1>4. /\ g \in Fleets /\ g.kind = f.kind /\ g.decl = f.decl /\ g.pilot = f.pilot /\ g.task = f.task
      /\ \A x \in PlMembers : g.removal[x] = IF x = m THEN rec ELSE f.removal[x]
  BY <1>1, <1>2, <1>3 DEF Fleets
<1>5. PlSound(g, {}, {})
  <2>1. \A t \in PlTasks : TaskPlaced(g, t) /\ g.task[t].tries <= PlRequeues
    BY <1>4 DEF PlSound, TaskPlaced
  <2>2. \A p \in PlPilots : Held(g, {p}) = Held(f, {p})
    BY <1>4 DEF Held
  <2>3. \A p \in PlPilots : PilotCurrent(g, p, {}) /\ g.pilot[p].load = Cardinality(Held(g, {p}))
    <3>1. \A x \in PlMembers : g.removal[x].left = f.removal[x].left
      BY <1>3, <1>4
    <3>2. \A p \in PlPilots : PilotCurrent(f, p, {}) /\ f.pilot[p].load = Cardinality(Held(f, {p}))
      BY DEF PlSound
    <3> QED  BY <1>4, <2>2, <3>1, <3>2 DEF PilotCurrent
  <2>4. \A x \in PlMembers : ~g.removal[x].on => g.removal[x].left = {}
    BY <1>3, <1>4 DEF PlSound
  <2> QED  BY <1>4, <2>1, <2>3, <2>4 DEF PlSound
<1>6. PICK S, h : S = Unservable(g) /\ h = Swept(g, failThem)
  OBVIOUS
<1>7. S \subseteq PlTasks
  BY <1>6 DEF Unservable
<1>8. PlSound(h, {}, {}) /\ Servable(h)
  <2>1. CASE failThem
    <3>1. h = PlEndTasks(g, S, "none")
      BY <1>6, <2>1 DEF Swept
    <3>2. /\ PlSound(h, {}, {}) /\ h.decl = g.decl
          /\ \A t \in PlTasks : h.task[t] = IF t \in S THEN OverTask("none") ELSE g.task[t]
      <4>1. Ends(g, {}, {}, S, "none", h)
        BY <1>5, <1>7, <3>1 DEF Ends
      <4> QED  BY <4>1, EndSound
    <3>3. OverTask("none").st = "none"
      BY DEF OverTask
    <3>4. \A t \in PlTasks : h.task[t].st = "queued" => SomeMember(h, h.task[t].req)
      <4>1. \A t \in PlTasks : h.task[t].st = "queued" => t \notin S /\ h.task[t] = g.task[t]
        BY <3>2, <3>3
      <4>2. \A t \in PlTasks : t \notin S /\ g.task[t].st = "queued" => SomeMember(g, g.task[t].req)
        BY <1>6 DEF Unservable
      <4>3. \A r : SomeMember(g, r) => SomeMember(h, r)
        BY <3>2 DEF SomeMember, Declared
      <4> QED  BY <4>1, <4>2, <4>3
    <3> QED  BY <3>2, <3>4 DEF Servable
  <2>2. CASE ~failThem
    <3>1. PICK tasks : tasks = [t \in PlTasks |-> [g.task[t] EXCEPT !.waits = @ \/ t \in S]]
      OBVIOUS
    <3>2. h = [g EXCEPT !.task = tasks]
      BY <1>6, <2>2, <3>1 DEF Swept
    <3>3. \A t \in PlTasks : /\ tasks[t] \in TaskRecs /\ tasks[t].st = g.task[t].st /\ tasks[t].req = g.task[t].req
                             /\ tasks[t].pilot = g.task[t].pilot /\ tasks[t].tries = g.task[t].tries
                             /\ tasks[t].waits = (g.task[t].waits \/ t \in S)
      <4> SUFFICES ASSUME NEW t \in PlTasks
                   PROVE  /\ tasks[t] \in TaskRecs /\ tasks[t].st = g.task[t].st /\ tasks[t].req = g.task[t].req
                          /\ tasks[t].pilot = g.task[t].pilot /\ tasks[t].tries = g.task[t].tries
                          /\ tasks[t].waits = (g.task[t].waits \/ t \in S)
        OBVIOUS
      <4>1. g.task[t] \in TaskRecs
        BY <1>1, <1>4
      <4>2. PICK w \in BOOLEAN : w = (g.task[t].waits \/ t \in S)
        OBVIOUS
      <4>3. tasks[t] = [g.task[t] EXCEPT !.waits = w]
        BY <3>1, <4>2
      <4> QED  BY <4>1, <4>2, <4>3 DEF TaskRecs
    <3>4. tasks \in [PlTasks -> TaskRecs]
      BY <3>1, <3>3
    <3>5. /\ h \in Fleets /\ h.task = tasks /\ h.pilot = g.pilot
          /\ h.decl = g.decl /\ h.removal = g.removal /\ h.kind = g.kind
      BY <1>4, <3>2, <3>4 DEF Fleets
    <3>6. \A t \in PlTasks : TaskPlaced(h, t) /\ h.task[t].tries <= PlRequeues
      <4>1. \A t \in PlTasks : TaskPlaced(g, t) /\ g.task[t].tries <= PlRequeues
        BY <1>5 DEF PlSound
      <4> QED  BY <3>3, <3>5, <4>1 DEF TaskPlaced
    <3>7. \A p \in PlPilots : Held(h, {p}) = Held(g, {p})
      BY <3>3, <3>5 DEF Held
    <3>8. \A p \in PlPilots : PilotCurrent(h, p, {}) /\ h.pilot[p].load = Cardinality(Held(h, {p}))
      <4>1. \A p \in PlPilots : PilotCurrent(g, p, {}) /\ g.pilot[p].load = Cardinality(Held(g, {p}))
        BY <1>5 DEF PlSound
      <4> QED  BY <3>5, <3>7, <4>1 DEF PilotCurrent
    <3>9. PlSound(h, {}, {})
      <4>1. \A x \in PlMembers : ~h.removal[x].on => h.removal[x].left = {}
        BY <1>5, <3>5 DEF PlSound
      <4> QED  BY <3>5, <3>6, <3>8, <4>1 DEF PlSound
    <3>10. \A t \in PlTasks : h.task[t].st = "queued" /\ ~h.task[t].waits => SomeMember(h, h.task[t].req)
      <4> SUFFICES ASSUME NEW t \in PlTasks, h.task[t].st = "queued", ~h.task[t].waits
                   PROVE  SomeMember(h, h.task[t].req)
        OBVIOUS
      <4>1. t \notin S /\ g.task[t].st = "queued"
        BY <3>3, <3>5
      <4>2. SomeMember(g, g.task[t].req)
        BY <1>6, <4>1 DEF Unservable
      <4> QED  BY <3>3, <3>5, <4>2 DEF SomeMember, Declared
    <3> QED  BY <3>9, <3>10 DEF Servable
  <2> QED  BY <2>1, <2>2
<1>9. RemovalEnds(f, m, failThem) = DrainPending(h)
  BY <1>2, <1>6 DEF RemovalEnds
<1> QED  BY <1>8, <1>9, DrainSound

\* The pilots of g are those of f but for their state, their dispatching flag
\* and their lateness; none appears or ends.
PilotsLike(f, g) ==
  /\ \A p \in PlPilots : /\ g.pilot[p] \in PilotRecs /\ g.pilot[p].decl = f.pilot[p].decl
                         /\ g.pilot[p].member = f.pilot[p].member /\ g.pilot[p].load = f.pilot[p].load
                         /\ g.pilot[p].st = "gone" <=> f.pilot[p].st = "gone"
  /\ g = [f EXCEPT !.pilot = g.pilot] /\ g.pilot = [p \in PlPilots |-> g.pilot[p]]

\* What the child of a pilot and its clock change keeps a fleet sound.
LEMMA LikeSound ==
  ASSUME NEW f, NEW g, NEW X, PilotsLike(f, g), PlSound(f, X, {})
  PROVE  /\ PlSound(g, X, {}) /\ (Servable(f) => Servable(g))
         /\ g.removal = f.removal /\ g.decl = f.decl /\ g.kind = f.kind /\ g.task = f.task
<1>1. f \in Fleets
  BY DEF PlSound
<1>2. PICK pilots : pilots = g.pilot
  OBVIOUS
<1>3. g = [f EXCEPT !.pilot = pilots] /\ pilots \in [PlPilots -> PilotRecs]
  BY <1>2 DEF PilotsLike
<1>4. /\ g \in Fleets /\ g.removal = f.removal /\ g.decl = f.decl /\ g.kind = f.kind
      /\ g.task = f.task /\ g.order = f.order /\ g.pilot = pilots
  BY <1>1, <1>3 DEF Fleets
<1>5. \A p \in PlPilots : /\ pilots[p].decl = f.pilot[p].decl
                          /\ pilots[p].member = f.pilot[p].member /\ pilots[p].load = f.pilot[p].load
                          /\ pilots[p].st = "gone" <=> f.pilot[p].st = "gone"
  BY <1>2 DEF PilotsLike
<1>6. \A t \in PlTasks : TaskPlaced(g, t) /\ g.task[t].tries <= PlRequeues
  <2>1. \A t \in PlTasks : TaskPlaced(f, t) /\ f.task[t].tries <= PlRequeues
    BY DEF PlSound
  <2> QED  BY <1>4, <1>5, <2>1 DEF TaskPlaced
<1>7. \A p \in PlPilots : Held(g, {p}) = Held(f, {p})
  BY <1>4 DEF Held
<1>8. \A p \in PlPilots : PilotCurrent(g, p, X) /\ g.pilot[p].load = Cardinality(Held(g, {p}))
  <2>1. \A p \in PlPilots : PilotCurrent(f, p, X) /\ f.pilot[p].load = Cardinality(Held(f, {p}))
    BY DEF PlSound
  <2> QED  BY <1>4, <1>5, <1>7, <2>1 DEF PilotCurrent
<1>9. PlSound(g, X, {})
  <2>1. \A x \in PlMembers : ~g.removal[x].on => g.removal[x].left = {}
    BY <1>4 DEF PlSound
  <2> QED  BY <1>4, <1>6, <1>8, <2>1 DEF PlSound
<1>10. Servable(f) => Servable(g)
  BY <1>4 DEF Servable, Quiet, SomeMember, Declared
<1> QED  BY <1>4, <1>9, <1>10

\* One pilot's record changes that way.
LEMMA OneLike ==
  ASSUME NEW f \in Fleets, NEW p \in PlPilots, NEW r \in PilotRecs, NEW g,
         g = [f EXCEPT !.pilot = [f.pilot EXCEPT ![p] = r]],
         r.decl = f.pilot[p].decl, r.member = f.pilot[p].member, r.load = f.pilot[p].load,
         r.st = "gone" <=> f.pilot[p].st = "gone"
  PROVE  PilotsLike(f, g)
<1>1. f.pilot \in [PlPilots -> PilotRecs]
  BY FleetFacts
<1>2. PICK pilots : pilots = [f.pilot EXCEPT ![p] = r]
  OBVIOUS
<1>3. /\ pilots \in [PlPilots -> PilotRecs] /\ pilots[p] = r
      /\ \A q \in PlPilots \ {p} : pilots[q] = f.pilot[q]
  BY <1>1, <1>2
<1>4. g.pilot = pilots
  BY <1>2 DEF Fleets
<1>5. \A q \in PlPilots : /\ pilots[q] \in PilotRecs /\ pilots[q].decl = f.pilot[q].decl
                          /\ pilots[q].member = f.pilot[q].member /\ pilots[q].load = f.pilot[q].load
                          /\ pilots[q].st = "gone" <=> f.pilot[q].st = "gone"
  BY <1>3
<1> QED  BY <1>2, <1>3, <1>4, <1>5 DEF PilotsLike

-----------------------------------------------------------------------------
(* The steps of the pool *)

Good(f) == PlSound(f, {}, {}) /\ Servable(f)

\* A good fleet is a fleet.
LEMMA GoodFacts ==
  ASSUME NEW f, Good(f)
  PROVE  /\ f \in Fleets /\ PlSound(f, {}, {}) /\ Servable(f)
         /\ f.decl \in [PlMembers -> AnyDecl \cup {NoDecl}]
         /\ f.pilot \in [PlPilots -> PilotRecs] /\ f.task \in [PlTasks -> TaskRecs]
         /\ f.order \in Seq(PlTasks) /\ f.removal \in [PlMembers -> RemovalRecs]
<1>1. f \in Fleets /\ PlSound(f, {}, {}) /\ Servable(f)
  BY DEF Good, PlSound
<1> QED  BY <1>1, FleetFacts

\* A task is accepted: some member can run it.
LEMMA SubmitSound ==
  ASSUME Good(fleet), NEW t \in PlTasks, NEW raw \in PlRaws, PlSubmit(t, raw)
  PROVE  Good(fleet')
<1>1. PICK f : f = fleet
  OBVIOUS
<1>2. /\ f \in Fleets /\ f.task \in [PlTasks -> TaskRecs] /\ f.order \in Seq(PlTasks)
      /\ PlSound(f, {}, {}) /\ Servable(f)
  BY <1>1, GoodFacts
<1>3. PICK r, k, tasks, order, g :
        /\ r = Parsed(raw) /\ k = NewTask(r) /\ tasks = [f.task EXCEPT ![t] = k]
        /\ order = Inserted(f, t, r) /\ g = [f EXCEPT !.order = order, !.task = tasks]
  OBVIOUS
<1>4. f.task[t].st = "none" /\ ShapeValid(raw) /\ Gate(f, r) /\ fleet' = DrainPending(g)
  BY <1>1, <1>3 DEF PlSubmit
<1>5. r \in AnyReq
  BY <1>3, <1>4 DEF AnyReq
<1>6. /\ k \in TaskRecs /\ k.st = "queued" /\ k.req = r /\ k.pilot = NoPilot /\ k.tries = 0
  BY <1>3, <1>5 DEF NewTask, TaskRecs
<1>7. tasks \in [PlTasks -> TaskRecs] /\ \A x \in PlTasks : tasks[x] = IF x = t THEN k ELSE f.task[x]
  BY <1>2, <1>3, <1>6
<1>8. order \in Seq(PlTasks)
  <2>1. PICK others, sooner, a, b :
          /\ others = ToSet(f.order) \ {t}
          /\ sooner = {x \in others : f.task[x].req.priority >= r.priority}
          /\ a = KeptOf(f.order, sooner) /\ b = KeptOf(f.order, others \ sooner)
    OBVIOUS
  <2>2. order = a \o <<t>> \o b
    BY <1>3, <2>1 DEF Inserted
  <2>3. a \in Seq(PlTasks) /\ b \in Seq(PlTasks) /\ <<t>> \in Seq(PlTasks)
    BY <1>2, <2>1, KeptType
  <2> QED  BY <2>2, <2>3
<1>9. /\ g \in Fleets /\ g.task = tasks /\ g.order = order /\ g.pilot = f.pilot
      /\ g.decl = f.decl /\ g.removal = f.removal /\ g.kind = f.kind
  BY <1>2, <1>3, <1>7, <1>8 DEF Fleets
<1>10. \A x \in PlTasks : TaskPlaced(g, x) /\ g.task[x].tries <= PlRequeues
  <2>1. \A x \in PlTasks : TaskPlaced(f, x) /\ f.task[x].tries <= PlRequeues
    BY <1>2 DEF PlSound
  <2>2. TaskPlaced(g, t) /\ g.task[t].tries <= PlRequeues
    BY <1>5, <1>6, <1>7, <1>9, PlacementConstants DEF TaskPlaced
  <2>3. \A x \in PlTasks \ {t} : TaskPlaced(g, x) /\ g.task[x].tries <= PlRequeues
    BY <1>7, <1>9, <2>1 DEF TaskPlaced
  <2> QED  BY <2>2, <2>3
<1>11. \A p \in PlPilots : Held(g, {p}) = Held(f, {p})
  <2>1. \A x \in PlTasks, p \in PlPilots : g.task[x].st = "running" /\ g.task[x].pilot = p
                                           <=> f.task[x].st = "running" /\ f.task[x].pilot = p
    BY <1>4, <1>6, <1>7, <1>9
  <2> QED  BY <2>1 DEF Held
<1>12. PlSound(g, {}, {})
  <2>1. \A p \in PlPilots : PilotCurrent(g, p, {}) /\ g.pilot[p].load = Cardinality(Held(g, {p}))
    BY <1>2, <1>9, <1>11 DEF PlSound, PilotCurrent
  <2>2. \A x \in PlMembers : ~g.removal[x].on => g.removal[x].left = {}
    BY <1>2, <1>9 DEF PlSound
  <2> QED  BY <1>9, <1>10, <2>1, <2>2 DEF PlSound
<1>13. Servable(g)
  <2> SUFFICES ASSUME Quiet(g), NEW x \in PlTasks, g.task[x].st = "queued", ~g.task[x].waits
               PROVE  SomeMember(g, g.task[x].req)
    BY DEF Servable
  <2>1. Quiet(f) /\ f.kind = "class"
    BY <1>9 DEF Quiet
  <2>2. CASE x = t
    <3>1. SomeMember(f, r)
      BY <1>4, <2>1 DEF Gate, GateClass
    <3> QED  BY <1>6, <1>7, <1>9, <2>2, <3>1 DEF SomeMember, Declared
  <2>3. CASE x # t
    <3>1. g.task[x] = f.task[x]
      BY <1>7, <1>9, <2>3
    <3>2. SomeMember(f, f.task[x].req)
      BY <1>2, <2>1, <3>1 DEF Servable
    <3> QED  BY <1>9, <3>1, <3>2 DEF SomeMember, Declared
  <2> QED  BY <2>2, <2>3
<1> QED  BY <1>4, <1>12, <1>13, DrainSound DEF Good

\* A member joins: what others declare stays as it is.
LEMMA AddSound ==
  ASSUME Good(fleet), NEW m \in PlMembers, NEW d \in PlDecls, AddMember(m, d)
  PROVE  Good(fleet')
<1>1. PICK f, decls, g : f = fleet /\ decls = [f.decl EXCEPT ![m] = d] /\ g = [f EXCEPT !.decl = decls]
  OBVIOUS
<1>2. /\ f \in Fleets /\ f.decl \in [PlMembers -> AnyDecl \cup {NoDecl}]
      /\ PlSound(f, {}, {}) /\ Servable(f)
  BY <1>1, GoodFacts
<1>3. f.decl[m] = NoDecl /\ fleet' = g
  BY <1>1 DEF AddMember
<1>4. d \in AnyDecl /\ d # NoDecl
  BY DeclFacts DEF AnyDecl
<1>5. decls \in [PlMembers -> AnyDecl \cup {NoDecl}] /\ \A x \in PlMembers : decls[x] = IF x = m THEN d ELSE f.decl[x]
  BY <1>1, <1>2, <1>4
<1>6. /\ g \in Fleets /\ g.task = f.task /\ g.order = f.order /\ g.pilot = f.pilot
      /\ g.decl = decls /\ g.removal = f.removal /\ g.kind = f.kind
  BY <1>1, <1>2, <1>5 DEF Fleets
<1>7. PlSound(g, {}, {})
  <2>1. \A t \in PlTasks : TaskPlaced(g, t) /\ g.task[t].tries <= PlRequeues
    BY <1>2, <1>6 DEF PlSound, TaskPlaced
  <2>2. \A p \in PlPilots : g.pilot[p].load = Cardinality(Held(g, {p}))
    BY <1>2, <1>6 DEF PlSound, Held
  <2>3. \A p \in PlPilots : PilotCurrent(g, p, {})
    <3> SUFFICES ASSUME NEW p \in PlPilots
                 PROVE  PilotCurrent(g, p, {})
      OBVIOUS
    <3>1. PilotCurrent(f, p, {})
      BY <1>2 DEF PlSound
    <3>2. f.pilot[p].decl \in AnyDecl => f.pilot[p].decl # NoDecl
      BY DeclFacts
    <3> QED  BY <1>3, <1>5, <1>6, <3>1, <3>2 DEF PilotCurrent
  <2>4. \A x \in PlMembers : ~g.removal[x].on => g.removal[x].left = {}
    BY <1>2, <1>6 DEF PlSound
  <2> QED  BY <1>6, <2>1, <2>2, <2>3, <2>4 DEF PlSound
<1>8. Servable(g)
  <2>1. \A r : SomeMember(f, r) => SomeMember(g, r)
    BY <1>3, <1>5, <1>6 DEF SomeMember, Declared
  <2> QED  BY <1>2, <1>6, <2>1 DEF Servable, Quiet
<1> QED  BY <1>3, <1>7, <1>8 DEF Good

\* A member leaves: its pilots are paused until they are cancelled.
LEMMA RemoveSound ==
  ASSUME Good(fleet), NEW m \in PlMembers, NEW cancelTasks \in BOOLEAN, NEW failThem \in BOOLEAN,
         PlRemoveMember(m, cancelTasks, failThem)
  PROVE  Good(fleet')
<1>1. PICK f : f = fleet
  OBVIOUS
<1>2. /\ f \in Fleets /\ f.decl \in [PlMembers -> AnyDecl \cup {NoDecl}]
      /\ f.pilot \in [PlPilots -> PilotRecs] /\ f.removal \in [PlMembers -> RemovalRecs]
      /\ PlSound(f, {}, {}) /\ Servable(f)
  BY <1>1, GoodFacts
<1>3. PICK leaving, decls, pilots, paused, failed :
        /\ leaving = LiveOf(f, m) /\ decls = [f.decl EXCEPT ![m] = NoDecl]
        /\ pilots = [p \in PlPilots |-> [f.pilot[p] EXCEPT !.open = @ /\ p \notin leaving]]
        /\ paused = [f EXCEPT !.decl = decls, !.pilot = pilots]
        /\ failed = IF cancelTasks THEN PlEndTasks(paused, Held(paused, leaving), "none") ELSE paused
  OBVIOUS
<1>4. /\ f.kind = "class" /\ ~f.removal[m].on
      /\ fleet' = IF leaving = {} THEN RemovalEnds(failed, m, failThem)
                  ELSE [failed EXCEPT !.removal[m] = [on |-> TRUE, left |-> leaving, failThem |-> failThem]]
  BY <1>1, <1>3 DEF PlRemoveMember
<1>5. leaving = {p \in PlPilots : f.pilot[p].st # "gone" /\ f.pilot[p].member = m}
  BY <1>3 DEF LiveOf, Live
<1>6. decls \in [PlMembers -> AnyDecl \cup {NoDecl}] /\ \A x \in PlMembers \ {m} : decls[x] = f.decl[x]
  BY <1>2, <1>3
<1>7. \A p \in PlPilots : /\ pilots[p] \in PilotRecs /\ pilots[p].decl = f.pilot[p].decl
                          /\ pilots[p].member = f.pilot[p].member /\ pilots[p].load = f.pilot[p].load
                          /\ pilots[p].st = f.pilot[p].st
  <2> SUFFICES ASSUME NEW p \in PlPilots
               PROVE  /\ pilots[p] \in PilotRecs /\ pilots[p].decl = f.pilot[p].decl
                      /\ pilots[p].member = f.pilot[p].member /\ pilots[p].load = f.pilot[p].load
                      /\ pilots[p].st = f.pilot[p].st
    OBVIOUS
  <2>1. f.pilot[p] \in PilotRecs
    BY <1>2
  <2>2. PICK o \in BOOLEAN : o = (f.pilot[p].open /\ p \notin leaving)
    OBVIOUS
  <2>3. pilots[p] = [f.pilot[p] EXCEPT !.open = o]
    BY <1>3, <2>2
  <2> QED  BY <2>1, <2>2, <2>3 DEF PilotRecs
<1>8. pilots \in [PlPilots -> PilotRecs]
  BY <1>3, <1>7
<1>9. /\ paused \in Fleets /\ paused.task = f.task /\ paused.pilot = pilots
      /\ paused.decl = decls /\ paused.removal = f.removal /\ paused.kind = f.kind
  BY <1>2, <1>3, <1>6, <1>8 DEF Fleets
<1>10. PlSound(paused, leaving, {})
  <2>1. \A t \in PlTasks : TaskPlaced(paused, t) /\ paused.task[t].tries <= PlRequeues
    BY <1>2, <1>7, <1>9 DEF PlSound, TaskPlaced
  <2>2. \A p \in PlPilots : paused.pilot[p].load = Cardinality(Held(paused, {p}))
    BY <1>2, <1>7, <1>9 DEF PlSound, Held
  <2>3. \A p \in PlPilots : PilotCurrent(paused, p, leaving)
    <3> SUFFICES ASSUME NEW p \in PlPilots
                 PROVE  PilotCurrent(paused, p, leaving)
      OBVIOUS
    <3>1. PilotCurrent(f, p, {})
      BY <1>2 DEF PlSound
    <3>2. paused.pilot[p].st # "gone" /\ p \notin leaving => f.pilot[p].member # m
      BY <1>5, <1>7, <1>9
    <3> QED  BY <1>6, <1>7, <1>9, <3>1, <3>2 DEF PilotCurrent
  <2>4. \A x \in PlMembers : ~paused.removal[x].on => paused.removal[x].left = {}
    BY <1>2, <1>9 DEF PlSound
  <2> QED  BY <1>9, <2>1, <2>2, <2>3, <2>4 DEF PlSound
<1>11. PlSound(failed, leaving, {}) /\ failed.removal = f.removal
  <2>1. CASE cancelTasks
    <3>1. Ends(paused, leaving, {}, Held(paused, leaving), "none", failed)
      BY <1>3, <1>10, <2>1 DEF Ends, Held
    <3> QED  BY <1>9, <3>1, EndSound
  <2>2. CASE ~cancelTasks
    BY <1>3, <1>9, <1>10, <2>2
  <2> QED  BY <2>1, <2>2
<1>12. f.removal[m].left = {}
  BY <1>2, <1>4 DEF PlSound
<1>13. CASE leaving = {}
  <2>1. PlSound(failed, {}, {}) /\ failed.removal[m].left = {}
    BY <1>11, <1>12, <1>13
  <2> QED  BY <1>4, <1>13, <2>1, RemovalEndsSound DEF Good
<1>14. CASE leaving # {}
  <2>1. PICK rec, removal, g : /\ rec = [on |-> TRUE, left |-> leaving, failThem |-> failThem]
                               /\ removal = [failed.removal EXCEPT ![m] = rec]
                               /\ g = [failed EXCEPT !.removal = removal]
    OBVIOUS
  <2>2. fleet' = g
    BY <1>4, <1>14, <2>1
  <2>3. rec \in RemovalRecs /\ rec.on /\ rec.left = leaving
    BY <1>5, <2>1 DEF RemovalRecs
  <2>4. /\ removal \in [PlMembers -> RemovalRecs] /\ removal[m] = rec
        /\ \A x \in PlMembers \ {m} : removal[x] = f.removal[x]
    BY <1>2, <1>11, <2>1, <2>3
  <2>5. failed \in Fleets
    BY <1>11 DEF PlSound
  <2>6. /\ g \in Fleets /\ g.task = failed.task /\ g.pilot = failed.pilot
        /\ g.decl = failed.decl /\ g.removal = removal
    BY <2>1, <2>4, <2>5 DEF Fleets
  <2>7. PlSound(g, {}, {})
    <3>1. \A t \in PlTasks : TaskPlaced(g, t) /\ g.task[t].tries <= PlRequeues
      BY <1>11, <2>6 DEF PlSound, TaskPlaced
    <3>2. \A p \in PlPilots : g.pilot[p].load = Cardinality(Held(g, {p}))
      BY <1>11, <2>6 DEF PlSound, Held
    <3>3. \A p \in PlPilots : PilotCurrent(g, p, {})
      <4> SUFFICES ASSUME NEW p \in PlPilots
                   PROVE  PilotCurrent(g, p, {})
        OBVIOUS
      <4>1. PilotCurrent(failed, p, leaving)
        BY <1>11 DEF PlSound
      <4>2. \A x \in PlMembers : p \in failed.removal[x].left => p \in g.removal[x].left
        BY <1>11, <1>12, <2>4, <2>6
      <4>3. p \in leaving => p \in g.removal[m].left
        BY <2>3, <2>4, <2>6
      <4> QED  BY <2>6, <4>1, <4>2, <4>3 DEF PilotCurrent
    <3>4. \A x \in PlMembers : ~g.removal[x].on => g.removal[x].left = {}
      BY <1>2, <2>3, <2>4, <2>6 DEF PlSound
    <3> QED  BY <2>6, <3>1, <3>2, <3>3, <3>4 DEF PlSound
  <2>8. Servable(g)
    BY <2>3, <2>4, <2>6 DEF Servable, Quiet
  <2> QED  BY <2>2, <2>7, <2>8 DEF Good
<1> QED  BY <1>13, <1>14

\* One of the cancels of a removal returns.
LEMMA CancelsSound ==
  ASSUME Good(fleet), NEW m \in PlMembers, NEW p \in PlPilots, RemovalCancels(m, p)
  PROVE  Good(fleet')
<1>1. PICK f, e : f = fleet /\ e = FinalizePilot(f, p)
  OBVIOUS
<1>2. PlSound(f, {}, {}) /\ f \in Fleets /\ f.removal \in [PlMembers -> RemovalRecs]
  BY <1>1, GoodFacts
<1>3. PlSound(e, {}, {}) /\ e.removal = f.removal /\ e.kind = f.kind /\ e.pilot[p].st = "gone"
  BY <1>1, <1>2, FinalizeSound
<1>4. e \in Fleets
  BY <1>3 DEF PlSound
<1>5. PICK r, s, removal, g : /\ r = f.removal[m] /\ s = [r EXCEPT !.left = @ \ {p}]
                              /\ removal = [e.removal EXCEPT ![m] = s]
                              /\ g = [e EXCEPT !.removal = removal]
  OBVIOUS
<1>6. r.on /\ p \in r.left /\ fleet' = IF r.left = {p} THEN RemovalEnds(g, m, r.failThem) ELSE g
  <2>1. g = [e EXCEPT !.removal[m].left = @ \ {p}]
    BY <1>3, <1>5
  <2> QED  BY <1>1, <1>5, <2>1 DEF RemovalCancels
<1>7. r \in RemovalRecs
  BY <1>2, <1>5
<1>8. s \in RemovalRecs /\ s.on /\ s.left = r.left \ {p} /\ r.failThem \in BOOLEAN
  BY <1>5, <1>6, <1>7 DEF RemovalRecs
<1>9. /\ removal \in [PlMembers -> RemovalRecs] /\ removal[m] = s
      /\ \A x \in PlMembers \ {m} : removal[x] = f.removal[x]
  BY <1>2, <1>3, <1>5, <1>8
<1>10. /\ g \in Fleets /\ g.task = e.task /\ g.pilot = e.pilot /\ g.decl = e.decl /\ g.removal = removal
  BY <1>4, <1>5, <1>9 DEF Fleets
<1>11. PlSound(g, {}, {})
  <2>1. \A t \in PlTasks : TaskPlaced(g, t) /\ g.task[t].tries <= PlRequeues
    BY <1>3, <1>10 DEF PlSound, TaskPlaced
  <2>2. \A q \in PlPilots : g.pilot[q].load = Cardinality(Held(g, {q}))
    BY <1>3, <1>10 DEF PlSound, Held
  <2>3. \A q \in PlPilots : PilotCurrent(g, q, {})
    <3> SUFFICES ASSUME NEW q \in PlPilots, q # p
                 PROVE  PilotCurrent(g, q, {})
      BY <1>3, <1>10 DEF PilotCurrent
    <3>1. PilotCurrent(e, q, {})
      BY <1>3 DEF PlSound
    <3>2. \A x \in PlMembers : q \in e.removal[x].left => q \in g.removal[x].left
      BY <1>3, <1>5, <1>8, <1>9, <1>10
    <3> QED  BY <1>10, <3>1, <3>2 DEF PilotCurrent
  <2>4. \A x \in PlMembers : ~g.removal[x].on => g.removal[x].left = {}
    BY <1>2, <1>8, <1>9, <1>10 DEF PlSound
  <2> QED  BY <1>10, <2>1, <2>2, <2>3, <2>4 DEF PlSound
<1>12. CASE r.left = {p}
  <2>1. g.removal[m].left = {}
    BY <1>8, <1>9, <1>10, <1>12
  <2> QED  BY <1>6, <1>8, <1>11, <1>12, <2>1, RemovalEndsSound DEF Good
<1>13. CASE r.left # {p}
  <2>1. Servable(g)
    BY <1>8, <1>9, <1>10 DEF Servable, Quiet
  <2> QED  BY <1>6, <1>11, <1>13, <2>1 DEF Good
<1> QED  BY <1>12, <1>13

\* A new pilot holds nothing and has what its member declares.
LEMMA NewPilotSound ==
  ASSUME NEW f, Good(f), NEW p \in Spare(f), NEW m \in Declared(f)
  PROVE  Good(NewPilot(f, p, m))
<1>1. /\ f \in Fleets /\ f.decl \in [PlMembers -> AnyDecl \cup {NoDecl}]
      /\ f.pilot \in [PlPilots -> PilotRecs] /\ PlSound(f, {}, {}) /\ Servable(f)
  BY GoodFacts
<1>2. p \in PlPilots /\ f.pilot[p].st = "gone" /\ m \in PlMembers /\ f.decl[m] \in AnyDecl
  BY <1>1 DEF Spare, Live, Declared
<1>3. PICK r, pilots, g : /\ r = [st |-> "pending", member |-> m, decl |-> f.decl[m],
                                  open |-> TRUE, load |-> 0, late |-> FALSE]
                          /\ pilots = [f.pilot EXCEPT ![p] = r] /\ g = [f EXCEPT !.pilot = pilots]
  OBVIOUS
<1>4. NewPilot(f, p, m) = g
  BY <1>3 DEF NewPilot
<1>5. r \in PilotRecs /\ r.st = "pending" /\ r.member = m /\ r.decl = f.decl[m] /\ r.load = 0
  BY <1>2, <1>3 DEF PilotRecs
<1>6. pilots \in [PlPilots -> PilotRecs] /\ pilots[p] = r /\ \A q \in PlPilots \ {p} : pilots[q] = f.pilot[q]
  BY <1>1, <1>2, <1>3, <1>5
<1>7. /\ g \in Fleets /\ g.task = f.task /\ g.pilot = pilots
      /\ g.decl = f.decl /\ g.removal = f.removal /\ g.kind = f.kind
  BY <1>1, <1>3, <1>6 DEF Fleets
<1>8. \A t \in PlTasks : f.task[t].st = "running" => f.task[t].pilot \in PlPilots \ {p}
  BY <1>1, <1>2 DEF PlSound, TaskPlaced
<1>9. PlSound(g, {}, {})
  <2>1. \A t \in PlTasks : TaskPlaced(g, t) /\ g.task[t].tries <= PlRequeues
    <3>1. \A t \in PlTasks : TaskPlaced(f, t) /\ f.task[t].tries <= PlRequeues
      BY <1>1 DEF PlSound
    <3> QED  BY <1>6, <1>7, <1>8, <3>1 DEF TaskPlaced
  <2>2. \A q \in PlPilots : Held(g, {q}) = Held(f, {q})
    BY <1>7 DEF Held
  <2>3. Held(g, {p}) = {} /\ Cardinality({}) = 0
    BY <1>7, <1>8, FS_EmptySet DEF Held
  <2>4. \A q \in PlPilots : g.pilot[q].load = Cardinality(Held(g, {q}))
    <3>1. \A q \in PlPilots : f.pilot[q].load = Cardinality(Held(f, {q}))
      BY <1>1 DEF PlSound
    <3> QED  BY <1>5, <1>6, <1>7, <2>2, <2>3, <3>1
  <2>5. \A q \in PlPilots : PilotCurrent(g, q, {})
    <3>1. \A q \in PlPilots : PilotCurrent(f, q, {})
      BY <1>1 DEF PlSound
    <3> QED  BY <1>2, <1>5, <1>6, <1>7, <3>1 DEF PilotCurrent
  <2>6. \A x \in PlMembers : ~g.removal[x].on => g.removal[x].left = {}
    BY <1>1, <1>7 DEF PlSound
  <2> QED  BY <1>7, <2>1, <2>4, <2>5, <2>6 DEF PlSound
<1>10. Servable(g)
  BY <1>1, <1>7 DEF Servable, Quiet, SomeMember, Declared
<1> QED  BY <1>4, <1>9, <1>10 DEF Good

\* A tick of the policy.
LEMMA TickSound ==
  ASSUME Good(fleet), PlTick
  PROVE  Good(fleet')
<1>1. PICK f : f = fleet
  OBVIOUS
<1>2. CASE fleet' = DrainPending(f)
  BY <1>1, <1>2, DrainSound DEF Good
<1>3. ASSUME NEW m \in Floor(f) \cup Backlog(f), NEW p \in Spare(f), fleet' = DrainPending(NewPilot(f, p, m))
      PROVE  Good(fleet')
  <2>1. m \in Declared(f)
    <3>1. Floor(f) \subseteq Declared(f)
      BY DEF Floor
    <3>2. Backlog(f) \subseteq Declared(f)
      BY DEF Backlog
    <3> QED  BY <3>1, <3>2
  <2>2. Good(NewPilot(f, p, m))
    BY <1>1, <2>1, NewPilotSound
  <2> QED  BY <1>3, <2>2, DrainSound DEF Good
<1>4. \/ fleet' = DrainPending(f)
      \/ \E m \in Floor(f) \cup Backlog(f), p \in Spare(f) : fleet' = DrainPending(NewPilot(f, p, m))
  BY <1>1 DEF PlTick
<1> QED  BY <1>2, <1>3, <1>4

\* One field of a pilot's record changes.
LEMMA FieldSound ==
  ASSUME NEW f, Good(f), NEW p \in PlPilots, f.pilot[p].st # "gone", NEW r \in PilotRecs,
         \/ r = [f.pilot[p] EXCEPT !.st = "active"]
         \/ \E b \in BOOLEAN : r = [f.pilot[p] EXCEPT !.open = b] \/ r = [f.pilot[p] EXCEPT !.late = b]
  PROVE  Good([f EXCEPT !.pilot = [f.pilot EXCEPT ![p] = r]])
<1>1. f \in Fleets /\ f.pilot[p] \in PilotRecs
  BY GoodFacts
<1>2. r.decl = f.pilot[p].decl /\ r.member = f.pilot[p].member /\ r.load = f.pilot[p].load /\ r.st # "gone"
  BY <1>1 DEF PilotRecs
<1>3. PICK g : g = [f EXCEPT !.pilot = [f.pilot EXCEPT ![p] = r]]
  OBVIOUS
<1>4. PilotsLike(f, g)
  BY <1>1, <1>2, <1>3, OneLike
<1>5. PICK none : none = {}
  OBVIOUS
<1>6. PlSound(f, none, {}) /\ Servable(f)
  BY <1>5 DEF Good
<1>7. PlSound(g, none, {}) /\ Servable(g)
  BY <1>4, <1>6, LikeSound
<1> QED  BY <1>3, <1>5, <1>7 DEF Good

\* The child of a pilot shows up, is suspected, or the walltime runs out.
LEMMA ChildSound ==
  ASSUME Good(fleet), NEW p \in PlPilots, ChildPresent(p) \/ ChildSuspect(p) \/ RunsLate(p)
  PROVE  Good(fleet')
<1>1. PICK f, a, b, c, d :
        /\ f = fleet
        /\ a = [f.pilot[p] EXCEPT !.st = "active"] /\ b = [f.pilot[p] EXCEPT !.open = TRUE]
        /\ c = [f.pilot[p] EXCEPT !.open = FALSE] /\ d = [f.pilot[p] EXCEPT !.late = TRUE]
  OBVIOUS
<1>2. f.pilot[p] \in PilotRecs
  BY <1>1, GoodFacts
<1>3. a \in PilotRecs /\ b \in PilotRecs /\ c \in PilotRecs /\ d \in PilotRecs
  BY <1>1, <1>2 DEF PilotRecs
<1>4. f.pilot[p].st # "gone"
  BY <1>1 DEF ChildPresent, ChildSuspect, RunsLate
<1>5. /\ Good([f EXCEPT !.pilot = [f.pilot EXCEPT ![p] = a]])
      /\ Good([f EXCEPT !.pilot = [f.pilot EXCEPT ![p] = b]])
      /\ Good([f EXCEPT !.pilot = [f.pilot EXCEPT ![p] = c]])
      /\ Good([f EXCEPT !.pilot = [f.pilot EXCEPT ![p] = d]])
  BY <1>1, <1>3, <1>4, FieldSound
<1>6. CASE ChildPresent(p)
  <2>1. \/ fleet' = f
        \/ fleet' = DrainPending([f EXCEPT !.pilot = [f.pilot EXCEPT ![p] = a]])
        \/ fleet' = DrainPending([f EXCEPT !.pilot = [f.pilot EXCEPT ![p] = b]])
    BY <1>1, <1>6 DEF ChildPresent
  <2>2. CASE fleet' = f
    BY <1>1, <2>2
  <2>3. CASE fleet' = DrainPending([f EXCEPT !.pilot = [f.pilot EXCEPT ![p] = a]])
    BY <1>5, <2>3, DrainSound DEF Good
  <2>4. CASE fleet' = DrainPending([f EXCEPT !.pilot = [f.pilot EXCEPT ![p] = b]])
    BY <1>5, <2>4, DrainSound DEF Good
  <2> QED  BY <2>1, <2>2, <2>3, <2>4
<1>7. CASE ChildSuspect(p)
  BY <1>1, <1>5, <1>7 DEF ChildSuspect
<1>8. CASE RunsLate(p)
  BY <1>1, <1>5, <1>8 DEF RunsLate
<1> QED  BY <1>6, <1>7, <1>8

\* A pilot ends.
LEMMA PilotEndsSound ==
  ASSUME Good(fleet), NEW p \in PlPilots, ChildLost(p) \/ PilotEnds(p)
  PROVE  Good(fleet')
<1>1. PICK g : g = FinalizePilot(fleet, p)
  OBVIOUS
<1>2. PlSound(g, {}, {}) /\ Servable(g)
  BY <1>1, FinalizeSound DEF Good
<1>3. fleet' = g \/ fleet' = DrainPending(g)
  BY <1>1 DEF ChildLost, PilotEnds
<1> QED  BY <1>2, <1>3, DrainSound DEF Good

\* A task ends.
LEMMA TaskEndsSound ==
  ASSUME Good(fleet), NEW t \in PlTasks, TaskEnds(t) \/ CancelTask(t)
  PROVE  Good(fleet')
<1>1. \E st \in {"none", "done"} : \/ fleet' = PlEndTasks(fleet, {t}, st)
                                   \/ fleet' = DrainPending(PlEndTasks(fleet, {t}, st))
  BY DEF TaskEnds, CancelTask, PlEndTask
<1>2. PICK st \in {"none", "done"} : \/ fleet' = PlEndTasks(fleet, {t}, st)
                                     \/ fleet' = DrainPending(PlEndTasks(fleet, {t}, st))
  BY <1>1
<1>3. PICK g : g = PlEndTasks(fleet, {t}, st)
  OBVIOUS
<1>4. Ends(fleet, {}, {}, {t}, st, g)
  BY <1>3 DEF Ends, Good
<1>5. PlSound(g, {}, {}) /\ Servable(g)
  BY <1>4, EndSound DEF Good
<1> QED  BY <1>2, <1>3, <1>5, DrainSound DEF Good

\* Every step of the pool.
LEMMA PlStepGood ==
  ASSUME Good(fleet), PlNext \/ UNCHANGED plVars
  PROVE  Good(fleet')
<1>1. ASSUME NEW t \in PlTasks, NEW raw \in PlRaws, PlSubmit(t, raw)
      PROVE  Good(fleet')
  BY <1>1, SubmitSound
<1>2. ASSUME NEW m \in PlMembers, NEW d \in PlDecls, AddMember(m, d)
      PROVE  Good(fleet')
  BY <1>2, AddSound
<1>3. ASSUME NEW m \in PlMembers, NEW c \in BOOLEAN, NEW u \in BOOLEAN, PlRemoveMember(m, c, u)
      PROVE  Good(fleet')
  BY <1>3, RemoveSound
<1>4. ASSUME NEW m \in PlMembers, NEW p \in PlPilots, RemovalCancels(m, p)
      PROVE  Good(fleet')
  BY <1>4, CancelsSound
<1>5. ASSUME PlTick
      PROVE  Good(fleet')
  BY <1>5, TickSound
<1>6. ASSUME NEW p \in PlPilots, ChildPresent(p) \/ ChildSuspect(p) \/ RunsLate(p)
      PROVE  Good(fleet')
  BY <1>6, ChildSound
<1>7. ASSUME NEW p \in PlPilots, ChildLost(p) \/ PilotEnds(p)
      PROVE  Good(fleet')
  BY <1>7, PilotEndsSound
<1>8. ASSUME NEW t \in PlTasks, TaskEnds(t) \/ CancelTask(t)
      PROVE  Good(fleet')
  BY <1>8, TaskEndsSound
<1>9. CASE UNCHANGED plVars
  BY <1>9 DEF plVars
<1> QED  BY <1>1, <1>2, <1>3, <1>4, <1>5, <1>6, <1>7, <1>8, <1>9 DEF PlNext

\* A pool starts empty.
LEMMA PlInitGood ==
  ASSUME PlInit
  PROVE  Good(fleet)
<1>1. PICK k \in {"class", "legacy"}, d \in PlDecls :
        fleet = [kind    |-> k,
                 decl    |-> [m \in PlMembers |->
                                IF m # CHOOSE x \in PlMembers : TRUE THEN NoDecl
                                ELSE IF k = "class" THEN d ELSE PlLegacy],
                 pilot   |-> [p \in PlPilots |-> GonePilot],
                 task    |-> [t \in PlTasks |-> OverTask("none")],
                 order   |-> <<>>,
                 removal |-> [m \in PlMembers |-> [on |-> FALSE, left |-> {}, failThem |-> FALSE]]]
  BY DEF PlInit
<1>2. PICK f, decls, none : /\ f = fleet /\ none = [on |-> FALSE, left |-> {}, failThem |-> FALSE]
                            /\ decls = [m \in PlMembers |->
                                          IF m # CHOOSE x \in PlMembers : TRUE THEN NoDecl
                                          ELSE IF k = "class" THEN d ELSE PlLegacy]
  OBVIOUS
<1>3. decls \in [PlMembers -> AnyDecl \cup {NoDecl}]
  BY <1>2 DEF AnyDecl
<1>4. GonePilot \in PilotRecs /\ GonePilot.st = "gone" /\ GonePilot.load = 0
  BY DEF GonePilot, PilotRecs
<1>5. /\ OverTask("none") \in TaskRecs /\ OverTask("none").st = "none"
      /\ OverTask("none").pilot = NoPilot /\ OverTask("none").tries = 0
  BY DEF OverTask, TaskRecs
<1>6. none \in RemovalRecs /\ none.left = {}
  BY <1>2 DEF RemovalRecs
<1>7. f = [kind |-> k, decl |-> decls, pilot |-> [p \in PlPilots |-> GonePilot],
           task |-> [t \in PlTasks |-> OverTask("none")], order |-> <<>>,
           removal |-> [m \in PlMembers |-> none]]
  BY <1>1, <1>2
<1>8. /\ f \in Fleets
      /\ \A p \in PlPilots : f.pilot[p].st = "gone" /\ f.pilot[p].load = 0
      /\ \A t \in PlTasks : f.task[t].st = "none" /\ f.task[t].pilot = NoPilot /\ f.task[t].tries = 0
      /\ \A m \in PlMembers : f.removal[m].left = {}
  <2>1. /\ f.pilot = [p \in PlPilots |-> GonePilot] /\ f.task = [t \in PlTasks |-> OverTask("none")]
        /\ f.removal = [m \in PlMembers |-> none]
    BY <1>7
  <2>2. f \in Fleets
    <3>1. <<>> \in Seq(PlTasks)
      OBVIOUS
    <3> QED  BY <1>3, <1>4, <1>5, <1>6, <1>7, <3>1 DEF Fleets
  <2> QED  BY <1>4, <1>5, <1>6, <2>1, <2>2
<1>9. \A p \in PlPilots : Held(f, {p}) = {}
  BY <1>8 DEF Held
<1>10. PlSound(f, {}, {})
  <2>1. \A t \in PlTasks : TaskPlaced(f, t) /\ f.task[t].tries <= PlRequeues
    BY <1>8, PlacementConstants DEF TaskPlaced
  <2>2. \A p \in PlPilots : PilotCurrent(f, p, {}) /\ f.pilot[p].load = Cardinality(Held(f, {p}))
    BY <1>8, <1>9, FS_EmptySet DEF PilotCurrent
  <2> QED  BY <1>8, <2>1, <2>2 DEF PlSound
<1>11. Servable(f)
  BY <1>8 DEF Servable
<1> QED  BY <1>2, <1>10, <1>11 DEF Good

-----------------------------------------------------------------------------
(* What the invariant gives *)

\* Shares of a number.
LEMMA ShareFacts ==
  ASSUME NEW a \in Nat, NEW R \in Nat, R > 0
  PROVE  R * (a \div R) <= a /\ a \div R \in Nat
OBVIOUS

\* The numbers of a request that a declaration accepts.
LEMMA AcceptedFacts ==
  ASSUME NEW r \in AnyReq, NEW d \in AnyDecl, Accepts(d, r), d.size.cpus > 0
  PROVE  /\ OrOne(r.ranks) \in Nat /\ OrOne(r.ranks) > 0 /\ OrOne(r.cores) \in Nat /\ r.gpus \in Nat
         /\ OrOne(r.ranks) <= OrOne(r.cores) /\ OrOne(r.cores) <= d.size.cpus
         /\ r.gpus <= d.size.gpus /\ d.size.cpus \in Nat /\ d.size.gpus \in Nat
<1>1. PICK raw \in PlRaws : r = Parsed(raw) /\ ShapeValid(raw)
  BY DEF AnyReq
<1>2. /\ {"cores", "ranks", "gpus"} \subseteq DOMAIN raw
      /\ raw.cores \in Nat /\ raw.ranks \in Nat /\ raw.gpus \in Nat
  BY PlacementConstants
<1>3. PICK c \in Nat : c = DerivedCores(raw)
  BY <1>2 DEF DerivedCores
<1>4. r = [raw EXCEPT !.cores = c]
  BY <1>1, <1>3 DEF Parsed
<1>5. r.cores = c /\ r.ranks = raw.ranks /\ r.gpus = raw.gpus
  BY <1>2, <1>4
<1>6. OrOne(r.cores) >= OrOne(r.ranks)
  BY <1>1 DEF ShapeValid
<1>7. r.cores <= d.size.cpus /\ r.gpus <= d.size.gpus
  BY DEF Accepts, Satisfies
<1>8. d.size.cpus \in Nat /\ d.size.gpus \in Nat
  BY DeclFacts
<1> QED  BY <1>2, <1>3, <1>5, <1>6, <1>7, <1>8 DEF OrOne

\* The slots in use, and the fields of a pool.
LEMMA GoodTypes ==
  ASSUME Good(fleet)
  PROVE  PlTypeOK
<1>1. ASSUME NEW p \in PlPilots
      PROVE  fleet.pilot[p].load \in 0..Cardinality(PlTasks)
  <2>1. fleet.pilot[p].load = Cardinality(Held(fleet, {p}))
    BY DEF Good, PlSound
  <2>2. PICK H : H = Held(fleet, {p}) /\ H \in SUBSET PlTasks
    BY DEF Held
  <2>3. Cardinality(H) \in Nat /\ Cardinality(H) <= Cardinality(PlTasks) /\ Cardinality(PlTasks) \in Nat
    BY <2>2, PlacementConstants, FS_Subset, FS_CardinalityType
  <2> QED  BY <2>1, <2>2, <2>3
<1>2. ASSUME NEW t \in PlTasks
      PROVE  /\ fleet.task[t].pilot \in PlPilots \cup {NoPilot}
             /\ fleet.task[t].tries \in 0..PlRequeues
             /\ fleet.task[t].st = "queued" => fleet.task[t].pilot = NoPilot
  <2>1. fleet.task[t] \in TaskRecs
    BY GoodFacts
  <2>2. TaskPlaced(fleet, t) /\ fleet.task[t].tries <= PlRequeues
    BY DEF Good, PlSound
  <2> QED  BY <2>1, <2>2, PlacementConstants DEF TaskRecs, TaskPlaced
<1> QED  BY <1>1, <1>2 DEF PlTypeOK

\* A running task fits its pilot, and so does what its backend is asked for.
LEMMA GoodFits ==
  ASSUME Good(fleet)
  PROVE  RunsWhereItFits /\ AskFits
<1>1. ASSUME NEW t \in PlTasks, fleet.task[t].st = "running"
      PROVE  /\ fleet.task[t].pilot \in Live(fleet)
             /\ Accepts(fleet.pilot[fleet.task[t].pilot].decl, fleet.task[t].req)
             /\ fleet.task[t].req \in AnyReq
             /\ fleet.pilot[fleet.task[t].pilot].decl \in AnyDecl
             /\ fleet.pilot[fleet.task[t].pilot].decl.size.cpus > 0
  <2>1. TaskPlaced(fleet, t)
    BY DEF Good, PlSound
  <2>2. PICK p \in PlPilots : p = fleet.task[t].pilot
    BY <1>1, <2>1 DEF TaskPlaced
  <2>3. PilotCurrent(fleet, p, {})
    BY DEF Good, PlSound
  <2> QED  BY <1>1, <2>1, <2>2, <2>3 DEF TaskPlaced, PilotCurrent, Live
<1>2. RunsWhereItFits
  BY <1>1 DEF RunsWhereItFits, Accepts
<1>3. ASSUME NEW t \in PlTasks, fleet.task[t].st = "running", NEW d, NEW r, NEW a,
             d = fleet.pilot[fleet.task[t].pilot].decl, r = fleet.task[t].req,
             a = Asked(r, d.size.backend)
      PROVE  a.ranks * a.cores <= d.size.cpus /\ a.ranks * a.gpus <= d.size.gpus
  <2>1. r \in AnyReq /\ d \in AnyDecl /\ Accepts(d, r) /\ d.size.cpus > 0
    BY <1>1, <1>3
  <2>2. PICK R, C, G, cpus, gpus : /\ R = OrOne(r.ranks) /\ C = OrOne(r.cores) /\ G = r.gpus
                                   /\ cpus = d.size.cpus /\ gpus = d.size.gpus
    OBVIOUS
  <2>3. /\ R \in Nat /\ R > 0 /\ C \in Nat /\ G \in Nat /\ R <= C /\ C <= cpus
        /\ G <= gpus /\ cpus \in Nat /\ gpus \in Nat
    BY <2>1, <2>2, AcceptedFacts
  <2>4. PICK x \in Nat, y \in Nat : x = C \div R /\ y = G \div R /\ R * x <= C /\ R * y <= G
    BY <2>3, ShareFacts
  <2>5. PICK per, bare : /\ per = [ranks |-> R, cores |-> 1, gpus |-> y]
                         /\ bare = [ranks |-> 1, cores |-> 1, gpus |-> 0]
    OBVIOUS
  <2>6. a \in {[per EXCEPT !.cores = x], per, [per EXCEPT !.gpus = 0], bare, [bare EXCEPT !.gpus = G]}
    <3>1. a = CASE d.size.backend = "radical_pilot" -> [per EXCEPT !.cores = x]
                [] d.size.backend = "dragon_v2"     -> per
                [] d.size.backend = "dragon_v3"     -> IF r.mpi THEN [per EXCEPT !.gpus = 0] ELSE bare
                [] d.size.backend = "dragon_v1"     -> [per EXCEPT !.gpus = 0]
                [] d.size.backend = "dask"          -> [bare EXCEPT !.gpus = G]
                [] OTHER                            -> bare
      BY <1>3, <2>2, <2>4, <2>5 DEF Asked
    <3> QED  BY <3>1
  <2>7. \/ a.ranks = R /\ a.cores = x /\ a.gpus = y
        \/ a.ranks = R /\ a.cores = 1 /\ a.gpus = y
        \/ a.ranks = R /\ a.cores = 1 /\ a.gpus = 0
        \/ a.ranks = 1 /\ a.cores = 1 /\ a.gpus = 0
        \/ a.ranks = 1 /\ a.cores = 1 /\ a.gpus = G
    BY <2>5, <2>6
  <2>8. R * 1 = R /\ R * 0 = 0 /\ R * x \in Nat /\ R * y \in Nat
    BY <2>3, <2>4
  <2> QED  BY <2>2, <2>3, <2>4, <2>7, <2>8
<1>4. AskFits
  BY <1>3 DEF AskFits
<1> QED  BY <1>2, <1>4

\* Whatever joins, leaves and ends meanwhile, a queued task can be run by some
\* member once no removal is under way, and a running one is on a live pilot
\* that has what it asked for (pick_dispatch, _finalize_pilot,
\* _route_remove_member).
THEOREM PlacementIsSound == PlSpec => [](PlTypeOK /\ QueuedIsServable /\ RunsWhereItFits /\ AskFits)
<1>1. PlInit => Good(fleet)
  BY PlInitGood
<1>2. Good(fleet) /\ [PlNext]_plVars => Good(fleet)'
  BY PlStepGood
<1>3. Good(fleet) => PlTypeOK /\ QueuedIsServable /\ RunsWhereItFits /\ AskFits
  <2>1. Good(fleet) => QueuedIsServable
    BY DEF Good, Servable, Quiet, QueuedIsServable
  <2> QED  BY <2>1, GoodTypes, GoodFits
<1> QED  BY <1>1, <1>2, <1>3, PTL DEF PlSpec

-----------------------------------------------------------------------------
(***************************************************************************)
(* The record of tasks and pilots (Dispatcher).                            *)
(***************************************************************************)

USE NoneAssumption, SizeAssumption, OutcomeAssumption

-----------------------------------------------------------------------------
(* Counting slots. *)

\* There are finitely many records.
LEMMA ObjectsFinite ==
  ASSUME NEW S, S \subseteq Objects
  PROVE  IsFiniteSet(S) /\ Cardinality(S) \in Nat
<1>1. IsFiniteSet(1..MaxTries)
  BY FS_Interval
<1>2. IsFiniteSet(Objects)
  BY <1>1, FiniteAssumption, FS_Product DEF Objects
<1>3. IsFiniteSet(S)
  BY <1>2, FS_Subset
<1> QED  BY <1>3, FS_CardinalityType

\* max(0, n - k) keeps a count in its range.
LEMMA LessFacts ==
  ASSUME NEW n \in 0..Capacity, NEW k \in Nat
  PROVE  Less(n, k) \in 0..Capacity /\ Less(n, 0) = n /\ Less(n, k) <= n
BY DEF Less

\* A pool by its parts.
LEMMA PoolParts ==
  ASSUME NEW q \in Pool
  PROVE  /\ q.pilot \in [Pilots -> PilotRec] /\ q.task \in [Objects -> TaskRec]
         /\ q.cur \in [Tasks -> 0..MaxTries]
         /\ q = [pilot |-> q.pilot, task |-> q.task, cur |-> q.cur]
         /\ \A p \in Pilots : /\ q.pilot[p] \in PilotRec /\ q.pilot[p].inFlight \in 0..Capacity
         /\ \A o \in Objects : q.task[o] \in TaskRec
BY DEF Pool, PilotRec

\* Two pools with the same parts are one.
LEMMA SamePool ==
  ASSUME NEW q \in Pool, NEW r \in Pool, q.pilot = r.pilot, q.task = r.task, q.cur = r.cur
  PROVE  q = r
BY PoolParts

\* Freeing slots.
LEMMA FreedFacts ==
  ASSUME NEW q \in Pool, NEW S, S \subseteq Objects
  PROVE  /\ Freed(q, S) \in [Pilots -> PilotRec]
         /\ \A p \in Pilots : Freed(q, S)[p].state = q.pilot[p].state
         /\ S = {} => Freed(q, S) = q.pilot
<1>1. ASSUME NEW p \in Pilots
      PROVE  Cardinality({o \in S : q.task[o].pilot = p}) \in Nat
  BY ObjectsFinite
<1>2. q.pilot \in [Pilots -> PilotRec] /\ \A p \in Pilots : q.pilot[p] \in PilotRec /\ q.pilot[p].inFlight \in 0..Capacity
  BY PoolParts
<1>3. ASSUME NEW p \in Pilots
      PROVE  /\ Freed(q, S)[p] \in PilotRec /\ Freed(q, S)[p].state = q.pilot[p].state
             /\ S = {} => Freed(q, S)[p] = q.pilot[p]
  <2>1. PICK k \in Nat : k = Cardinality({o \in S : q.task[o].pilot = p})
    BY <1>1
  <2>2. Freed(q, S)[p] = [q.pilot[p] EXCEPT !.inFlight = Less(q.pilot[p].inFlight, k)]
    BY <2>1 DEF Freed
  <2>3. Less(q.pilot[p].inFlight, k) \in 0..Capacity /\ Less(q.pilot[p].inFlight, 0) = q.pilot[p].inFlight
    BY <1>2, LessFacts
  <2>4. Freed(q, S)[p] \in PilotRec /\ Freed(q, S)[p].state = q.pilot[p].state
    BY <1>2, <2>2, <2>3 DEF PilotRec
  <2>5. ASSUME S = {}
        PROVE  Freed(q, S)[p] = q.pilot[p]
    <3>1. k = 0
      <4>1. {o \in S : q.task[o].pilot = p} = {}
        BY <2>5
      <4> QED  BY <2>1, <4>1, FS_EmptySet
    <3> QED  BY <1>2, <2>2, <2>3, <3>1 DEF PilotRec
  <2> QED  BY <2>4, <2>5
<1>4. Freed(q, S) = [p \in Pilots |-> Freed(q, S)[p]]
  BY DEF Freed
<1> QED  BY <1>2, <1>3, <1>4

-----------------------------------------------------------------------------
(* The functions of the pool. *)

\* r comes after q: nothing that had ended runs again, no record is forgotten.
Later(q, r) == /\ \A o \in Objects : Ended(q, o) => Ended(r, o)
               /\ Made(q) \subseteq Made(r)

\* Later is a preorder.
LEMMA LaterFacts ==
  /\ \A q : Later(q, q)
  /\ \A q, r, u : Later(q, r) /\ Later(r, u) => Later(q, u)
BY DEF Later

\* What is current was made.
LEMMA CurrentMade ==
  ASSUME NEW q \in Pool
  PROVE  Current(q) \subseteq Made(q) /\ Queued(q) \subseteq Made(q) /\ Made(q) \subseteq Objects
<1>1. ASSUME NEW o \in Objects, q.cur[o[1]] = o[2]
      PROVE  o[2] <= q.cur[o[1]]
  <2>1. o[1] \in Tasks /\ o[2] \in Nat
    BY DEF Objects
  <2> QED  BY <1>1, <2>1
<1> QED  BY <1>1 DEF Current, Queued, Made

\* A pool whose records and pilots changed is sound when each of them is.
LEMMA ChangedSound ==
  ASSUME NEW q, PoolSound(q), NEW r \in Pool, r.cur = q.cur,
         \A o \in Objects : /\ RecordSound(r.task[o])
                            /\ Ended(q, o) => Ended(r, o)
                            /\ o \notin Made(q) => r.task[o].state = q.task[o].state,
         \A o \in Current(q) : r.task[o].state = "RUNNING"
                                  => /\ r.task[o].pilot \in Pilots
                                     /\ r.pilot[r.task[o].pilot].state = "ACTIVE"
  PROVE  PoolSound(r) /\ Later(q, r) /\ Made(r) = Made(q) /\ Current(r) = Current(q)
<1>1. Made(r) = Made(q) /\ Current(r) = Current(q)
  BY DEF Made, Current
<1>2. Later(q, r)
  BY <1>1 DEF Later
<1>3. OnLivePilots(r)
  BY <1>1 DEF OnLivePilots
<1> QED  BY <1>1, <1>2, <1>3 DEF PoolSound

\* EndTasks ends the records of S and frees slots.
LEMMA EndTasksIs ==
  ASSUME NEW q \in Pool, NEW S, S \subseteq Objects, NEW st \in Terminal
  PROVE  /\ EndTasks(q, S, st) \in Pool /\ EndTasks(q, S, st).cur = q.cur
         /\ EndTasks(q, S, st).pilot = Freed(q, S)
         /\ \A o \in Objects : EndTasks(q, S, st).task[o] =
               IF o \in S THEN [q.task[o] EXCEPT !.state = st] ELSE q.task[o]
         /\ S = {} => EndTasks(q, S, st) = q
<1> DEFINE T == [o \in Objects |-> IF o \in S THEN [q.task[o] EXCEPT !.state = st] ELSE q.task[o]]
<1>1. PICK r : r = EndTasks(q, S, st)
  OBVIOUS
<1>2. r.cur = q.cur /\ r.pilot = Freed(q, S) /\ r.task = T
      /\ r = [pilot |-> Freed(q, S), task |-> T, cur |-> q.cur]
  BY <1>1 DEF EndTasks, Pool
<1>3. Freed(q, S) \in [Pilots -> PilotRec] /\ (S = {} => Freed(q, S) = q.pilot)
  BY FreedFacts
<1>4. q.cur \in [Tasks -> 0..MaxTries] /\ q.task \in [Objects -> TaskRec]
  BY PoolParts
<1>5. ASSUME NEW o \in Objects
      PROVE  T[o] \in TaskRec
  <2>1. q.task[o] \in TaskRec
    BY <1>4
  <2> QED  BY <2>1 DEF TaskRec, Terminal
<1>6. T \in [Objects -> TaskRec]
  BY <1>5
<1> HIDE DEF T
<1>7. r \in Pool
  BY <1>2, <1>3, <1>4, <1>6 DEF Pool
<1>8. ASSUME S = {}
      PROVE  r = q
  <2>1. T = q.task
    BY <1>4, <1>8 DEF T
  <2> QED  BY <1>2, <1>3, <1>7, <1>8, <2>1, SamePool
<1>9. \A o \in Objects : r.task[o] = IF o \in S THEN [q.task[o] EXCEPT !.state = st] ELSE q.task[o]
  BY <1>2 DEF T
<1> QED  BY <1>1, <1>2, <1>7, <1>8, <1>9

\* A record may end at any time.
LEMMA RecordEnds ==
  ASSUME NEW r \in TaskRec, RecordSound(r), NEW st \in Terminal
  PROVE  /\ RecordSound([r EXCEPT !.state = st])
         /\ [r EXCEPT !.state = st].state = st
BY DEF RecordSound, TaskRec, Terminal

\* EndTasks keeps a pool sound, whatever state its records are in.
LEMMA EndTasksSound ==
  ASSUME NEW q, PoolSound(q), NEW S, S \subseteq Made(q), NEW st \in Terminal
  PROVE  /\ PoolSound(EndTasks(q, S, st)) /\ Later(q, EndTasks(q, S, st))
         /\ Made(EndTasks(q, S, st)) = Made(q) /\ Current(EndTasks(q, S, st)) = Current(q)
<1>0. q \in Pool /\ S \subseteq Objects
  BY DEF PoolSound, Made
<1>1. PICK r : r = EndTasks(q, S, st)
  OBVIOUS
<1>2. /\ r \in Pool /\ r.cur = q.cur /\ r.pilot = Freed(q, S)
      /\ \A o \in Objects : r.task[o] = IF o \in S THEN [q.task[o] EXCEPT !.state = st] ELSE q.task[o]
  BY <1>0, <1>1, EndTasksIs
<1>3. \A p \in Pilots : r.pilot[p].state = q.pilot[p].state
  BY <1>0, <1>2, FreedFacts
<1>4. ASSUME NEW o \in Objects
      PROVE  q.task[o] \in TaskRec /\ RecordSound(q.task[o])
  BY <1>0, PoolParts DEF PoolSound
<1>5. ASSUME NEW o \in Objects
      PROVE  /\ RecordSound(r.task[o])
             /\ Ended(q, o) => Ended(r, o)
             /\ o \notin Made(q) => r.task[o].state = q.task[o].state
  <2>1. CASE o \in S
    <3>1. r.task[o] = [q.task[o] EXCEPT !.state = st]
      BY <1>2, <2>1
    <3>2. RecordSound(r.task[o]) /\ r.task[o].state = st
      BY <1>4, <3>1, RecordEnds
    <3> QED  BY <2>1, <3>2 DEF Ended
  <2>2. CASE o \notin S
    <3>1. r.task[o] = q.task[o]
      BY <1>2, <2>2
    <3> QED  BY <1>4, <3>1 DEF Ended
  <2> QED  BY <2>1, <2>2
<1>6. ASSUME NEW o \in Current(q), r.task[o].state = "RUNNING"
      PROVE  r.task[o].pilot \in Pilots /\ r.pilot[r.task[o].pilot].state = "ACTIVE"
  <2>0. o \in Objects
    BY DEF Current
  <2>1. o \notin S
    <3>1. SUFFICES ASSUME o \in S PROVE FALSE
      OBVIOUS
    <3>2. r.task[o] = [q.task[o] EXCEPT !.state = st]
      BY <1>2, <2>0, <3>1
    <3>3. [q.task[o] EXCEPT !.state = st].state = st
      BY <1>4, <2>0, RecordEnds
    <3> QED  BY <1>6, <3>2, <3>3 DEF Terminal
  <2>2. r.task[o] = q.task[o]
    BY <1>2, <2>0, <2>1
  <2> QED  BY <1>3, <1>6, <2>2 DEF PoolSound, OnLivePilots
<1>7. PoolSound(r) /\ Later(q, r) /\ Made(r) = Made(q) /\ Current(r) = Current(q)
  BY <1>2, <1>5, <1>6, ChangedSound
<1> QED  BY <1>1, <1>7

\* A claim gives a queued record to a pilot with a free slot.
LEMMA ClaimedSound ==
  ASSUME NEW q, PoolSound(q), NEW a \in Claims(q)
  PROVE  /\ PoolSound(Claimed(q, a)) /\ Later(q, Claimed(q, a))
         /\ Made(Claimed(q, a)) = Made(q)
         /\ DOMAIN a = {} => Claimed(q, a) = q
         /\ DOMAIN a \subseteq Made(q) /\ \A o \in DOMAIN a : a[o] \in Pilots
<1>0. q \in Pool
  BY DEF PoolSound
<1>1. /\ DOMAIN a \subseteq Queued(q) /\ \A o \in DOMAIN a : a[o] \in Pilots
      /\ \A p \in Pilots : Cardinality(Share(a, p)) <= Free(q, p)
  <2>1. a \in UNION {[D -> Pilots] : D \in SUBSET Queued(q)}
    BY DEF Claims
  <2>2. PICK D \in SUBSET Queued(q) : a \in [D -> Pilots]
    BY <2>1
  <2> QED  BY <2>2 DEF Claims
<1>2. Queued(q) \subseteq Made(q) /\ Queued(q) \subseteq Objects
  BY <1>0, CurrentMade
<1>3. \A p \in Pilots : q.pilot[p] \in PilotRec /\ q.pilot[p].inFlight \in 0..Capacity
  BY <1>0, PoolParts
<1>4. ASSUME NEW p \in Pilots
      PROVE  Cardinality(Share(a, p)) \in Nat
  BY <1>1, <1>2, ObjectsFinite DEF Share
<1> DEFINE PP == [p \in Pilots |-> [q.pilot[p] EXCEPT !.inFlight = @ + Cardinality(Share(a, p))]]
           TT == [o \in Objects |->
                    IF o \in DOMAIN a
                    THEN [q.task[o] EXCEPT !.state = "RUNNING", !.pilot = a[o], !.claims = @ + 1]
                    ELSE q.task[o]]
<1>5. PICK r : r = Claimed(q, a)
  OBVIOUS
<1>6. /\ r.cur = q.cur /\ r.pilot = PP /\ r.task = TT
      /\ r = [pilot |-> PP, task |-> TT, cur |-> q.cur]
  BY <1>0, <1>5 DEF Claimed, Pool
<1>7. ASSUME NEW p \in Pilots
      PROVE  /\ PP[p] \in PilotRec /\ PP[p].state = q.pilot[p].state
             /\ Share(a, p) = {} => PP[p] = q.pilot[p]
             /\ Share(a, p) # {} => q.pilot[p].state = "ACTIVE"
  <2>1. PICK k \in Nat : k = Cardinality(Share(a, p))
    BY <1>4
  <2>2. PP[p] = [q.pilot[p] EXCEPT !.inFlight = q.pilot[p].inFlight + k]
    BY <2>1
  <2>3. k <= Free(q, p)
    BY <1>1, <2>1
  <2>4. q.pilot[p].inFlight + k \in 0..Capacity
    BY <1>3, <2>3 DEF Free, Less
  <2>5. Share(a, p) = {} <=> k = 0
    <3>1. IsFiniteSet(Share(a, p))
      BY <1>1, <1>2, ObjectsFinite DEF Share
    <3> QED  BY <2>1, <3>1, FS_EmptySet
  <2>6. k # 0 => q.pilot[p].state = "ACTIVE"
    BY <2>3 DEF Free
  <2>7. k = 0 => PP[p] = q.pilot[p]
    BY <1>3, <2>2 DEF PilotRec
  <2>8. PP[p] \in PilotRec /\ PP[p].state = q.pilot[p].state
    BY <1>3, <2>2, <2>4 DEF PilotRec
  <2> HIDE DEF PP
  <2> QED  BY <2>5, <2>6, <2>7, <2>8
<1>8. ASSUME NEW o \in Objects
      PROVE  q.task[o] \in TaskRec /\ RecordSound(q.task[o])
  BY <1>0, PoolParts DEF PoolSound
<1>9. ASSUME NEW o \in DOMAIN a
      PROVE  /\ o \in Objects /\ TT[o] \in TaskRec /\ RecordSound(TT[o]) /\ TT[o].pilot = a[o]
             /\ q.task[o].state = "QUEUED"
  <2>1. o \in Objects /\ a[o] \in Pilots /\ q.task[o].state = "QUEUED"
    BY <1>1, <1>2 DEF Queued
  <2>2. TT[o] = [q.task[o] EXCEPT !.state = "RUNNING", !.pilot = a[o], !.claims = @ + 1]
    BY <2>1
  <2>3. q.task[o] \in TaskRec /\ RecordSound(q.task[o])
    BY <1>8, <2>1
  <2> HIDE DEF TT
  <2>4. TT[o] \in TaskRec /\ TT[o].pilot = a[o]
    <3>1. PICK x \in TaskRec : x = q.task[o]
      BY <2>3
    <3>2. TT[o] = [state |-> "RUNNING", pilot |-> a[o], uid |-> x.uid, requeues |-> x.requeues,
                   claims |-> x.claims + 1]
      BY <2>2, <3>1 DEF TaskRec
    <3>3. x.claims + 1 \in Nat /\ x.uid \in BOOLEAN /\ x.requeues \in 0..(MaxRequeues + 1)
      BY DEF TaskRec
    <3> QED  BY <2>1, <3>2, <3>3 DEF TaskRec
  <2>5. /\ TT[o].state = "RUNNING" /\ TT[o].claims = q.task[o].claims + 1
        /\ TT[o].requeues = q.task[o].requeues
        /\ q.task[o].claims \in Nat /\ q.task[o].requeues \in Nat
    BY <2>2, <2>3 DEF TaskRec
  <2>6. q.task[o].claims <= q.task[o].requeues /\ q.task[o].requeues <= MaxRequeues
    BY <2>1, <2>3 DEF RecordSound, Terminal
  <2>7. RecordSound(TT[o])
    BY <2>5, <2>6 DEF RecordSound
  <2> QED  BY <2>1, <2>4, <2>7
<1>10. ASSUME NEW o \in Objects, o \notin DOMAIN a
       PROVE  TT[o] = q.task[o]
  BY <1>10
<1>11. PP \in [Pilots -> PilotRec] /\ TT \in [Objects -> TaskRec]
  BY <1>7, <1>8, <1>9, <1>10
<1> HIDE DEF PP, TT
<1>12. r \in Pool
  BY <1>0, <1>6, <1>11, PoolParts DEF Pool
<1>13. ASSUME DOMAIN a = {}
       PROVE  r = q
  <2>1. TT = q.task
    BY <1>0, <1>10, <1>11, <1>13, PoolParts
  <2>2. \A p \in Pilots : Share(a, p) = {}
    BY <1>13 DEF Share
  <2>3. PP = q.pilot
    BY <1>0, <1>7, <1>11, <2>2, PoolParts
  <2> QED  BY <1>0, <1>6, <1>12, <2>1, <2>3, SamePool
<1>14. ASSUME NEW o \in Objects
       PROVE  /\ RecordSound(r.task[o])
              /\ Ended(q, o) => Ended(r, o)
              /\ o \notin Made(q) => r.task[o].state = q.task[o].state
  <2>1. CASE o \in DOMAIN a
    <3>1. o \in Made(q)
      BY <1>1, <1>2, <2>1
    <3> QED  BY <1>6, <1>9, <2>1, <3>1 DEF Ended, Terminal
  <2>2. CASE o \notin DOMAIN a
    BY <1>6, <1>8, <1>10, <2>2 DEF Ended
  <2> QED  BY <2>1, <2>2
<1>15. ASSUME NEW o \in Current(q), r.task[o].state = "RUNNING"
       PROVE  r.task[o].pilot \in Pilots /\ r.pilot[r.task[o].pilot].state = "ACTIVE"
  <2>0. o \in Objects
    BY DEF Current
  <2>1. CASE o \in DOMAIN a
    <3>1. r.task[o].pilot = a[o] /\ a[o] \in Pilots
      BY <1>1, <1>6, <1>9, <2>1
    <3>2. Share(a, a[o]) # {}
      BY <2>1 DEF Share
    <3> QED  BY <1>6, <1>7, <3>1, <3>2
  <2>2. CASE o \notin DOMAIN a
    <3>1. r.task[o] = q.task[o]
      BY <1>6, <1>10, <2>0, <2>2
    <3>2. q.task[o].pilot \in Pilots /\ q.pilot[q.task[o].pilot].state = "ACTIVE"
      BY <1>15, <3>1 DEF PoolSound, OnLivePilots
    <3> QED  BY <1>6, <1>7, <3>1, <3>2
  <2> QED  BY <2>1, <2>2
<1>16. PoolSound(r) /\ Later(q, r) /\ Made(r) = Made(q)
  BY <1>6, <1>12, <1>14, <1>15, ChangedSound
<1> QED  BY <1>1, <1>2, <1>5, <1>13, <1>16

\* Queued again, or failed when that was once too often.
LEMMA RequeueFacts ==
  ASSUME NEW x \in TaskRec, RecordSound(x), x.state \notin Terminal
  PROVE  /\ Requeue(x) \in TaskRec /\ RecordSound(Requeue(x))
         /\ Requeue(x).state \in {"FAILED", "QUEUED"}
<1> DEFINE st == IF x.requeues + 1 > MaxRequeues THEN "FAILED" ELSE "QUEUED"
<1>1. /\ x.claims \in Nat /\ x.requeues \in Nat /\ x.requeues <= MaxRequeues
      /\ x.claims <= x.requeues + 1
  BY DEF TaskRec, RecordSound, Terminal
<1>2. Requeue(x) = [state |-> st, pilot |-> None, uid |-> FALSE, requeues |-> x.requeues + 1,
                    claims |-> x.claims]
  <2>1. Requeue(x) = [x EXCEPT !.uid = FALSE, !.pilot = None, !.requeues = x.requeues + 1, !.state = st]
    BY DEF Requeue
  <2> HIDE DEF st
  <2> QED  BY <2>1 DEF TaskRec
<1>3. PICK y : y = Requeue(x)
  OBVIOUS
<1>4. /\ y.state = st /\ y.requeues = x.requeues + 1 /\ y.claims = x.claims
  BY <1>2, <1>3
<1>5. y \in TaskRec
  <2>1. x.requeues + 1 \in 0..(MaxRequeues + 1) /\ st \in {"NONE", "QUEUED", "RUNNING"} \cup Terminal
    BY <1>1 DEF Terminal
  <2> HIDE DEF st
  <2> QED  BY <1>1, <1>2, <1>3, <2>1 DEF TaskRec
<1>6. RecordSound(y)
  <2>1. CASE x.requeues + 1 > MaxRequeues
    BY <1>1, <1>4, <2>1 DEF RecordSound, Terminal
  <2>2. CASE ~(x.requeues + 1 > MaxRequeues)
    BY <1>1, <1>4, <2>2 DEF RecordSound, Terminal
  <2> QED  BY <2>1, <2>2
<1> QED  BY <1>3, <1>4, <1>5, <1>6

\* The end of a pilot leaves no record on it.
LEMMA FinalizedSound ==
  ASSUME NEW q, PoolSound(q), NEW p \in Pilots
  PROVE  /\ PoolSound(Finalized(q, p)) /\ Later(q, Finalized(q, p))
         /\ Made(Finalized(q, p)) = Made(q)
<1>0. q \in Pool
  BY DEF PoolSound
<1> DEFINE PP == [q.pilot EXCEPT ![p].state = "ENDED"]
           TT == [o \in Objects |-> IF o \in Reclaimed(q, p) THEN Requeue(q.task[o]) ELSE q.task[o]]
<1>1. PICK r : r = Finalized(q, p)
  OBVIOUS
<1>2. /\ r.cur = q.cur /\ r.pilot = PP /\ r.task = TT
      /\ r = [pilot |-> PP, task |-> TT, cur |-> q.cur]
  BY <1>0, <1>1 DEF Finalized, Pool
<1>3. /\ PP \in [Pilots -> PilotRec] /\ \A x \in Pilots \ {p} : PP[x] = q.pilot[x]
  <2>1. q.pilot \in [Pilots -> PilotRec] /\ q.pilot[p] \in PilotRec
    BY <1>0, PoolParts
  <2>2. [q.pilot[p] EXCEPT !.state = "ENDED"] \in PilotRec
    BY <2>1 DEF PilotRec
  <2> QED  BY <2>1, <2>2
<1>4. ASSUME NEW o \in Objects
      PROVE  q.task[o] \in TaskRec /\ RecordSound(q.task[o])
  BY <1>0, PoolParts DEF PoolSound
<1>5. Reclaimed(q, p) \subseteq Current(q) /\ Current(q) \subseteq Made(q) /\ Made(q) \subseteq Objects
  BY <1>0, CurrentMade DEF Reclaimed
<1>6. ASSUME NEW o \in Reclaimed(q, p)
      PROVE  /\ TT[o] \in TaskRec /\ RecordSound(TT[o]) /\ TT[o].state \in {"FAILED", "QUEUED"}
             /\ ~Ended(q, o)
  <2>1. o \in Objects /\ q.task[o].state \notin Terminal
    BY <1>5 DEF Reclaimed, Ended
  <2>2. TT[o] = Requeue(q.task[o])
    BY <2>1
  <2> HIDE DEF TT
  <2> QED  BY <1>4, <2>1, <2>2, RequeueFacts DEF Ended
<1>7. ASSUME NEW o \in Objects, o \notin Reclaimed(q, p)
      PROVE  TT[o] = q.task[o]
  BY <1>7
<1>8. TT \in [Objects -> TaskRec]
  BY <1>4, <1>6, <1>7
<1> HIDE DEF PP, TT
<1>9. r \in Pool
  BY <1>0, <1>2, <1>3, <1>8, PoolParts DEF Pool
<1>10. ASSUME NEW o \in Objects
       PROVE  /\ RecordSound(r.task[o])
              /\ Ended(q, o) => Ended(r, o)
              /\ o \notin Made(q) => r.task[o].state = q.task[o].state
  <2>1. CASE o \in Reclaimed(q, p)
    BY <1>2, <1>5, <1>6, <2>1
  <2>2. CASE o \notin Reclaimed(q, p)
    BY <1>2, <1>4, <1>7, <2>2 DEF Ended
  <2> QED  BY <2>1, <2>2
<1>11. ASSUME NEW o \in Current(q), r.task[o].state = "RUNNING"
       PROVE  r.task[o].pilot \in Pilots /\ r.pilot[r.task[o].pilot].state = "ACTIVE"
  <2>1. o \notin Reclaimed(q, p)
    BY <1>2, <1>6, <1>11
  <2>2. r.task[o] = q.task[o]
    BY <1>2, <1>5, <1>7, <2>1
  <2>3. q.task[o].pilot \in Pilots /\ q.pilot[q.task[o].pilot].state = "ACTIVE"
    BY <1>11, <2>2 DEF PoolSound, OnLivePilots
  <2>4. q.task[o].pilot # p
    BY <1>11, <2>1, <2>2 DEF Reclaimed, Ended, Terminal
  <2> QED  BY <1>2, <1>3, <2>2, <2>3, <2>4
<1>12. PoolSound(r) /\ Later(q, r) /\ Made(r) = Made(q)
  BY <1>2, <1>9, <1>10, <1>11, ChangedSound
<1> QED  BY <1>1, <1>12

\* A pilot becomes active, is paused or resumed.
LEMMA PilotSound ==
  ASSUME NEW q, PoolSound(q), NEW r \in Pool, r.task = q.task, r.cur = q.cur,
         \A p \in Pilots : r.pilot[p].state \in {q.pilot[p].state, "ACTIVE"}
  PROVE  PoolSound(r) /\ Later(q, r) /\ Made(r) = Made(q) /\ Current(r) = Current(q)
<1>1. ASSUME NEW o \in Objects
      PROVE  /\ RecordSound(r.task[o])
             /\ Ended(q, o) => Ended(r, o)
             /\ o \notin Made(q) => r.task[o].state = q.task[o].state
  BY DEF PoolSound, Ended
<1>2. ASSUME NEW o \in Current(q), r.task[o].state = "RUNNING"
      PROVE  r.task[o].pilot \in Pilots /\ r.pilot[r.task[o].pilot].state = "ACTIVE"
  BY <1>2 DEF PoolSound, OnLivePilots
<1> QED  BY <1>1, <1>2, ChangedSound

\* The pools of activation, suspension and resumption.
LEMMA PilotChanges ==
  ASSUME NEW q \in Pool, NEW p \in Pilots, NEW b \in BOOLEAN
  PROVE  /\ [q EXCEPT !.pilot[p].state = "ACTIVE"] \in Pool
         /\ [q EXCEPT !.pilot[p].state = "ACTIVE"].task = q.task
         /\ [q EXCEPT !.pilot[p].state = "ACTIVE"].cur = q.cur
         /\ \A x \in Pilots : [q EXCEPT !.pilot[p].state = "ACTIVE"].pilot[x].state
                               \in {q.pilot[x].state, "ACTIVE"}
         /\ [q EXCEPT !.pilot[p].accepting = b] \in Pool
         /\ [q EXCEPT !.pilot[p].accepting = b].task = q.task
         /\ [q EXCEPT !.pilot[p].accepting = b].cur = q.cur
         /\ \A x \in Pilots : [q EXCEPT !.pilot[p].accepting = b].pilot[x].state = q.pilot[x].state
<1>0. q.pilot \in [Pilots -> PilotRec] /\ q.pilot[p] \in PilotRec
  BY PoolParts
<1>1. ASSUME NEW x \in PilotRec
      PROVE  /\ [q EXCEPT !.pilot[p] = x] \in Pool
             /\ [q EXCEPT !.pilot[p] = x].task = q.task /\ [q EXCEPT !.pilot[p] = x].cur = q.cur
             /\ [q EXCEPT !.pilot[p] = x].pilot = [q.pilot EXCEPT ![p] = x]
  BY DEF Pool
<1>2. /\ [q.pilot[p] EXCEPT !.state = "ACTIVE"] \in PilotRec
      /\ [q.pilot[p] EXCEPT !.state = "ACTIVE"].state = "ACTIVE"
      /\ [q.pilot[p] EXCEPT !.accepting = b] \in PilotRec
      /\ [q.pilot[p] EXCEPT !.accepting = b].state = q.pilot[p].state
  BY <1>0 DEF PilotRec
<1>3. /\ [q EXCEPT !.pilot[p].state = "ACTIVE"] = [q EXCEPT !.pilot[p] = [q.pilot[p] EXCEPT !.state = "ACTIVE"]]
      /\ [q EXCEPT !.pilot[p].accepting = b] = [q EXCEPT !.pilot[p] = [q.pilot[p] EXCEPT !.accepting = b]]
  BY <1>0 DEF Pool
<1> QED  BY <1>0, <1>1, <1>2, <1>3

\* A record of its own for the id that is submitted.
LEMMA SubmittedSound ==
  ASSUME NEW q, PoolSound(q), NEW t \in Tasks, NEW k, k = q.cur[t] + 1, k <= MaxTries,
         NEW r, r = [q EXCEPT !.cur[t] = k, !.task[<<t, k>>].state = "QUEUED"]
  PROVE  PoolSound(r) /\ Later(q, r)
<1>0. q \in Pool /\ q.cur \in [Tasks -> 0..MaxTries] /\ q.task \in [Objects -> TaskRec]
  BY PoolParts DEF PoolSound
<1>1. k \in 1..MaxTries /\ k \in Nat /\ <<t, k>> \in Objects
  BY <1>0 DEF Objects
<1>2. PICK n \in Objects : n = <<t, k>> /\ n[1] = t /\ n[2] = k
  BY <1>1
<1> DEFINE C == [q.cur EXCEPT ![t] = k]
           T == [q.task EXCEPT ![n] = [q.task[n] EXCEPT !.state = "QUEUED"]]
<1>3. /\ r.cur = C /\ r.task = T /\ r.pilot = q.pilot
      /\ r = [pilot |-> q.pilot, task |-> T, cur |-> C]
  BY <1>0, <1>2 DEF Pool
<1>4. C \in [Tasks -> 0..MaxTries] /\ C[t] = k /\ \A x \in Tasks \ {t} : C[x] = q.cur[x]
  BY <1>0, <1>1
<1>5. n \notin Made(q)
  BY <1>0, <1>1, <1>2 DEF Made
<1>6. q.task[n] \in TaskRec /\ RecordSound(q.task[n]) /\ q.task[n].state = "NONE"
  BY <1>0, <1>5 DEF PoolSound
<1>7. /\ [q.task[n] EXCEPT !.state = "QUEUED"] \in TaskRec
      /\ RecordSound([q.task[n] EXCEPT !.state = "QUEUED"])
      /\ [q.task[n] EXCEPT !.state = "QUEUED"].state = "QUEUED"
  BY <1>6 DEF TaskRec, RecordSound, Terminal
<1>8. T \in [Objects -> TaskRec] /\ \A o \in Objects \ {n} : T[o] = q.task[o]
  BY <1>0, <1>7
<1>9. RecordSound(T[n]) /\ T[n].state = "QUEUED"
  BY <1>0, <1>7
<1> HIDE DEF C, T
<1>10. r \in Pool
  BY <1>0, <1>3, <1>4, <1>8, PoolParts DEF Pool
<1>11. \A o \in Objects : RecordSound(r.task[o])
  <2> SUFFICES ASSUME NEW o \in Objects PROVE RecordSound(r.task[o])
    OBVIOUS
  <2>1. CASE o = n
    BY <1>3, <1>9, <2>1
  <2>2. CASE o # n
    BY <1>3, <1>8, <2>2 DEF PoolSound
  <2> QED  BY <2>1, <2>2
<1>12. ASSUME NEW o \in Objects
       PROVE  /\ o \in Made(q) => o \in Made(r)
              /\ o \notin Made(r) => o \notin Made(q) /\ o # n
              /\ o \in Current(r) => o = n \/ o \in Current(q)
  <2>1. PICK u \in Tasks, v \in 1..MaxTries : o = <<u, v>> /\ o[1] = u /\ o[2] = v
    BY DEF Objects
  <2>2. CASE u = t
    <3>1. r.cur[u] = k /\ q.cur[u] = k - 1
      BY <1>0, <1>3, <1>4, <2>2
    <3>2. o \in Made(q) => o \in Made(r)
      BY <1>1, <2>1, <3>1 DEF Made
    <3>3. n \in Made(r)
      BY <1>1, <1>2, <1>3, <1>4 DEF Made
    <3>4. o \in Current(r) => o = n
      BY <1>2, <2>1, <2>2, <3>1 DEF Current
    <3> QED  BY <3>2, <3>3, <3>4
  <2>3. CASE u # t
    <3>1. r.cur[u] = q.cur[u] /\ o # n
      BY <1>2, <1>3, <1>4, <2>1, <2>3
    <3> QED  BY <2>1, <3>1 DEF Made, Current
  <2> QED  BY <2>2, <2>3
<1>13. Later(q, r)
  <2>1. ASSUME NEW o \in Objects, Ended(q, o)
        PROVE  Ended(r, o)
    <3>1. o # n
      BY <1>6, <2>1 DEF Ended, Terminal
    <3> QED  BY <1>3, <1>8, <2>1, <3>1 DEF Ended
  <2>2. Made(q) \subseteq Made(r)
    BY <1>12 DEF Made
  <2> QED  BY <2>1, <2>2 DEF Later
<1>14. \A o \in Objects \ Made(r) : r.task[o].state = "NONE"
  BY <1>3, <1>8, <1>12 DEF PoolSound
<1>15. OnLivePilots(r)
  <2> SUFFICES ASSUME NEW o \in Current(r), r.task[o].state = "RUNNING"
               PROVE  r.task[o].pilot \in Pilots /\ r.pilot[r.task[o].pilot].state = "ACTIVE"
    BY DEF OnLivePilots
  <2>1. o \in Objects /\ o # n
    BY <1>3, <1>9 DEF Current
  <2>2. o \in Current(q) /\ r.task[o] = q.task[o]
    BY <1>3, <1>8, <1>12, <2>1
  <2> QED  BY <1>3, <2>2, ZenonT(40) DEF PoolSound, OnLivePilots
<1> QED  BY <1>10, <1>11, <1>13, <1>14, <1>15 DEF PoolSound

\* The records of S get a uid, or lose it.
SetUids(q, S, b) == [q EXCEPT !.task = [o \in Objects |->
                       IF o \in S THEN [q.task[o] EXCEPT !.uid = b] ELSE q.task[o]]]

\* Setting or clearing uids.
LEMMA UidsSound ==
  ASSUME NEW q, PoolSound(q), NEW S, NEW b \in BOOLEAN, NEW r, r = SetUids(q, S, b)
  PROVE  PoolSound(r) /\ Later(q, r) /\ Made(r) = Made(q) /\ Visible(r) = Visible(q)
<1>0. q \in Pool /\ q.task \in [Objects -> TaskRec]
  BY PoolParts DEF PoolSound
<1> DEFINE T == [o \in Objects |-> IF o \in S THEN [q.task[o] EXCEPT !.uid = b] ELSE q.task[o]]
<1>1. /\ r.cur = q.cur /\ r.task = T /\ r.pilot = q.pilot
      /\ r = [pilot |-> q.pilot, task |-> T, cur |-> q.cur]
  BY <1>0 DEF Pool, SetUids
<1>2. ASSUME NEW o \in Objects
      PROVE  /\ T[o] \in TaskRec /\ T[o].state = q.task[o].state /\ T[o].pilot = q.task[o].pilot
             /\ T[o].claims = q.task[o].claims /\ T[o].requeues = q.task[o].requeues
             /\ [T[o] EXCEPT !.uid = FALSE] = [q.task[o] EXCEPT !.uid = FALSE]
  <2>1. q.task[o] \in TaskRec
    BY <1>0
  <2>2. CASE o \in S
    <3>1. PICK x \in TaskRec : x = q.task[o]
      BY <2>1
    <3>2. T[o] = [x EXCEPT !.uid = b]
      BY <2>2, <3>1
    <3>3. T[o] = [state |-> x.state, pilot |-> x.pilot, uid |-> b, requeues |-> x.requeues,
                  claims |-> x.claims]
      BY <3>2 DEF TaskRec
    <3> HIDE DEF T
    <3>4. /\ T[o].state = x.state /\ T[o].pilot = x.pilot
          /\ T[o].claims = x.claims /\ T[o].requeues = x.requeues
      BY <3>3
    <3>5. T[o] \in TaskRec
      BY <3>3 DEF TaskRec
    <3>6. [T[o] EXCEPT !.uid = FALSE] = [x EXCEPT !.uid = FALSE]
      BY <3>2 DEF TaskRec
    <3> QED  BY <3>1, <3>4, <3>5, <3>6
  <2>3. CASE o \notin S
    <3>1. T[o] = q.task[o]
      BY <2>3
    <3> HIDE DEF T
    <3> QED  BY <2>1, <3>1
  <2> QED  BY <2>2, <2>3
<1>3. T \in [Objects -> TaskRec]
  BY <1>2
<1> HIDE DEF T
<1>4. r \in Pool
  BY <1>0, <1>1, <1>3, PoolParts DEF Pool
<1>5. ASSUME NEW o \in Objects
      PROVE  /\ RecordSound(r.task[o])
             /\ Ended(q, o) => Ended(r, o)
             /\ o \notin Made(q) => r.task[o].state = q.task[o].state
  BY <1>1, <1>2 DEF PoolSound, RecordSound, Ended
<1>6. ASSUME NEW o \in Current(q), r.task[o].state = "RUNNING"
      PROVE  r.task[o].pilot \in Pilots /\ r.pilot[r.task[o].pilot].state = "ACTIVE"
  <2>1. o \in Objects
    BY DEF Current
  <2>2. r.task[o].state = q.task[o].state /\ r.task[o].pilot = q.task[o].pilot
    BY <1>1, <1>2, <2>1
  <2>3. q.task[o].pilot \in Pilots /\ q.pilot[q.task[o].pilot].state = "ACTIVE"
    BY <1>6, <2>2 DEF PoolSound, OnLivePilots
  <2> QED  BY <1>1, <2>2, <2>3
<1>7. PoolSound(r) /\ Later(q, r) /\ Made(r) = Made(q) /\ Current(r) = Current(q)
  BY <1>1, <1>4, <1>5, <1>6, ChangedSound
<1>8. Visible(r) = Visible(q)
  <2>1. Current(q) \subseteq Objects
    BY DEF Current
  <2>2. [o \in Current(r) |-> [r.task[o] EXCEPT !.uid = FALSE]]
          = [o \in Current(q) |-> [q.task[o] EXCEPT !.uid = FALSE]]
    BY <1>1, <1>2, <1>7, <2>1
  <2> QED  BY <1>1, <2>2 DEF Visible
<1> QED  BY <1>7, <1>8

\* The end of _cancel_task: a record ends and a slot of a pilot is freed.
LEMMA CanceledSound ==
  ASSUME NEW q, PoolSound(q), NEW n \in Made(q), NEW p \in Pilots,
         NEW r, r = [q EXCEPT !.task[n].state = "CANCELED", !.pilot[p].inFlight = Less(@, 1)]
  PROVE  PoolSound(r) /\ Later(q, r) /\ Made(r) = Made(q)
<1>0. /\ q \in Pool /\ q.pilot \in [Pilots -> PilotRec] /\ q.task \in [Objects -> TaskRec] /\ n \in Objects
      /\ q.pilot[p] \in PilotRec /\ q.pilot[p].inFlight \in 0..Capacity
  BY PoolParts DEF PoolSound, Made
<1>1. PICK k \in 0..Capacity : k = Less(q.pilot[p].inFlight, 1)
  BY <1>0, LessFacts
<1>2. PICK x \in PilotRec : x = [q.pilot[p] EXCEPT !.inFlight = k] /\ x.state = q.pilot[p].state
  <2>1. PICK z \in PilotRec : z = q.pilot[p]
    BY <1>0
  <2>2. [z EXCEPT !.inFlight = k] \in PilotRec /\ [z EXCEPT !.inFlight = k].state = z.state
    BY DEF PilotRec
  <2> QED  BY <2>1, <2>2
<1>3. q.task[n] \in TaskRec /\ RecordSound(q.task[n])
  BY <1>0 DEF PoolSound
<1>4. PICK y \in TaskRec : /\ y = [q.task[n] EXCEPT !.state = "CANCELED"] /\ y.state = "CANCELED"
                           /\ RecordSound(y)
  <2>1. "CANCELED" \in Terminal
    BY DEF Terminal
  <2>2. [q.task[n] EXCEPT !.state = "CANCELED"] \in TaskRec
    BY <1>3, <2>1 DEF TaskRec
  <2> QED  BY <1>3, <2>1, <2>2, RecordEnds
<1> DEFINE PP == [q.pilot EXCEPT ![p] = x]
           TT == [q.task EXCEPT ![n] = y]
<1>5. /\ r.cur = q.cur /\ r.pilot = PP /\ r.task = TT
      /\ r = [pilot |-> PP, task |-> TT, cur |-> q.cur]
  <2>1. r.pilot = [q.pilot EXCEPT ![p].inFlight = k] /\ r.task = [q.task EXCEPT ![n].state = "CANCELED"]
        /\ r.cur = q.cur /\ r = [pilot |-> r.pilot, task |-> r.task, cur |-> r.cur]
    BY <1>0, <1>1 DEF Pool
  <2>2. PP = [q.pilot EXCEPT ![p].inFlight = k]
    BY <1>0, <1>2
  <2>3. TT = [q.task EXCEPT ![n].state = "CANCELED"]
    BY <1>0, <1>4
  <2> HIDE DEF PP, TT
  <2> QED  BY <2>1, <2>2, <2>3
<1>6. /\ PP \in [Pilots -> PilotRec] /\ \A z \in Pilots : PP[z].state = q.pilot[z].state
      /\ TT \in [Objects -> TaskRec] /\ TT[n] = y /\ \A o \in Objects \ {n} : TT[o] = q.task[o]
  BY <1>0, <1>2
<1> HIDE DEF PP, TT
<1>7. r \in Pool
  BY <1>0, <1>5, <1>6, PoolParts DEF Pool
<1>8. ASSUME NEW o \in Objects
      PROVE  /\ RecordSound(r.task[o])
             /\ Ended(q, o) => Ended(r, o)
             /\ o \notin Made(q) => r.task[o].state = q.task[o].state
  <2>1. CASE o = n
    BY <1>4, <1>5, <1>6, <2>1 DEF Ended, Terminal
  <2>2. CASE o # n
    BY <1>5, <1>6, <2>2 DEF Ended, PoolSound
  <2> QED  BY <2>1, <2>2
<1>9. ASSUME NEW o \in Current(q), r.task[o].state = "RUNNING"
      PROVE  r.task[o].pilot \in Pilots /\ r.pilot[r.task[o].pilot].state = "ACTIVE"
  <2>1. o \in Objects /\ o # n
    BY <1>4, <1>5, <1>6, <1>9 DEF Current
  <2>2. r.task[o] = q.task[o]
    BY <1>5, <1>6, <2>1
  <2>3. q.task[o].pilot \in Pilots /\ q.pilot[q.task[o].pilot].state = "ACTIVE"
    BY <1>9, <2>2 DEF PoolSound, OnLivePilots
  <2> QED  BY <1>5, <1>6, <2>2, <2>3
<1>10. r.cur = q.cur
  BY <1>5
<1> QED  BY ONLY PoolSound(q), <1>7, <1>8, <1>9, <1>10, ChangedSound

-----------------------------------------------------------------------------
(* _drain_pending. *)

SubmitRec == [objs: SUBSET Objects, pilot: Pilots, pc: {"prepare", "submit", "sent"}]

\* A drain of a sound pool: it is sound after it, what is saved is what was
\* given or the new pool, and without a scheduled save nothing is unsaved.
LEMMA DrainFacts ==
  ASSUME NEW q, PoolSound(q), NEW d, NEW subs, NEW drt \in BOOLEAN, Drain(q, d, subs, drt)
  PROVE  /\ PoolSound(pool') /\ Later(q, pool') /\ Made(pool') = Made(q)
         /\ dirty' \in BOOLEAN /\ (drt => dirty') /\ disk' \in {d, pool'}
         /\ ~dirty' => disk' = pool' \/ (disk' = d /\ pool' = q)
         /\ \A j \in submits' : j \in subs \/ (j \in SubmitRec /\ j.objs \subseteq Made(q))
<1>0. q \in Pool /\ Queued(q) \subseteq Made(q) /\ Made(q) \subseteq Objects
  BY CurrentMade DEF PoolSound
<1>1. PICK F \in SUBSET Queued(q) :
        /\ dirty' = (drt \/ F # {})
        /\ \E a \in Claims(EndTasks(q, F, "FAILED")) :
             /\ pool' = Claimed(EndTasks(q, F, "FAILED"), a)
             /\ disk' = IF DOMAIN a = {} THEN d ELSE pool'
             /\ submits' = subs \cup {[objs |-> Share(a, p), pilot |-> p, pc |-> "prepare"] :
                                        p \in {a[o] : o \in DOMAIN a}}
  BY Zenon DEF Drain
<1>2. PICK q1 : q1 = EndTasks(q, F, "FAILED")
  OBVIOUS
<1>3. PICK a \in Claims(q1) :
        /\ pool' = Claimed(q1, a)
        /\ disk' = IF DOMAIN a = {} THEN d ELSE pool'
        /\ submits' = subs \cup {[objs |-> Share(a, p), pilot |-> p, pc |-> "prepare"] :
                                   p \in {a[o] : o \in DOMAIN a}}
  BY <1>1, <1>2
<1>4. F \subseteq Made(q) /\ "FAILED" \in Terminal
  BY <1>0 DEF Terminal
<1>5. PoolSound(q1) /\ Later(q, q1) /\ Made(q1) = Made(q)
  BY <1>2, <1>4, EndTasksSound
<1>6. F = {} => q1 = q
  BY <1>0, <1>2, <1>4, EndTasksIs
<1>7. /\ PoolSound(Claimed(q1, a)) /\ Later(q1, Claimed(q1, a))
      /\ Made(Claimed(q1, a)) = Made(q1)
      /\ DOMAIN a = {} => Claimed(q1, a) = q1
      /\ DOMAIN a \subseteq Made(q1) /\ \A o \in DOMAIN a : a[o] \in Pilots
  BY <1>5, ClaimedSound
<1>8. PoolSound(pool') /\ Later(q, pool') /\ Made(pool') = Made(q)
  <2>1. Later(q1, pool')
    BY <1>3, <1>7
  <2>2. Later(q, pool')
    BY <1>5, <2>1, LaterFacts
  <2> QED  BY <1>3, <1>5, <1>7, <2>2
<1>9. dirty' \in BOOLEAN /\ (drt => dirty')
  BY <1>1
<1>10. disk' \in {d, pool'}
  BY <1>3
<1>11. ASSUME ~dirty'
       PROVE  disk' = pool' \/ (disk' = d /\ pool' = q)
  <2>1. F = {}
    BY <1>1, <1>11
  <2>2. q1 = q
    BY <1>6, <2>1
  <2> QED  BY <1>3, <1>7, <2>2
<1>12. ASSUME NEW j \in submits'
       PROVE  j \in subs \/ (j \in SubmitRec /\ j.objs \subseteq Made(q))
  <2> SUFFICES ASSUME j \notin subs PROVE j \in SubmitRec /\ j.objs \subseteq Made(q)
    OBVIOUS
  <2>1. PICK o \in DOMAIN a : j = [objs |-> Share(a, a[o]), pilot |-> a[o], pc |-> "prepare"]
    BY <1>3, <1>12
  <2>2. Share(a, a[o]) \subseteq Made(q) /\ a[o] \in Pilots
    BY <1>5, <1>7 DEF Share
  <2> QED  BY <1>0, <2>1, <2>2 DEF SubmitRec
<1> QED  BY <1>8, <1>9, <1>10, <1>11, <1>12

-----------------------------------------------------------------------------
(* Every step keeps the invariant. *)

\* A pool that comes later, and what was saved of it on the way.
LEMMA EndsKept ==
  ASSUME DiskBehind, Later(pool, pool'),
         \/ disk' = disk
         \/ Later(pool, disk') /\ Later(disk', pool')
  PROVE  DiskBehind' /\ StaysEnded
<1>1. ASSUME NEW o \in Objects
      PROVE  /\ Ended(disk, o) => Ended(disk', o)
             /\ Ended(pool, o) => Ended(pool', o)
             /\ Ended(disk', o) => Ended(pool', o)
  BY DEF DiskBehind, Later
<1> QED  BY <1>1 DEF DiskBehind, StaysEnded

\* Coroutines know records of the later pool.
LEMMA WaitersKept ==
  ASSUME TypeOK, WaitersSound, PoolSound(pool'), Later(pool, pool'),
         \A t \in uidMap' : t \in uidMap \/ (t \in Tasks /\ pool'.cur[t] # 0),
         \A j \in submits' : j \in submits \/ j.objs \subseteq Made(pool'),
         \A c \in cancels' : c \in cancels \/ c.obj \in Made(pool')
  PROVE  WaitersSound'
<1>0. Made(pool) \subseteq Made(pool')
  BY DEF Later
<1>1. ASSUME NEW t \in uidMap
      PROVE  pool'.cur[t] # 0
  <2>1. t \in Tasks /\ pool.cur[t] # 0 /\ pool.cur[t] \in 0..MaxTries
    BY PoolParts DEF TypeOK, WaitersSound
  <2>2. pool'.cur[t] \in 0..MaxTries
    BY <2>1, PoolParts DEF PoolSound
  <2>3. <<t, 1>> \in Made(pool)
    BY <2>1 DEF Made, Objects
  <2>4. <<t, 1>> \in Made(pool')
    BY <1>0, <2>3
  <2> QED  BY <2>2, <2>4 DEF Made
<1>2. \A t \in uidMap' : pool'.cur[t] # 0
  BY <1>1
<1>3. \A j \in submits' : j.objs \subseteq Made(pool')
  BY <1>0 DEF WaitersSound
<1>4. \A c \in cancels' : c.obj \in Made(pool')
  BY <1>0 DEF WaitersSound
<1> QED  BY <1>2, <1>3, <1>4 DEF WaitersSound

\* A step from a sound pool to a later one.
LEMMA StepSound ==
  ASSUME IndInv, PoolSound(pool'), Later(pool, pool'), PoolSound(disk'),
         \/ disk' = disk
         \/ Later(pool, disk') /\ Later(disk', pool'),
         dirty' \in BOOLEAN, LedgerLags',
         \A t \in uidMap' : t \in uidMap \/ (t \in Tasks /\ pool'.cur[t] # 0),
         \A j \in submits' : j \in submits \/ (j \in SubmitRec /\ j.objs \subseteq Made(pool')),
         \A c \in cancels' : c \in cancels \/ (c \in Execution /\ c.obj \in Made(pool')),
         execs' \subseteq Execution, events' \subseteq [exec: Execution, outcome: Outcomes],
         doomed' \subseteq Pilots
  PROVE  IndInv' /\ StaysEnded
<1>0. TypeOK /\ WaitersSound /\ DiskBehind
  BY DEF IndInv
<1>1. DiskBehind' /\ StaysEnded
  BY <1>0, EndsKept
<1>2. WaitersSound'
  BY <1>0, WaitersKept
<1>3. uidMap' \subseteq Tasks /\ submits' \subseteq SubmitRec /\ cancels' \subseteq Execution
  BY <1>0 DEF TypeOK, SubmitRec
<1>4. TypeOK'
  BY <1>3 DEF TypeOK, PoolSound, SubmitRec
<1> QED  BY <1>1, <1>2, <1>4 DEF IndInv

\* A step that ends with a drain of q.
LEMMA DrainInv ==
  ASSUME IndInv, NEW q, PoolSound(q), Later(pool, q), NEW d, d = disk \/ d = q,
         NEW drt \in BOOLEAN, Drain(q, d, submits, drt), ~drt => Visible(d) = Visible(q),
         uidMap' \subseteq uidMap, cancels' = cancels, execs' \subseteq execs,
         events' \subseteq events, doomed' \subseteq doomed
  PROVE  IndInv' /\ StaysEnded
<1>0. TypeOK /\ PoolSound(disk) /\ WaitersSound
  BY DEF IndInv
<1>1. /\ PoolSound(pool') /\ Later(q, pool') /\ Made(pool') = Made(q)
      /\ dirty' \in BOOLEAN /\ (drt => dirty') /\ disk' \in {d, pool'}
      /\ ~dirty' => disk' = pool' \/ (disk' = d /\ pool' = q)
      /\ \A j \in submits' : j \in submits \/ (j \in SubmitRec /\ j.objs \subseteq Made(q))
  BY DrainFacts
<1>2. Later(pool, pool') /\ Later(pool', pool')
  BY <1>1, LaterFacts
<1>3. \/ disk' = disk
      \/ Later(pool, disk') /\ Later(disk', pool')
  BY <1>1, <1>2
<1>4. PoolSound(disk')
  BY <1>0, <1>1
<1>5. LedgerLags'
  <2> SUFFICES ASSUME ~dirty' PROVE Visible(disk') = Visible(pool')
    BY DEF LedgerLags
  <2>1. CASE disk' = pool'
    BY <2>1
  <2>2. CASE disk' = d /\ pool' = q
    BY <1>1, <2>2
  <2> QED  BY <1>1, <2>1, <2>2
<1>6. \A t \in uidMap' : t \in uidMap \/ (t \in Tasks /\ pool'.cur[t] # 0)
  OBVIOUS
<1>7. \A j \in submits' : j \in submits \/ (j \in SubmitRec /\ j.objs \subseteq Made(pool'))
  BY <1>1
<1>8. \A c \in cancels' : c \in cancels \/ (c \in Execution /\ c.obj \in Made(pool'))
  OBVIOUS
<1>9. execs' \subseteq Execution /\ events' \subseteq [exec: Execution, outcome: Outcomes] /\ doomed' \subseteq Pilots
  BY <1>0 DEF TypeOK
<1> QED  BY <1>1, <1>2, <1>3, <1>4, <1>5, <1>6, <1>7, <1>8, <1>9, StepSound

\* Clients submit.
LEMMA SubmitInv ==
  ASSUME IndInv, NEW t \in Tasks, Submit(t)
  PROVE  IndInv' /\ StaysEnded
<1>1. PICK k : k = pool.cur[t] + 1
  OBVIOUS
<1>2. PICK q : q = [pool EXCEPT !.cur[t] = k, !.task[<<t, k>>].state = "QUEUED"]
  OBVIOUS
<1>3. /\ k <= MaxTries /\ Drain(q, q, submits, dirty)
      /\ UNCHANGED <<uidMap, cancels, remote, doomed>>
  BY <1>1, <1>2 DEF Submit
<1>4. PoolSound(q) /\ Later(pool, q)
  BY <1>1, <1>2, <1>3, SubmittedSound DEF IndInv
<1>5. dirty \in BOOLEAN /\ execs' \subseteq execs /\ events' \subseteq events
  BY <1>3 DEF IndInv, TypeOK, remote
<1> HIDE <1>2
<1> QED  BY <1>3, <1>4, <1>5, DrainInv

\* Housekeeping drains the pool as it is.
LEMMA TickInv ==
  ASSUME IndInv, Tick
  PROVE  IndInv' /\ StaysEnded
<1>1. PoolSound(pool) /\ dirty \in BOOLEAN /\ LedgerLags
  BY DEF IndInv, TypeOK
<1>2. PICK q, d : q = pool /\ d = disk
  OBVIOUS
<1>3. PoolSound(q) /\ Later(pool, q) /\ (~dirty => Visible(d) = Visible(q))
  BY <1>1, <1>2, LaterFacts DEF LedgerLags
<1>4. Drain(q, d, submits, dirty) /\ UNCHANGED <<uidMap, cancels, remote, doomed>>
  BY <1>2 DEF Tick
<1>5. execs' \subseteq execs /\ events' \subseteq events
  BY <1>4 DEF remote
<1> QED  BY <1>1, <1>2, <1>3, <1>4, <1>5, DrainInv

\* A pilot becomes active, or is resumed.
LEMMA ActivateInv ==
  ASSUME IndInv, NEW p \in Pilots, Activate(p) \/ Present(p)
  PROVE  IndInv' /\ StaysEnded
<1>0. PoolSound(pool) /\ pool \in Pool /\ dirty \in BOOLEAN
  BY DEF IndInv, TypeOK
<1>1. PICK q : /\ PoolSound(q) /\ Later(pool, q)
               /\ Drain(q, q, submits, dirty) /\ UNCHANGED <<uidMap, cancels, remote, doomed>>
  <2>1. CASE Activate(p)
    <3>1. PICK q : q = [pool EXCEPT !.pilot[p].state = "ACTIVE"]
      OBVIOUS
    <3>2. /\ q \in Pool /\ q.task = pool.task /\ q.cur = pool.cur
          /\ \A x \in Pilots : q.pilot[x].state \in {pool.pilot[x].state, "ACTIVE"}
      BY <1>0, <3>1, PilotChanges
    <3>3. PoolSound(q) /\ Later(pool, q)
      BY <1>0, <3>2, PilotSound
    <3> QED  BY <2>1, <3>1, <3>3 DEF Activate
  <2>2. CASE Present(p)
    <3>1. PICK q : q = [pool EXCEPT !.pilot[p].accepting = TRUE]
      OBVIOUS
    <3>2. /\ q \in Pool /\ q.task = pool.task /\ q.cur = pool.cur
          /\ \A x \in Pilots : q.pilot[x].state = pool.pilot[x].state
      BY <1>0, <3>1, PilotChanges
    <3>3. PoolSound(q) /\ Later(pool, q)
      BY <1>0, <3>2, PilotSound
    <3> QED  BY <2>2, <3>1, <3>3 DEF Present
  <2> QED  BY <2>1, <2>2
<1>2. execs' \subseteq execs /\ events' \subseteq events
  BY <1>1 DEF remote
<1> QED  BY <1>0, <1>1, <1>2, DrainInv

\* A pilot is lost.
LEMMA LostPilotInv ==
  ASSUME IndInv, NEW p \in Pilots, LostPilot(p)
  PROVE  IndInv' /\ StaysEnded
<1>1. PICK q : q = Finalized(pool, p)
  OBVIOUS
<1>2. PICK drt \in BOOLEAN : drt = (dirty \/ GivenUp(pool, p) # {})
  OBVIOUS
<1>3. /\ Drain(q, q, submits, drt) /\ uidMap' \subseteq uidMap /\ execs' \subseteq execs
      /\ UNCHANGED <<cancels, events, doomed>>
  BY <1>1, <1>2 DEF LostPilot
<1>4. PoolSound(q) /\ Later(pool, q)
  BY <1>1, FinalizedSound DEF IndInv
<1> QED  BY <1>3, <1>4, DrainInv

\* A member is gone.
LEMMA MemberRemovedInv ==
  ASSUME IndInv, NEW p \in Pilots, MemberRemoved(p)
  PROVE  IndInv' /\ StaysEnded
<1>1. PICK q1 : q1 = Finalized(pool, p)
  OBVIOUS
<1>2. PoolSound(q1) /\ Later(pool, q1)
  BY <1>1, FinalizedSound DEF IndInv
<1>3. PICK U \in SUBSET Queued(q1) :
        Drain(EndTasks(q1, U, "FAILED"), EndTasks(q1, U, "FAILED"), submits,
              dirty \/ GivenUp(pool, p) \cup U # {})
  BY <1>1, Zenon DEF MemberRemoved
<1>4. PICK q : q = EndTasks(q1, U, "FAILED")
  OBVIOUS
<1>5. PICK drt \in BOOLEAN : drt = (dirty \/ GivenUp(pool, p) \cup U # {})
  OBVIOUS
<1>6. Drain(q, q, submits, drt)
  BY <1>3, <1>4, <1>5
<1>7. PoolSound(q) /\ Later(q1, q)
  <2>1. U \subseteq Made(q1) /\ "FAILED" \in Terminal
    BY <1>2, CurrentMade DEF PoolSound, Terminal
  <2> QED  BY <1>2, <1>4, <2>1, EndTasksSound
<1>8. Later(pool, q)
  BY <1>2, <1>7, LaterFacts
<1>9. /\ uidMap' \subseteq uidMap /\ execs' \subseteq execs /\ doomed' \subseteq doomed
      /\ cancels' = cancels /\ events' \subseteq events
  BY DEF MemberRemoved
<1> QED  BY <1>6, <1>7, <1>8, <1>9, DrainInv

\* A step that leaves the pool, what is saved of it and the uids alone.
LEMMA PoolKept ==
  ASSUME IndInv, UNCHANGED <<pool, disk>>, dirty' \in {dirty, TRUE}, uidMap' \subseteq uidMap,
         \A j \in submits' : j \in submits \/ (j \in SubmitRec /\ j.objs \subseteq Made(pool')),
         \A c \in cancels' : c \in cancels \/ (c \in Execution /\ c.obj \in Made(pool')),
         execs' \subseteq Execution, events' \subseteq [exec: Execution, outcome: Outcomes],
         doomed' \subseteq Pilots
  PROVE  IndInv' /\ StaysEnded
<1>0. TypeOK /\ PoolSound(pool) /\ PoolSound(disk) /\ LedgerLags
  BY DEF IndInv
<1>1. PoolSound(pool') /\ PoolSound(disk') /\ Later(pool, pool')
  BY <1>0, LaterFacts
<1>2. dirty' \in BOOLEAN /\ LedgerLags'
  BY <1>0 DEF TypeOK, LedgerLags
<1>3. \A t \in uidMap' : t \in uidMap \/ (t \in Tasks /\ pool'.cur[t] # 0)
  OBVIOUS
<1> QED  BY <1>1, <1>2, <1>3, StepSound

\* The tap gets a terminal event.
LEMMA HandleTerminalInv ==
  ASSUME IndInv, NEW e \in events, HandleTerminal(e)
  PROVE  IndInv' /\ StaysEnded
<1>0. TypeOK /\ PoolSound(pool) /\ WaitersSound
  BY DEF IndInv
<1>1. PICK t \in Tasks : t = e.exec.obj[1]
  BY <1>0 DEF TypeOK, Execution, Objects
<1>2. /\ uidMap' \subseteq uidMap /\ events' \subseteq events /\ UNCHANGED <<cancels, execs, doomed>>
  BY DEF HandleTerminal
<1>3. CASE UNCHANGED <<pool, disk, dirty, submits>>
  BY <1>0, <1>2, <1>3, PoolKept DEF TypeOK
<1>4. CASE /\ t \in uidMap
           /\ Drain(EndTasks(pool, {Record(pool, t)}, e.outcome), disk, submits, TRUE)
  <2>1. Record(pool, t) \in Made(pool)
    <3>1. pool.cur[t] \in 0..MaxTries /\ pool.cur[t] # 0
      BY <1>0, <1>4, PoolParts DEF PoolSound, WaitersSound
    <3> QED  BY <3>1 DEF Record, Made, Objects
  <2>2. e.outcome \in Terminal
    BY <1>0 DEF TypeOK
  <2>3. PICK q, d : q = EndTasks(pool, {Record(pool, t)}, e.outcome) /\ d = disk
    OBVIOUS
  <2>4. PoolSound(q) /\ Later(pool, q)
    BY <1>0, <2>1, <2>2, <2>3, EndTasksSound
  <2>5. Drain(q, d, submits, TRUE)
    BY <1>4, <2>3
  <2> QED  BY <1>2, <2>3, <2>4, <2>5, DrainInv
<1> QED  BY <1>1, <1>3, <1>4 DEF HandleTerminal

\* A client cancels.
LEMMA CancelInv ==
  ASSUME IndInv, NEW t \in Tasks, Cancel(t)
  PROVE  IndInv' /\ StaysEnded
<1>0. TypeOK /\ PoolSound(pool) /\ PoolSound(disk) /\ pool \in Pool
  BY DEF IndInv, TypeOK
<1>1. PICK o : o = Record(pool, t)
  OBVIOUS
<1>2. o \in Current(pool) /\ o \in Made(pool) /\ o \in Objects
  <2>1. pool.cur[t] \in 0..MaxTries /\ pool.cur[t] # 0
    BY <1>0, PoolParts DEF Cancel
  <2>2. o \in Current(pool)
    BY <1>1, <2>1 DEF Record, Current, Objects
  <2> QED  BY <1>0, <2>2, CurrentMade
<1>3. UNCHANGED <<disk, uidMap, submits, remote, doomed>>
  BY DEF Cancel
<1>4. /\ execs' \subseteq Execution /\ events' \subseteq [exec: Execution, outcome: Outcomes]
      /\ doomed' \subseteq Pilots
  BY <1>0, <1>3 DEF TypeOK, remote
<1>5. CASE pool' = EndTasks(pool, {o}, "CANCELED") /\ dirty' = TRUE /\ cancels' = cancels
  <2>1. PoolSound(pool') /\ Later(pool, pool')
    BY <1>0, <1>2, <1>5, EndTasksSound DEF Terminal
  <2>2. PoolSound(disk') /\ disk' = disk /\ LedgerLags'
    BY <1>0, <1>3, <1>5 DEF LedgerLags
  <2> QED  BY <1>3, <1>4, <1>5, <2>1, <2>2, StepSound
<1>6. CASE /\ pool.task[o].state = "RUNNING" /\ UNCHANGED <<pool, dirty>>
           /\ cancels' = cancels \cup {[obj |-> o, pilot |-> pool.task[o].pilot]}
  <2>1. pool.task[o].pilot \in Pilots
    BY <1>0, <1>2, <1>6 DEF PoolSound, OnLivePilots
  <2>2. \A c \in cancels' : c \in cancels \/ (c \in Execution /\ c.obj \in Made(pool'))
    BY <1>2, <1>6, <2>1 DEF Execution
  <2> QED  BY <1>3, <1>4, <1>6, <2>2, PoolKept
<1> QED  BY <1>1, <1>5, <1>6 DEF Cancel

\* rhapsody answered a cancellation.
LEMMA CancelReturnsInv ==
  ASSUME IndInv, NEW c \in cancels, CancelReturns(c)
  PROVE  IndInv' /\ StaysEnded
<1>0. TypeOK /\ PoolSound(pool) /\ PoolSound(disk) /\ WaitersSound
  BY DEF IndInv
<1>1. c.obj \in Made(pool) /\ c.pilot \in Pilots
  BY <1>0 DEF TypeOK, WaitersSound, Execution
<1>2. PICK n \in Made(pool), p \in Pilots : n = c.obj /\ p = c.pilot
  BY <1>1
<1>3. /\ pool' = [pool EXCEPT !.task[n].state = "CANCELED", !.pilot[p].inFlight = Less(@, 1)]
      /\ dirty' = TRUE /\ cancels' \subseteq cancels
      /\ UNCHANGED <<disk, uidMap, submits, remote, doomed>>
  BY <1>2 DEF CancelReturns
<1>4. PoolSound(pool') /\ Later(pool, pool')
  BY <1>0, <1>3, CanceledSound
<1>5. PoolSound(disk') /\ disk' = disk /\ LedgerLags' /\ dirty' \in BOOLEAN
  BY <1>0, <1>3 DEF LedgerLags
<1>6. /\ execs' \subseteq Execution /\ events' \subseteq [exec: Execution, outcome: Outcomes]
      /\ doomed' \subseteq Pilots /\ uidMap' = uidMap /\ submits' = submits /\ cancels' \subseteq cancels
  BY <1>0, <1>3 DEF TypeOK, remote
<1> HIDE <1>3
<1> QED  BY <1>4, <1>5, <1>6, StepSound

\* What a submission knows of its records.
LEMMA SubmissionFacts ==
  ASSUME IndInv, NEW j \in submits
  PROVE  j \in SubmitRec /\ j.objs \subseteq Made(pool) /\ j.objs \subseteq Objects /\ j.pilot \in Pilots
BY DEF IndInv, TypeOK, WaitersSound, SubmitRec

\* What was made has a current record.
LEMMA MadeHasCurrent ==
  ASSUME NEW q \in Pool, NEW o \in Made(q)
  PROVE  o[1] \in Tasks /\ q.cur[o[1]] # 0
<1>1. o[1] \in Tasks /\ o[2] \in 1..MaxTries /\ o[2] <= q.cur[o[1]]
  BY DEF Made, Objects
<1>2. q.cur[o[1]] \in 0..MaxTries
  BY <1>1, PoolParts
<1> QED  BY <1>1, <1>2

\* The records of a submission are prepared, or fail.
LEMMA PrepareInv ==
  ASSUME IndInv, NEW j \in submits, NEW F \in SUBSET j.objs, Prepare(j, F)
  PROVE  IndInv' /\ StaysEnded
<1>0. TypeOK /\ PoolSound(pool) /\ PoolSound(disk) /\ LedgerLags /\ "FAILED" \in Terminal
  BY DEF IndInv, Terminal
<1>1. j \in SubmitRec /\ j.objs \subseteq Made(pool) /\ j.objs \subseteq Objects
  BY SubmissionFacts
<1>2. PICK rest : rest = j.objs \ F
  OBVIOUS
<1>3. PICK q : q = EndTasks(pool, F, "FAILED")
  OBVIOUS
<1>4. PoolSound(q) /\ Later(pool, q) /\ Made(q) = Made(pool) /\ (F = {} => q = pool)
  <2>1. PoolSound(q) /\ Later(pool, q) /\ Made(q) = Made(pool)
    BY <1>0, <1>1, <1>3, EndTasksSound
  <2>2. F = {} => q = pool
    BY <1>0, <1>1, <1>3, EndTasksIs DEF PoolSound
  <2> QED  BY <2>1, <2>2
<1>5. /\ pool' = [q EXCEPT !.task = [o \in Objects |->
                     IF o \in rest THEN [q.task[o] EXCEPT !.uid = TRUE] ELSE q.task[o]]]
      /\ dirty' = (dirty \/ F # {})
      /\ uidMap' = uidMap \cup {o[1] : o \in rest}
      /\ submits' = (submits \ {j}) \cup {i \in {[j EXCEPT !.objs = rest, !.pc = "submit"]} : rest # {}}
      /\ UNCHANGED <<disk, cancels, remote, doomed>>
  BY <1>2, <1>3 DEF Prepare
<1>6. PoolSound(pool') /\ Later(q, pool') /\ Made(pool') = Made(q) /\ Visible(pool') = Visible(q)
  <2>1. pool' = SetUids(q, rest, TRUE)
    BY <1>5 DEF SetUids
  <2> QED  BY <1>4, <2>1, UidsSound
<1>7. Later(pool, pool') /\ Made(pool') = Made(pool)
  BY <1>4, <1>6, LaterFacts
<1>8. PoolSound(disk') /\ disk' = disk /\ dirty' \in BOOLEAN
  BY <1>0, <1>5
<1>9. LedgerLags'
  <2> SUFFICES ASSUME ~dirty' PROVE Visible(disk') = Visible(pool')
    BY DEF LedgerLags
  <2>1. ~dirty /\ F = {}
    BY <1>0, <1>5 DEF TypeOK
  <2> QED  BY <1>0, <1>4, <1>6, <1>8, <2>1 DEF LedgerLags
<1>10. \A t \in uidMap' : t \in uidMap \/ (t \in Tasks /\ pool'.cur[t] # 0)
  <2> SUFFICES ASSUME NEW o \in rest
               PROVE  o[1] \in Tasks /\ pool'.cur[o[1]] # 0
    BY <1>5
  <2> QED  BY <1>1, <1>2, <1>6, <1>7, MadeHasCurrent DEF PoolSound
<1>11. \A i \in submits' : i \in submits \/ (i \in SubmitRec /\ i.objs \subseteq Made(pool'))
  <2>1. [j EXCEPT !.objs = rest, !.pc = "submit"] \in SubmitRec /\ [j EXCEPT !.objs = rest, !.pc = "submit"].objs = rest
    BY <1>1, <1>2 DEF SubmitRec
  <2> QED  BY <1>1, <1>2, <1>5, <1>7, <2>1
<1>12. /\ execs' \subseteq Execution /\ events' \subseteq [exec: Execution, outcome: Outcomes]
       /\ doomed' \subseteq Pilots /\ cancels' = cancels
  BY <1>0, <1>5 DEF TypeOK, remote
<1> HIDE <1>5
<1> QED  BY <1>6, <1>7, <1>8, <1>9, <1>10, <1>11, <1>12, StepSound

\* The pilot's rhapsody takes the tasks; its answer comes.
LEMMA AcceptedInv ==
  ASSUME IndInv, NEW j \in submits, Accepted(j) \/ SubmitReturns(j)
  PROVE  IndInv' /\ StaysEnded
<1>0. TypeOK
  BY DEF IndInv
<1>1. j \in SubmitRec /\ j.objs \subseteq Made(pool) /\ j.objs \subseteq Objects /\ j.pilot \in Pilots
  BY SubmissionFacts
<1>2. /\ UNCHANGED <<pool, disk, uidMap, cancels, events, doomed>> /\ dirty' \in {dirty, TRUE}
      /\ execs' \subseteq execs \cup {[obj |-> o, pilot |-> j.pilot] : o \in j.objs}
      /\ submits' \subseteq submits \cup {[j EXCEPT !.pc = "sent"]}
  BY DEF Accepted, SubmitReturns, remote
<1>3. execs' \subseteq Execution
  BY <1>0, <1>1, <1>2 DEF TypeOK, Execution
<1>4. [j EXCEPT !.pc = "sent"] \in SubmitRec /\ [j EXCEPT !.pc = "sent"].objs = j.objs
  BY <1>1 DEF SubmitRec
<1>5. \A i \in submits' : i \in submits \/ (i \in SubmitRec /\ i.objs \subseteq Made(pool'))
  BY <1>1, <1>2, <1>4
<1>6. events' \subseteq [exec: Execution, outcome: Outcomes] /\ doomed' \subseteq Pilots
  BY <1>0, <1>2 DEF TypeOK
<1> QED  BY <1>2, <1>3, <1>5, <1>6, PoolKept

\* The call raises.
LEMMA SubmitRaisesInv ==
  ASSUME IndInv, NEW j \in submits, SubmitRaises(j)
  PROVE  IndInv' /\ StaysEnded
<1>0. TypeOK /\ PoolSound(pool) /\ PoolSound(disk) /\ LedgerLags /\ "FAILED" \in Terminal
  BY DEF IndInv, Terminal
<1>1. j.objs \subseteq Made(pool) /\ j.objs \subseteq Objects
  BY SubmissionFacts
<1>2. PICK S : S = {o \in j.objs : ~Ended(pool, o)}
  OBVIOUS
<1>3. PICK q : q = EndTasks(pool, S, "FAILED")
  OBVIOUS
<1>4. PoolSound(q) /\ Later(pool, q) /\ Made(q) = Made(pool) /\ (S = {} => q = pool)
  <2>0. S \subseteq Made(pool) /\ S \subseteq Objects
    BY <1>1, <1>2
  <2>1. PoolSound(q) /\ Later(pool, q) /\ Made(q) = Made(pool)
    BY <1>0, <1>3, <2>0, EndTasksSound
  <2>2. S = {} => q = pool
    <3>1. pool \in Pool
      BY <1>0 DEF PoolSound
    <3> QED  BY <1>0, <1>3, <2>0, <3>1, EndTasksIs
  <2> QED  BY <2>1, <2>2
<1>5. /\ pool' = [q EXCEPT !.task = [o \in Objects |->
                     IF o \in S THEN [q.task[o] EXCEPT !.uid = FALSE] ELSE q.task[o]]]
      /\ dirty' = (dirty \/ S # {}) /\ uidMap' \subseteq uidMap /\ submits' \subseteq submits
      /\ UNCHANGED <<disk, cancels, remote, doomed>>
  BY <1>2, <1>3 DEF SubmitRaises
<1>6. PoolSound(pool') /\ Later(q, pool') /\ Made(pool') = Made(q) /\ Visible(pool') = Visible(q)
  <2>1. pool' = SetUids(q, S, FALSE)
    BY <1>5 DEF SetUids
  <2> QED  BY <1>4, <2>1, UidsSound
<1>7. Later(pool, pool')
  BY <1>4, <1>6, LaterFacts
<1>8. PoolSound(disk') /\ disk' = disk /\ dirty' \in BOOLEAN
  BY <1>0, <1>5
<1>9. LedgerLags'
  <2> SUFFICES ASSUME ~dirty' PROVE Visible(disk') = Visible(pool')
    BY DEF LedgerLags
  <2>1. ~dirty /\ S = {}
    BY <1>0, <1>5 DEF TypeOK
  <2> QED  BY <1>0, <1>4, <1>6, <1>8, <2>1 DEF LedgerLags
<1>10. /\ execs' \subseteq Execution /\ events' \subseteq [exec: Execution, outcome: Outcomes]
       /\ doomed' \subseteq Pilots /\ cancels' = cancels /\ uidMap' \subseteq uidMap /\ submits' \subseteq submits
  BY <1>0, <1>5 DEF TypeOK, remote
<1> HIDE <1>5
<1> QED  BY <1>6, <1>7, <1>8, <1>9, <1>10, StepSound

\* An execution ends.
LEMMA ExecutionEndsInv ==
  ASSUME IndInv, NEW x \in execs, NEW st \in Outcomes, ExecutionEnds(x, st)
  PROVE  IndInv' /\ StaysEnded
<1>0. TypeOK
  BY DEF IndInv
<1>1. /\ UNCHANGED <<pool, disk, dirty, uidMap, submits, cancels, doomed>>
      /\ execs' \subseteq execs /\ events' = events \cup {[exec |-> x, outcome |-> st]}
  BY DEF ExecutionEnds, waiters
<1>2. /\ execs' \subseteq Execution /\ events' \subseteq [exec: Execution, outcome: Outcomes]
      /\ doomed' \subseteq Pilots
  BY <1>0, <1>1 DEF TypeOK
<1> QED  BY <1>1, <1>2, PoolKept

\* A pilot is paused: its endpoint is suspect.
LEMMA SuspectInv ==
  ASSUME IndInv, NEW p \in Pilots, Suspect(p)
  PROVE  IndInv' /\ StaysEnded
<1>0. TypeOK /\ PoolSound(pool) /\ pool \in Pool
  BY DEF IndInv, TypeOK
<1>1. PICK q : q = [pool EXCEPT !.pilot[p].accepting = FALSE]
  OBVIOUS
<1>2. /\ q \in Pool /\ q.task = pool.task /\ q.cur = pool.cur
      /\ \A x \in Pilots : q.pilot[x].state = pool.pilot[x].state
  BY <1>0, <1>1, PilotChanges
<1>3. PoolSound(q) /\ Later(pool, q)
  BY <1>0, <1>2, PilotSound
<1>4. /\ pool' = q /\ disk' = q
      /\ UNCHANGED <<dirty, uidMap, submits, cancels, execs, events, doomed>>
  BY <1>1 DEF Suspect, Save, waiters, remote
<1>5. PoolSound(pool') /\ PoolSound(disk') /\ Later(pool, pool') /\ Later(pool, disk') /\ Later(disk', pool')
  BY <1>3, <1>4, LaterFacts
<1>6. /\ dirty' \in BOOLEAN /\ LedgerLags' /\ uidMap' = uidMap /\ submits' = submits /\ cancels' = cancels
      /\ execs' \subseteq Execution /\ events' \subseteq [exec: Execution, outcome: Outcomes]
      /\ doomed' \subseteq Pilots
  BY <1>0, <1>4 DEF TypeOK, LedgerLags
<1> QED  BY <1>5, <1>6, StepSound

\* The removal of a member begins.
LEMMA RemoveMemberInv ==
  ASSUME IndInv, NEW p \in Pilots, NEW c \in BOOLEAN, RemoveMember(p, c)
  PROVE  IndInv' /\ StaysEnded
<1>0. TypeOK /\ PoolSound(pool) /\ pool \in Pool /\ "FAILED" \in Terminal
  BY DEF IndInv, TypeOK, Terminal
<1>1. PICK q : q = [pool EXCEPT !.pilot[p].accepting = FALSE]
  OBVIOUS
<1>2. /\ q \in Pool /\ q.task = pool.task /\ q.cur = pool.cur
      /\ \A x \in Pilots : q.pilot[x].state = pool.pilot[x].state
  BY <1>0, <1>1, PilotChanges
<1>3. PoolSound(q) /\ Later(pool, q)
  BY <1>0, <1>2, PilotSound
<1>4. PICK S : S = {o \in Reclaimed(q, p) : c}
  OBVIOUS
<1>5. /\ pool' = EndTasks(q, S, "FAILED") /\ disk' = q /\ dirty' = (dirty \/ S # {})
      /\ doomed' = doomed \cup {p} /\ UNCHANGED <<uidMap, submits, cancels, execs, events>>
  BY <1>1, <1>4 DEF RemoveMember, waiters, remote
<1>6. S \subseteq Made(q) /\ S \subseteq Objects
  BY <1>2, <1>4, CurrentMade DEF Reclaimed
<1>7. PoolSound(pool') /\ Later(q, pool')
  BY <1>0, <1>3, <1>5, <1>6, EndTasksSound
<1>8. S = {} => pool' = q
  BY <1>0, <1>2, <1>5, <1>6, EndTasksIs
<1>9. PoolSound(disk') /\ Later(pool, pool') /\ Later(pool, disk') /\ Later(disk', pool')
  BY <1>3, <1>5, <1>7, LaterFacts
<1>10. dirty' \in BOOLEAN /\ LedgerLags'
  BY <1>0, <1>5, <1>8 DEF TypeOK, LedgerLags
<1>11. /\ uidMap' = uidMap /\ submits' = submits /\ cancels' = cancels
       /\ execs' \subseteq Execution /\ events' \subseteq [exec: Execution, outcome: Outcomes]
       /\ doomed' \subseteq Pilots
  BY <1>0, <1>5 DEF TypeOK
<1> QED  BY <1>7, <1>9, <1>10, <1>11, StepSound

\* The coalesced save.
LEMMA FlushInv ==
  ASSUME IndInv, Flush
  PROVE  IndInv' /\ StaysEnded
<1>0. TypeOK /\ PoolSound(pool)
  BY DEF IndInv
<1>1. /\ pool' = pool /\ disk' = pool /\ dirty' = FALSE
      /\ UNCHANGED <<uidMap, submits, cancels, execs, events, doomed>>
  BY DEF Flush, Save, waiters, remote
<1>2. PoolSound(pool') /\ PoolSound(disk') /\ Later(pool, pool') /\ Later(pool, disk') /\ Later(disk', pool')
  BY <1>0, <1>1, LaterFacts
<1>3. /\ dirty' \in BOOLEAN /\ LedgerLags' /\ uidMap' = uidMap /\ submits' = submits /\ cancels' = cancels
      /\ execs' \subseteq Execution /\ events' \subseteq [exec: Execution, outcome: Outcomes]
      /\ doomed' \subseteq Pilots
  BY <1>0, <1>1 DEF TypeOK, LedgerLags
<1> QED  BY <1>2, <1>3, StepSound

\* A crash and a restart from what was saved.
LEMMA RestartInv ==
  ASSUME IndInv, Restart
  PROVE  IndInv' /\ StaysEnded
<1>0. TypeOK /\ PoolSound(disk)
  BY DEF IndInv
<1>1. /\ pool' = disk /\ disk' = disk /\ dirty' = FALSE /\ submits' = {} /\ cancels' = {} /\ doomed' = {}
      /\ UNCHANGED <<execs, events>>
      /\ \A t \in uidMap' : t \in Tasks /\ disk.cur[t] # 0
  BY DEF Restart, remote
<1>2. PoolSound(pool') /\ PoolSound(disk') /\ DiskBehind' /\ LedgerLags' /\ WaitersSound'
  BY <1>0, <1>1 DEF DiskBehind, LedgerLags, WaitersSound
<1>3. TypeOK'
  BY <1>0, <1>1 DEF TypeOK
<1>4. StaysEnded
  BY <1>1 DEF StaysEnded
<1> QED  BY <1>2, <1>3, <1>4 DEF IndInv

\* The empty pool is sound.
LEMMA InitInv == Init => IndInv
<1> SUFFICES ASSUME Init PROVE IndInv
  OBVIOUS
<1>1. PICK q : q = EmptyPool
  OBVIOUS
<1>2. q \in Pool
  BY <1>1 DEF EmptyPool, Pool, PilotRec, TaskRec
<1>3. \A o \in Objects : q.task[o].state = "NONE" /\ q.task[o].claims = 0 /\ q.task[o].requeues = 0
  BY <1>1 DEF EmptyPool
<1>4. PoolSound(q)
  <2>1. \A o \in Objects : RecordSound(q.task[o])
    BY <1>3 DEF RecordSound
  <2>2. OnLivePilots(q)
    BY <1>3 DEF OnLivePilots, Current
  <2> QED  BY <1>2, <1>3, <2>1, <2>2 DEF PoolSound
<1>5. pool = q /\ disk = q
  BY <1>1 DEF Init
<1>6. TypeOK
  BY <1>2, <1>5 DEF Init, TypeOK
<1>7. WaitersSound /\ DiskBehind /\ LedgerLags
  BY <1>5 DEF Init, WaitersSound, DiskBehind, LedgerLags
<1> QED  BY <1>4, <1>5, <1>6, <1>7 DEF IndInv

\* Every step keeps the invariant, and what has ended.
LEMMA StepInv == IndInv /\ [Next]_vars => IndInv' /\ [StaysEnded]_vars
<1> SUFFICES ASSUME IndInv, [Next]_vars PROVE IndInv' /\ [StaysEnded]_vars
  OBVIOUS
<1>1. CASE Clients
  BY <1>1, SubmitInv, CancelInv, CancelReturnsInv DEF Clients
<1>2. CASE Submitting
  BY <1>2, PrepareInv, AcceptedInv, SubmitRaisesInv DEF Submitting
<1>3. CASE Running
  BY <1>3, ExecutionEndsInv, HandleTerminalInv DEF Running
<1>4. CASE Topology
  BY <1>4, ActivateInv, SuspectInv, LostPilotInv, RemoveMemberInv, MemberRemovedInv DEF Topology
<1>5. CASE Tick \/ Flush \/ Restart
  BY <1>5, TickInv, FlushInv, RestartInv
<1>6. CASE UNCHANGED vars
  <2>1. IndInv'
    BY <1>6 DEF vars, IndInv, TypeOK, WaitersSound, DiskBehind, LedgerLags
  <2> QED  BY <1>6, <2>1
<1> QED  BY <1>1, <1>2, <1>3, <1>4, <1>5, <1>6 DEF Next, Work

\* The invariant holds in every state.
LEMMA Invariance == Spec => []IndInv
<1>1. IndInv /\ [Next]_vars => IndInv'
  BY StepInv
<1> QED  BY <1>1, InitInv, PTL DEF Spec

-----------------------------------------------------------------------------
(* The properties. *)

\* Slots and records keep their ranges, and a record is claimed at most once more
\* than it may be queued again, however often pilots are lost, members removed,
\* events late and the broker restarted (in_flight, requeues, _finalize_pilot).
THEOREM ClaimsAreSound == Spec => []ClaimsSound
<1>1. IndInv => ClaimsSound
  BY DEF IndInv, PoolSound, RecordSound, ClaimsSound, ClaimsBounded
<1> QED  BY <1>1, Invariance, PTL

\* A current task that runs is on a pilot that is alive, through losses, removals
\* and restarts (_claim, _finalize_pilot, _materialise_pool).
THEOREM RunsOnLivePilots == Spec => []RunningOnLivePilot
<1>1. IndInv => RunningOnLivePilot
  BY DEF IndInv, PoolSound, RunningOnLivePilot
<1> QED  BY <1>1, Invariance, PTL

\* No change of the pool but of uids is unsaved while no save is scheduled: every
\* handler persists or marks the pool dirty on each of its paths.
THEOREM LedgerIsBehindOnlyWhenDirty == Spec => []LedgerLags
<1>1. IndInv => LedgerLags
  BY DEF IndInv
<1> QED  BY <1>1, Invariance, PTL

\* What has ended never runs again, and after a restart this is so for all that
\* was saved as ended.
THEOREM EndsAreFinal == Spec => EndIsFinal
<1>1. IndInv /\ [Next]_vars => [StaysEnded]_vars
  BY StepInv
<1> QED  BY <1>1, Invariance, PTL DEF Spec, EndIsFinal

-----------------------------------------------------------------------------
(* The parts together, as the runs check them. *)

\* The dispatcher around its queue: tasks start on their own inputs, on a
\* pilot they fit, cached clients and endpoint tasks are accounted for, and
\* nothing told is lost (plugin_task_dispatcher).
THEOREM DispatcherIsSound == TiSpec /\ CcSpec /\ EmSpec /\ TbSpec /\ PlSpec => []DispatcherSound
<1>1. (TiTypeOK /\ SpoolSurvives /\ StartedOnOwn /\ StagesLocally)
      /\ (CcTypeOK /\ SkippedIsPersistent)
      /\ (EmTypeOK /\ UnderWayIsMapped /\ FailedIsForgotten /\ CancelIsAddressed)
      /\ (TbTypeOK /\ BufferedIsArmed /\ ToldIsSaved /\ ShutdownLosesNothing)
      /\ (PlTypeOK /\ QueuedIsServable /\ RunsWhereItFits /\ AskFits) => DispatcherSound
  BY DEF DispatcherSound
<1> QED  BY <1>1, InputsArePlaced, ClientsAreTouched, EndpointTasksAreKnown, NothingToldIsLost,
            PlacementIsSound, PTL
=============================================================================
