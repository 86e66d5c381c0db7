---------------------------- MODULE EventRouter ----------------------------
(***************************************************************************)
(* Live events at the broker (broker_events.py, queues.py): the interest   *)
(* patterns of each subscriber and the index made of them, the numbering   *)
(* of event streams, the drop-oldest delivery queues and their senders.    *)
(*                                                                         *)
(* Handlers of the routing loop run to their next await, so every action   *)
(* up to a sender's blocked send is one step.  A sender's cancellation is  *)
(* one step with what cancels it: the cancelled task runs before the task  *)
(* that replaces it and sends nothing more.                                *)
(***************************************************************************)
EXTENDS Naturals, SequencesExt, FiniteSetsExt

CONSTANTS Names,          \* subscribers
          Endpoints, Plugins, Topics, Sessions,   \* what events are made of
          Patterns,       \* the interest patterns that subscribers send
          None,
          EventQueue,     \* depth of a delivery queue
          SessionSeqMax,  \* size of the session sequence table
          MaxSeq,         \* bound: numbers given out in one stream
          MaxPatterns     \* bound: patterns one subscriber holds

Kinds   == [src: Endpoints, plugin: Plugins, topic: Topics, session: Sessions \cup {None}]
Pattern == [endpoint: Endpoints \cup {None}, plugin: Plugins \cup {None},
            topic: Topics \cup {None}, session: Sessions \cup {None}]

\* The streams that are numbered: one for each source, plugin and session,
\* and the global one (None) of all events without a session.
SessionKeys == Endpoints \X Plugins \X Sessions
Stream(e)   == IF e.session = None THEN None ELSE <<e.src, e.plugin, e.session>>
Streams     == SessionKeys \cup {None}

Event == Kinds \X (0..MaxSeq)
Index == [rest: SUBSET Pattern, streams: [SessionKeys -> SUBSET Pattern],
          pairs: [Endpoints \X Plugins -> SUBSET Pattern]]

ASSUME NoneAssumption    == /\ None \notin Names \cup Endpoints \cup Plugins \cup Topics \cup Sessions
                            /\ None \notin Kinds \X Nat /\ None \notin SessionKeys
                            /\ None \notin Seq(Patterns) /\ None \notin Index
ASSUME PatternAssumption == Patterns \subseteq Pattern
ASSUME SizeAssumption    == EventQueue \in Nat \ {0} /\ SessionSeqMax \in Nat \ {0}
ASSUME BoundAssumption   == MaxSeq \in Nat /\ MaxPatterns \in Nat

VARIABLES
  conn,        \* name -> not registered, connected, dead but not noticed, suspect
  leaving,     \* name -> removed while its handler still reads its socket
  subs,        \* name -> its patterns, as a list; None where there is no entry
  index,       \* name -> the ingest index; None where there is no entry
  buf,         \* name -> its delivery queue
  wake,        \* name -> the wake event of the queue
  sender,      \* name -> its sender task: none, idle (on wake), in a send
  hand,        \* name -> the event the sender has popped
  sessionSeq,  \* the counters, least recently used first: <<key, next>>
  base,        \* the high-water mark of all session counters
  globalSeq,   \* the counter of the global stream
  seen         \* name -> stream -> 1 + the last number it received, or 0

connVars == <<conn, leaving>>
subVars  == <<subs, index>>
outVars  == <<buf, wake, sender, hand>>
seqVars  == <<sessionSeq, base, globalSeq>>
vars     == <<conn, leaving, subs, index, buf, wake, sender, hand,
              sessionSeq, base, globalSeq, seen>>

\* Every variable keeps its type; the counters and queues keep to their limits.
TypeOK ==
  /\ conn \in [Names -> {"absent", "up", "dead", "suspect"}]
  /\ leaving \in [Names -> BOOLEAN]
  /\ subs \in [Names -> {None} \cup Seq(Patterns)]
  /\ index \in [Names -> {None} \cup Index]
  /\ buf \in [Names -> Seq(Event)] /\ \A n \in Names : Len(buf[n]) <= EventQueue
  /\ wake \in [Names -> BOOLEAN]
  /\ sender \in [Names -> {"none", "idle", "sending"}]
  /\ hand \in [Names -> Event \cup {None}]
  /\ sessionSeq \in Seq(SessionKeys \X (0..MaxSeq)) /\ Len(sessionSeq) <= SessionSeqMax
  /\ base \in 0..MaxSeq /\ globalSeq \in 0..MaxSeq
  /\ seen \in [Names -> [Streams -> 0..(MaxSeq + 1)]]

Init ==
  /\ conn = [n \in Names |-> "absent"]
  /\ leaving = [n \in Names |-> FALSE]
  /\ subs = [n \in Names |-> None]
  /\ index = [n \in Names |-> None]
  /\ buf = [n \in Names |-> <<>>]
  /\ wake = [n \in Names |-> FALSE]
  /\ sender = [n \in Names |-> "none"]
  /\ hand = [n \in Names |-> None]
  /\ sessionSeq = <<>>
  /\ base = 0 /\ globalSeq = 0
  /\ seen = [n \in Names |-> [k \in Streams |-> 0]]

-----------------------------------------------------------------------------
(* Patterns and the index.                                                 *)

\* _matches for one pattern: a field that is set must agree, except that a
\* session in the pattern says nothing of an event without one.
MatchesOne(p, e) ==
  /\ p.endpoint \in {None, e.src}
  /\ p.plugin \in {None, e.plugin}
  /\ p.topic \in {None, e.topic}
  /\ e.session = None \/ p.session \in {None, e.session}

Matches(P, e) == \E p \in P : MatchesOne(p, e)

\* _reindex: patterns that name endpoint, plugin and session are filed by
\* their stream and by their pair, all others are kept apart.
IsNarrow(p) == p.session # None /\ p.endpoint # None /\ p.plugin # None
ReindexPlain(list) ==                          \* mutant: only the streams filed
  LET P == ToSet(list) IN
  [rest    |-> {p \in P : ~IsNarrow(p)},
   streams |-> [k \in SessionKeys |->
                  {p \in P : IsNarrow(p) /\ k = <<p.endpoint, p.plugin, p.session>>}],
   pairs   |-> [k \in Endpoints \X Plugins |-> {}]]
Reindex(list) ==
  LET P == ToSet(list) IN
  [rest    |-> {p \in P : ~IsNarrow(p)},
   streams |-> [k \in SessionKeys |->
                  {p \in P : IsNarrow(p) /\ k = <<p.endpoint, p.plugin, p.session>>}],
   pairs   |-> [k \in Endpoints \X Plugins |->
                  {p \in P : IsNarrow(p) /\ k = <<p.endpoint, p.plugin>>}]]

\* How ingest looks an event up in the index of a subscriber.
Indexed(x, e) ==
  \/ Matches(x.rest, e)
  \/ e.session # None /\ Matches(x.streams[<<e.src, e.plugin, e.session>>], e)
  \/ e.session = None /\ Matches(x.pairs[<<e.src, e.plugin>>], e)

\* update_subscription keeps a list: a subscribe appends (setdefault), an
\* unsubscribe takes the first equal pattern away.
ListOf(n) == IF subs[n] = None THEN <<>> ELSE subs[n]

SetPatterns(n, list) ==
  /\ subs'  = [subs EXCEPT ![n] = list]
  /\ index' = [index EXCEPT ![n] = Reindex(list)]

\* A frame of n is read while its handler reads: also when n was removed by
\* an operator and its socket is not closed yet.
Reads(n) == conn[n] = "up" \/ leaving[n]

Subscribe(n, p) ==
  /\ Reads(n) /\ Len(ListOf(n)) < MaxPatterns
  /\ SetPatterns(n, Append(ListOf(n), p))
  /\ UNCHANGED <<connVars, outVars, seqVars, seen>>

Unsubscribe(n, p) ==
  /\ Reads(n)
  /\ SetPatterns(n, RemoveFirst(ListOf(n), p))
  /\ UNCHANGED <<connVars, outVars, seqVars, seen>>

-----------------------------------------------------------------------------
(* The life of a subscriber.                                               *)

\* restart_sender: the new task waits on wake, which is set again when the
\* task before it left events behind.
StartPlain(n) ==                               \* mutant: wake is not set again
  /\ sender' = [sender EXCEPT ![n] = "idle"]
  /\ hand'   = [hand EXCEPT ![n] = None]
  /\ UNCHANGED wake
RestartSender(n) ==
  /\ sender' = [sender EXCEPT ![n] = "idle"]
  /\ hand'   = [hand EXCEPT ![n] = None]
  /\ wake'   = [wake EXCEPT ![n] = @ \/ buf[n] # <<>>]

\* pause_sender: the task is cancelled, with the event it had popped.
PauseSender(n) ==
  /\ sender' = [sender EXCEPT ![n] = "none"]
  /\ hand'   = [hand EXCEPT ![n] = None]

\* A fresh registration: add_endpoint.
AddEndpoint(n) ==
  /\ conn[n] = "absent"
  /\ conn' = [conn EXCEPT ![n] = "up"]
  /\ SetPatterns(n, ListOf(n))
  /\ buf'    = [buf EXCEPT ![n] = <<>>]
  /\ wake'   = [wake EXCEPT ![n] = FALSE]
  /\ sender' = [sender EXCEPT ![n] = "idle"]
  /\ hand'   = [hand EXCEPT ![n] = None]
  /\ seen'   = [seen EXCEPT ![n] = [k \in Streams |-> 0]]
  /\ UNCHANGED <<leaving, seqVars>>

\* A resume, whatever became of the old socket: patterns and queue are kept.
Resume(n) ==
  /\ conn[n] # "absent"
  /\ conn' = [conn EXCEPT ![n] = "up"]
  /\ RestartSender(n)
  /\ UNCHANGED <<leaving, subVars, buf, seqVars, seen>>

\* The socket dies; the broker notices later (_on_socket_drop).
Die(n) ==
  /\ conn[n] = "up"
  /\ conn' = [conn EXCEPT ![n] = "dead"]
  /\ UNCHANGED <<leaving, subVars, outVars, seqVars, seen>>

SocketDrop(n) ==
  /\ conn[n] = "dead"
  /\ conn' = [conn EXCEPT ![n] = "suspect"]
  /\ PauseSender(n)
  /\ UNCHANGED <<leaving, subVars, buf, wake, seqVars, seen>>

\* remove_endpoint after a clean close, a loss, or an operator's disconnect;
\* the last leaves a handler that reads until the socket is closed.
RemoveEndpoint(n) ==
  /\ conn[n] # "absent"
  /\ conn'    = [conn EXCEPT ![n] = "absent"]
  /\ leaving' \in {leaving, [leaving EXCEPT ![n] = @ \/ conn[n] = "up"]}
  /\ subs'    = [subs EXCEPT ![n] = None]
  /\ index'   = [index EXCEPT ![n] = None]
  /\ buf'     = [buf EXCEPT ![n] = <<>>]
  /\ PauseSender(n)
  /\ UNCHANGED <<wake, seqVars, seen>>

Closed(n) ==
  /\ leaving[n]
  /\ leaving' = [leaving EXCEPT ![n] = FALSE]
  /\ UNCHANGED <<conn, subVars, outVars, seqVars, seen>>

-----------------------------------------------------------------------------
(* Ingest: number the event, push it to every match.                       *)

Counters == 1..Len(sessionSeq)
Known(k) == \E i \in Counters : sessionSeq[i][1] = k
Slot(k)  == CHOOSE i \in Counters : sessionSeq[i][1] = k

\* A stream that is new, or was pruned, starts at the high-water mark.
StartAtZero(k) == IF Known(k) THEN sessionSeq[Slot(k)][2] ELSE 0   \* mutant
NextSeq(k)     == IF Known(k) THEN sessionSeq[Slot(k)][2] ELSE base

\* The counter moves to the end of the table; the first one is pruned when
\* the table has grown beyond its size.
Counted(k) ==
  LET kept  == IF Known(k) THEN RemoveAt(sessionSeq, Slot(k)) ELSE sessionSeq
      table == Append(kept, <<k, NextSeq(k) + 1>>) IN
  IF Len(table) > SessionSeqMax THEN Tail(table) ELSE table

Number(e) ==
  \/ /\ e.session = None /\ globalSeq < MaxSeq
     /\ globalSeq' = globalSeq + 1
     /\ UNCHANGED <<sessionSeq, base>>
  \/ /\ e.session # None /\ NextSeq(Stream(e)) < MaxSeq
     /\ sessionSeq' = Counted(Stream(e))
     /\ base' = Max({base, NextSeq(Stream(e)) + 1})
     /\ UNCHANGED globalSeq

StampOf(e) == IF e.session = None THEN globalSeq ELSE NextSeq(Stream(e))

\* push: the oldest event is evicted when the queue is full.
PushFront(q, x) == SubSeq(<<x>> \o q, 1, Min({EventQueue, Len(q) + 1}))   \* mutant
Push(q, x) == LET grown == Append(q, x) IN
              IF Len(grown) > EventQueue THEN Tail(grown) ELSE grown

Receivers(e) == {n \in Names : conn[n] # "absent" /\ index[n] # None /\ Indexed(index[n], e)}

Ingest(e) ==
  /\ Number(e)
  /\ buf'  = [n \in Names |-> IF n \in Receivers(e) THEN Push(buf[n], <<e, StampOf(e)>>)
                                                    ELSE buf[n]]
  /\ wake' = [n \in Names |-> wake[n] \/ n \in Receivers(e)]
  /\ UNCHANGED <<connVars, subVars, sender, hand, seen>>

-----------------------------------------------------------------------------
(* The sender of a subscriber.                                             *)

\* Pop the next event into the hand, or wait for wake with an empty queue.
PopOrWait(n) ==
  IF buf[n] = <<>>
  THEN /\ sender' = [sender EXCEPT ![n] = "idle"]
       /\ hand'   = [hand EXCEPT ![n] = None]
       /\ UNCHANGED buf
  ELSE /\ sender' = [sender EXCEPT ![n] = "sending"]
       /\ hand'   = [hand EXCEPT ![n] = Head(buf[n])]
       /\ buf'    = [buf EXCEPT ![n] = Tail(@)]

Wake(n) ==
  /\ sender[n] = "idle" /\ wake[n]
  /\ wake' = [wake EXCEPT ![n] = FALSE]
  /\ PopOrWait(n)
  /\ UNCHANGED <<connVars, subVars, seqVars, seen>>

Received(n) == [seen EXCEPT ![n][Stream(hand[n][1])] = hand[n][2] + 1]

Sent(n) ==
  /\ sender[n] = "sending" /\ conn[n] = "up"
  /\ seen' = Received(n)
  /\ PopOrWait(n)
  /\ UNCHANGED <<connVars, subVars, wake, seqVars>>

\* The send fails on a dead socket: the task ends.
SendFails(n) ==
  /\ sender[n] = "sending" /\ conn[n] = "dead"
  /\ PauseSender(n)
  /\ UNCHANGED <<connVars, subVars, buf, wake, seqVars, seen>>

-----------------------------------------------------------------------------
Life == \E n \in Names : AddEndpoint(n) \/ Resume(n) \/ Die(n) \/ SocketDrop(n)
                         \/ RemoveEndpoint(n) \/ Closed(n)

Sending == \E n \in Names : Wake(n) \/ Sent(n) \/ SendFails(n)

Next == \/ Life
        \/ Sending
        \/ \E n \in Names, p \in Patterns : Subscribe(n, p) \/ Unsubscribe(n, p)
        \/ \E e \in Kinds : Ingest(e)

\* The loop runs what is ready; a live socket takes what is written to it.
Fairness == \A n \in Names : WF_vars(Wake(n)) /\ WF_vars(Sent(n))

Spec     == Init /\ [][Next]_vars
FairSpec == Spec /\ Fairness

-----------------------------------------------------------------------------
(* Properties. *)

\* The index finds an event for a subscriber exactly when some pattern of its
\* list matches, in every list that subscribes and unsubscribes lead to.
IndexAgrees ==
  \A n \in Names : /\ subs[n] = None <=> index[n] = None
                   /\ subs[n] # None =>
                        \A e \in Kinds : Indexed(index[n], e) <=> Matches(ToSet(subs[n]), e)

\* A subscriber sees the numbers of every stream strictly increase, through
\* overflows, reconnects and the pruning of the counter of the stream.
OnlyForward ==
  \A n \in Names, k \in Streams :
    conn[n] # "absent" /\ seen'[n][k] # seen[n][k] => seen'[n][k] > seen[n][k]
SeqForward == [][OnlyForward]_vars

\* Everything queued or in a sender's hand lies ahead of what was received,
\* in increasing order within its stream, and behind the stream's counter.
CounterOf(k) == IF k = None THEN globalSeq ELSE NextSeq(k)
Ahead(n, x)  == x[2] >= seen[n][Stream(x[1])] /\ x[2] < CounterOf(Stream(x[1]))
Before(x, y) == Stream(x[1]) = Stream(y[1]) => x[2] < y[2]

Pending(n) == (IF hand[n] = None THEN <<>> ELSE <<hand[n]>>) \o buf[n]
QueueInOrder ==
  \A n \in Names : LET q == Pending(n) IN
    /\ \A i \in 1..Len(q) : Ahead(n, q[i])
    /\ \A i, j \in 1..Len(q) : i < j => Before(q[i], q[j])

\* No wakeup is lost: a connected subscriber with a queue that is not empty
\* has a sender in a send, or one that wake will wake.
NoLostWakeup ==
  \A n \in Names : (conn[n] = "up" /\ buf[n] # <<>>)
                     => sender[n] = "sending" \/ (sender[n] = "idle" /\ wake[n])

\* The delivery queues are sound: bounded, in the order of their streams, and a
\* sender that sleeps has nothing to send (push, drain, restart_sender).
QueuesSound == TypeOK /\ QueueInOrder /\ NoLostWakeup

\* The queue of a subscriber drains, unless its connection ends.
QueueDrains == \A n \in Names : conn[n] = "up" /\ buf[n] # <<>> ~> conn[n] # "up" \/ buf[n] = <<>>

-----------------------------------------------------------------------------
(* What the proofs need besides. *)

\* The index is the one of the list.
IndexOfList == \A n \in Names : /\ subs[n] = None => index[n] = None
                                /\ subs[n] # None => index[n] = Reindex(subs[n])

\* A connected subscriber has a sender, and a sender in a send has an event.
SendersKnown == \A n \in Names : /\ sender[n] = "sending" <=> hand[n] # None
                                 /\ conn[n] = "up" => sender[n] # "none"

\* Each stream has one counter, and none is above the high-water mark.
CountersSound == /\ \A i, j \in Counters : sessionSeq[i][1] = sessionSeq[j][1] => i = j
                 /\ \A i \in Counters : sessionSeq[i][2] <= base

\* No subscriber has seen more of a stream than was published.
SeenBehind == \A n \in Names, k \in Streams : seen[n][k] <= CounterOf(k)

\* QueueInOrder, with the event in the hand apart from the queue.
OrderOf(n) ==
  /\ hand[n] # None => Ahead(n, hand[n])
  /\ \A i \in 1..Len(buf[n]) : /\ Ahead(n, buf[n][i])
                               /\ hand[n] # None => Before(hand[n], buf[n][i])
  /\ \A i, j \in 1..Len(buf[n]) : i < j => Before(buf[n][i], buf[n][j])
HandThenQueue == \A n \in Names : OrderOf(n)

IndInv == /\ TypeOK /\ IndexOfList /\ SendersKnown /\ CountersSound /\ SeenBehind
          /\ HandThenQueue /\ NoLostWakeup
=============================================================================
