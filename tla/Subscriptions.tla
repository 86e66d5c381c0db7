---------------------------- MODULE Subscriptions ----------------------------
(***************************************************************************)
(* The event subscriptions of one endpoint runtime (runtime.py): the       *)
(* callback registry, the count of registrations per wire pattern, the     *)
(* patterns held without a callback, and what becomes of them when the     *)
(* connection is lost and made again, perhaps to another broker.  User     *)
(* threads change the registry under one lock (_cb_lock), so a change is   *)
(* one action; frames leave through one outbox that outlives a connection, *)
(* and topology frames reach the work loop later than the transport.       *)
(*                                                                         *)
(* A pattern is a key (endpoint, plugin, topic) with a session or NoSid; a *)
(* key in Wild leaves endpoint or plugin open.  The broker keeps a list of *)
(* patterns per subscriber (broker_events.py), here the count of each.     *)
(***************************************************************************)
EXTENDS Naturals, Sequences, FiniteSets, FiniteSetsExt, SequencesExt

CONSTANTS Cbs,          \* callbacks, each registered at most once (bound)
          KeyOf,        \* the key a callback is registered under
          Wild,         \* keys with a wildcard endpoint or plugin
          Sids, NoSid,
          MaxConn,      \* connections after the first (bound)
          MaxHold,      \* holds of one key at a time (bound)
          MaxOut        \* frames in the outbox (bound)

ASSUME SubNames == NoSid \notin Sids /\ "off" \notin Sids \cup {NoSid}
ASSUME SubBounds == IsFiniteSet(Cbs) /\ MaxConn \in Nat /\ MaxHold \in Nat

Keys     == {KeyOf[c] : c \in Cbs}
Patterns == Keys \X (Sids \cup {NoSid})

VARIABLES
  reg,        \* _callbacks: session of each callback, or "off"
  wire,       \* _wire_count
  hold,       \* _held
  routes,     \* _broker_routes
  gen,        \* _conn_gen
  live,       \* _subs_live
  conn,       \* up, lost (not noticed yet), down
  caps,       \* per connection: that broker advertises session_events
  out,        \* _outbox: subscribe and unsubscribe frames
  inq,        \* topology frames on their way to the work loop
  subs,       \* broker: this subscriber's pattern list, as counts
  ahead       \* frames up to the one that told the broker of each callback's scope

subVars == <<reg, wire, hold, routes, gen, live, conn, caps, out, inq, subs, ahead>>

SubFrame == [op: {"sub", "unsub"}, pats: SUBSET Patterns, gen: 0..MaxConn, sync: BOOLEAN]

\* Every variable keeps its type and the registry its bounds.
SubTypeOK ==
  /\ reg \in [Cbs -> Sids \cup {NoSid, "off"}]
  /\ wire \in [Patterns -> Nat] /\ subs \in [Patterns -> Nat]
  /\ hold \in [Keys -> 0..MaxHold]
  /\ routes \in BOOLEAN /\ live \in BOOLEAN
  /\ gen \in 0..MaxConn
  /\ conn \in {"up", "lost", "down"}
  /\ caps \in [0..MaxConn -> BOOLEAN]
  /\ out \in Seq(SubFrame)
  /\ inq \in Seq(0..MaxConn)
  /\ ahead \in [Cbs -> Nat]

SubInit ==
  /\ reg = [c \in Cbs |-> "off"]
  /\ wire = [p \in Patterns |-> 0]
  /\ hold = [k \in Keys |-> 0]
  /\ routes = FALSE /\ gen = 0 /\ live = TRUE /\ conn = "up"
  /\ caps \in [0..MaxConn -> BOOLEAN]
  /\ out = <<>> /\ inq = <<0>>
  /\ subs = [p \in Patterns |-> 0]
  /\ ahead = [c \in Cbs |-> 0]

-----------------------------------------------------------------------------
(* Wire patterns and their counts. *)

WireKey(k, s, r) == IF s # NoSid /\ r /\ k \notin Wild THEN <<k, s>> ELSE <<k, NoSid>>
Pattern(c)       == WireKey(KeyOf[c], reg[c], routes)
Callbacks       == {c \in Cbs : reg[c] # "off"}
None0            == [p \in Patterns |-> 0]
One(p)           == [None0 EXCEPT ![p] = 1]
Scoped(C)        == ahead' = [c \in Cbs |-> IF c \in C THEN Len(out') ELSE ahead[c]]

Emit(op, P, y) == IF P = {} THEN <<>>
                  ELSE <<[op |-> op, pats |-> P, gen |-> gen', sync |-> y]>>

\* _move_wire: subscribe the patterns that get their first registration, then
\* unsubscribe those that lost their last; nothing is sent while disconnected.
MoveSwapped(old, new) ==                              \* mutant: withdrawn first
  LET n == [p \in Patterns |-> wire[p] + new[p] - old[p]]
      first == {p \in Patterns : wire[p] = 0 /\ new[p] > 0}
      last  == {p \in Patterns : old[p] > 0 /\ n[p] = 0}
  IN /\ wire' = n
     /\ out' = IF live THEN out \o Emit("unsub", last, FALSE) \o Emit("sub", first, FALSE)
               ELSE out
MoveWire(old, new) ==
  LET n == [p \in Patterns |-> wire[p] + new[p] - old[p]]
      first == {p \in Patterns : wire[p] = 0 /\ new[p] > 0}
      last  == {p \in Patterns : old[p] > 0 /\ n[p] = 0}
  IN /\ wire' = n
     /\ out' = IF live THEN out \o Emit("sub", first, FALSE) \o Emit("unsub", last, FALSE)
               ELSE out

Quiet == gen' = gen /\ UNCHANGED <<routes, live, conn, caps, inq, subs>>

RegisterCallback(c, s) ==
  /\ reg[c] = "off"
  /\ reg' = [reg EXCEPT ![c] = s]
  /\ Quiet
  /\ MoveWire(None0, One(WireKey(KeyOf[c], s, routes)))
  /\ Scoped({c}) /\ UNCHANGED hold

UnregisterCallback(c) ==
  /\ reg[c] # "off"
  /\ reg' = [reg EXCEPT ![c] = "off"]
  /\ Quiet
  /\ MoveWire(One(Pattern(c)), None0)
  /\ UNCHANGED <<hold, ahead>>

\* rescope_callback: one step under the lock, old scope to new.
Rescope(C, s) ==
  LET cnt(S, f(_)) == [p \in Patterns |-> Cardinality({c \in S : f(c) = p})]
      new(c) == WireKey(KeyOf[c], s, routes)
  IN /\ reg' = [c \in Cbs |-> IF c \in C THEN s ELSE reg[c]]
     /\ Quiet
     /\ MoveWire(cnt(C, Pattern), cnt(C, new))
     /\ Scoped(C) /\ UNCHANGED hold
RescopeCallback(c, s) == c \in Callbacks /\ reg[c] # s /\ Rescope({c}, s)

Hold(K) ==
  /\ \A k \in K : hold[k] < MaxHold
  /\ hold' = [k \in Keys |-> IF k \in K THEN hold[k] + 1 ELSE hold[k]]
  /\ Quiet
  /\ MoveWire(None0, [p \in Patterns |-> IF p[2] = NoSid /\ p[1] \in K THEN 1 ELSE 0])
  /\ UNCHANGED <<reg, ahead>>

Release(K) ==
  /\ \A k \in K : hold[k] > 0
  /\ hold' = [k \in Keys |-> IF k \in K THEN hold[k] - 1 ELSE hold[k]]
  /\ Quiet
  /\ MoveWire([p \in Patterns |-> IF p[2] = NoSid /\ p[1] \in K THEN 1 ELSE 0], None0)
  /\ UNCHANGED <<reg, ahead>>

-----------------------------------------------------------------------------
(* The connection. *)

\* A topology frame of connection inq[1] reaches the work loop: the session
\* registrations follow that broker's capability, unless it is outdated.
ThisGen(g) == g = gen
Topology ==
  /\ inq # <<>> /\ inq' = Tail(inq)
  /\ gen' = gen
  /\ LET g == Head(inq)
         C == {c \in Callbacks : reg[c] # NoSid}
         was(c) == WireKey(KeyOf[c], reg[c], routes)
         now(c) == WireKey(KeyOf[c], reg[c], caps[g])
         cnt(f(_)) == [p \in Patterns |-> Cardinality({c \in C : f(c) = p})]
     IN IF ThisGen(g) /\ caps[g] # routes
        THEN routes' = caps[g] /\ MoveWire(cnt(was), cnt(now))
        ELSE UNCHANGED <<routes, wire, out>>
  /\ UNCHANGED <<reg, hold, live, conn, caps, subs, ahead>>

\* The broker updates its list: a subscribe adds every pattern, an unsubscribe
\* removes one of each.  An older broker drops the socket on a session pattern.
Upset(f)  == ~caps[gen] /\ \E p \in f.pats : p[2] # NoSid
Update(f) == [p \in Patterns |->
                IF p \notin f.pats THEN subs[p]
                ELSE IF f.op = "sub" THEN subs[p] + 1
                ELSE IF subs[p] > 0 THEN subs[p] - 1 ELSE 0]
SendsFrame ==
  /\ conn = "up" /\ out # <<>>
  /\ out' = Tail(out)
  /\ IF Upset(Head(out)) THEN conn' = "lost" /\ UNCHANGED subs
     ELSE subs' = Update(Head(out)) /\ UNCHANGED conn
  /\ ahead' = [c \in Cbs |-> IF ahead[c] > 0 THEN ahead[c] - 1 ELSE 0]
  /\ UNCHANGED <<reg, wire, hold, routes, gen, live, caps, inq>>

\* The socket breaks; the frame the sender was at may be lost.
Lose ==
  /\ conn = "up" /\ conn' = "lost"
  /\ out' \in {out} \cup (IF out = <<>> THEN {} ELSE {Tail(out)})
  /\ UNCHANGED <<reg, wire, hold, routes, gen, live, caps, inq, subs, ahead>>

\* _transport_main leaves the connection: _subs_down.
SubsDown ==
  /\ conn = "lost" /\ conn' = "down" /\ live' = FALSE
  /\ UNCHANGED <<reg, wire, hold, routes, gen, caps, out, inq, subs, ahead>>

\* _resync_subscriptions: everything again, as plain patterns.
Held(p)   == IF p[2] = NoSid THEN hold[p[1]] ELSE 0
Resynced  == [p \in Patterns |->
                Held(p) + (IF p[2] = NoSid
                           THEN Cardinality({c \in Callbacks : KeyOf[c] = p[1]}) ELSE 0)]
\* Registered again: the same broker kept the list, or another one has none.
Reconnect(kept) ==
  /\ conn = "down" /\ gen < MaxConn
  /\ kept => caps[gen + 1] = caps[gen]
  /\ conn' = "up" /\ gen' = gen + 1 /\ routes' = FALSE /\ live' = TRUE
  /\ wire' = Resynced
  /\ out' = out \o Emit("sub", {p \in Patterns : Resynced[p] > 0}, TRUE)
  /\ inq' = Append(inq, gen + 1)
  /\ subs' = IF kept THEN subs ELSE None0
  /\ Scoped(Cbs)
  /\ UNCHANGED <<reg, hold, caps>>

-----------------------------------------------------------------------------
SubNext ==
  \/ \E c \in Cbs : \/ UnregisterCallback(c)
                    \/ \E s \in Sids \cup {NoSid} : RegisterCallback(c, s) \/ RescopeCallback(c, s)
  \/ \E k \in Keys : Hold({k}) \/ Release({k})
  \/ Topology \/ SendsFrame \/ Lose \/ SubsDown
  \/ \E kept \in BOOLEAN : Reconnect(kept)

SubSpec == SubInit /\ [][SubNext]_subVars

-----------------------------------------------------------------------------
(* Properties. *)

\* A wire pattern is counted exactly as often as callbacks and holds need it,
\* through rescoping, capability changes and reconnects: so a pattern is
\* withdrawn when its last user goes, and not before.
CountsAgree ==
  \A p \in Patterns : wire[p] = Held(p) + Cardinality({c \in Callbacks : Pattern(c) = p})

Covered(c) == \/ subs[<<KeyOf[c], NoSid>>] > 0
              \/ reg[c] # NoSid /\ subs[<<KeyOf[c], reg[c]>>] > 0

\* Once the broker has the frame that told it of a callback's scope (or the
\* frame of the last resync), it sends that callback its events for as long as
\* the scope and the connection stand: whatever other callbacks, holds and
\* capability changes withdraw, no event falls between two patterns.
NoGap == conn = "up" => \A c \in Callbacks : ahead[c] = 0 => Covered(c)

\* A session pattern is only written for a connection whose broker routes
\* sessions, whenever its topology arrives (_conn_gen).
OnlyWhereRouted ==
  \A i \in DOMAIN out : (\E p \in out[i].pats : p[2] # NoSid) => caps[out[i].gen]

\* Subscriptions: no event falls between two patterns, a pattern is counted as
\* often as it is needed, and session patterns go only to a broker that routes
\* sessions (_move_wire, _rescope_sessions, _resync_subscriptions).
SubscriptionsSound == SubTypeOK /\ NoGap /\ CountsAgree /\ OnlyWhereRouted

-----------------------------------------------------------------------------
(* What the proofs need besides. *)

\* The broker has pattern p once it has applied the first n frames of the
\* outbox: it has it or is told of it, and does not hear of its withdrawal after.
Has(i, op, p) == out[i].op = op /\ p \in out[i].pats
On(p, n) ==
  \/ subs[p] > 0 /\ \A k \in 1..n : ~Has(k, "unsub", p)
  \/ \E i \in 1..n : Has(i, "sub", p) /\ \A k \in (i + 1)..n : ~Has(k, "unsub", p)

\* The patterns that carry a callback's events.
Scopes(c) == {<<KeyOf[c], NoSid>>, <<KeyOf[c], reg[c]>>}

\* On a connection the broker will have what is counted when the outbox is
\* empty, and a scope of each callback from the frame that told it onwards.
UpToDate ==
  conn = "up" =>
    /\ live
    /\ \A p \in Patterns : wire[p] > 0 => On(p, Len(out))
    /\ \A c \in Callbacks : \A n \in ahead[c]..Len(out) : \E p \in Scopes(c) : On(p, n)

\* Session patterns are in use only where the broker routes sessions.
RoutesKnown == routes => caps[gen]

SubInv == SubTypeOK /\ CountsAgree /\ OnlyWhereRouted /\ RoutesKnown /\ UpToDate
=============================================================================
