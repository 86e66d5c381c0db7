------------------------------- MODULE Globus --------------------------------
(***************************************************************************)
(* Credentials of Globus sessions (plugin_globus.py): register_session     *)
(* builds a session with SDK clients of its own, in a thread when it has   *)
(* to fetch an access token first, and by then the session id may have     *)
(* been taken or ended.  On a live session the new clients replace the old *)
(* ones, which are retired and closed by a timer.                          *)
(*                                                                         *)
(* The clients a call builds are known by the call.                        *)
(***************************************************************************)
EXTENDS Integers, FiniteSets

CONSTANTS GRegs,      \* register_session calls
          GSids,      \* session ids
          GCalls,     \* calls of the Transfer API
          NoReg

ASSUME NoRegIsNone == NoReg \notin GRegs /\ GSids # {}

VARIABLES
  gcReg,      \* register_session calls
  client,   \* the SDK clients each has built
  gsess,    \* _sessions: per id, whether live, whose clients it uses, which are retired
  gended,   \* ids of sessions that have ended
  used      \* per API call, the clients it runs on, and whether its session has ended

gcVars == <<gcReg, client, gsess, gended, used>>

\* Every variable keeps its type.
GcTypeOK ==
  /\ gcReg \in [GRegs -> [pc: {"idle", "build", "back", "done"}, sid: GSids, rotating: BOOLEAN,
                        cancelled: BOOLEAN, blind: BOOLEAN]]
  /\ client \in [GRegs -> {"none", "open", "closed"}]
  /\ gsess \in [GSids -> [live: BOOLEAN, due: BOOLEAN, tc: GRegs \cup {NoReg}, retired: SUBSET GRegs,
                          revived: BOOLEAN]]
  /\ gended \subseteq GSids
  /\ used \in [GCalls -> [sid: GSids, on: GRegs \cup {NoReg}, orphan: BOOLEAN]]

NoSession == [live |-> FALSE, due |-> FALSE, tc |-> NoReg, retired |-> {}, revived |-> FALSE]

GcInit ==
  /\ gcReg = [r \in GRegs |-> [pc |-> "idle", sid |-> CHOOSE s \in GSids : TRUE, rotating |-> FALSE,
                             cancelled |-> FALSE, blind |-> FALSE]]
  /\ client = [r \in GRegs |-> "none"]
  /\ gsess = [s \in GSids |-> NoSession] /\ gended = {}
  /\ used = [k \in GCalls |-> [sid |-> CHOOSE s \in GSids : TRUE, on |-> NoReg,
                           orphan |-> FALSE]]

Closes(cs) == [r \in GRegs |-> IF r \in cs THEN "closed" ELSE client[r]]

-----------------------------------------------------------------------------
(* A session's end. *)

\* close: the current clients and every retired pair.
ClientsOf(s)  == {gsess[s].tc} \cup gsess[s].retired
Orphans(s) == [k \in GCalls |-> [used[k] EXCEPT !.orphan = @ \/ used[k].sid = s]]

EndSession(s) ==
  /\ gsess[s].live /\ gsess' = [gsess EXCEPT ![s] = NoSession]
  /\ gended' = gended \cup {s}
  /\ client' = Closes(ClientsOf(s)) /\ used' = Orphans(s)
  /\ UNCHANGED gcReg

\* The idle deadline passes; nothing has swept the session yet.
FallsDue(s) ==
  /\ gsess[s].live /\ ~gsess[s].due
  /\ gsess' = [gsess EXCEPT ![s].due = TRUE]
  /\ UNCHANGED <<gcReg, client, gended, used>>

-----------------------------------------------------------------------------
(* register_session. *)

\* Up to the build.  An ended id is refused; a known one, live or due, makes
\* this a rotation.  An access token needs no thread.
Rotating(s) == gsess[s].live
RegisterCall(r, s) ==
  /\ gcReg[r].pc = "idle"
  /\ \/ /\ s \in gended /\ gcReg' = [gcReg EXCEPT ![r].pc = "done"] /\ UNCHANGED client
     \/ /\ s \notin gended
        /\ gcReg' = [gcReg EXCEPT ![r] = [pc |-> "build", sid |-> s, rotating |-> Rotating(s),
                                      cancelled |-> FALSE, blind |-> ~gsess[s].live]]
        /\ UNCHANGED client
     \/ /\ s \notin gended
        /\ gcReg' = [gcReg EXCEPT ![r] = [pc |-> "back", sid |-> s, rotating |-> Rotating(s),
                                      cancelled |-> FALSE, blind |-> ~gsess[s].live]]
        /\ client' = [client EXCEPT ![r] = "open"]
  /\ UNCHANGED <<gsess, gended, used>>

\* The thread ends: the clients are there, or the constructor has closed them.
\* A cancelled call closes what its thread built (_close_built).
CloseBuilt(r) == IF gcReg[r].cancelled THEN "closed" ELSE "open"
Built(r, ok) ==
  /\ gcReg[r].pc = "build"
  /\ client' = [client EXCEPT ![r] = IF ok THEN CloseBuilt(r) ELSE "closed"]
  /\ gcReg' = [gcReg EXCEPT ![r].pc = IF ok /\ ~gcReg[r].cancelled THEN "back" ELSE "done"]
  /\ UNCHANGED <<gsess, gended, used>>
CancelBuild(r) ==
  /\ gcReg[r].pc = "build" /\ ~gcReg[r].cancelled
  /\ gcReg' = [gcReg EXCEPT ![r].cancelled = TRUE]
  /\ UNCHANGED <<client, gsess, gended, used>>

\* adopt_credential: the old clients are retired, not closed.
Adopt(r, s) ==
  /\ gsess' = [gsess EXCEPT ![s].tc = r, ![s].retired = @ \cup {gsess[s].tc}]
  /\ UNCHANGED client

\* A session this call did not know of when it came may be created; one it knew
\* of is not created again.
Refuses(r) == gcReg[r].rotating

\* _live_session and what follows.
Finish(r) ==
  /\ gcReg[r].pc = "back"
  /\ LET s == gcReg[r].sid
     IN IF gsess[s].live /\ ~gsess[s].due
        THEN Adopt(r, s) /\ UNCHANGED <<gended, used>>
        ELSE /\ client' = [Closes(IF gsess[s].live THEN ClientsOf(s) ELSE {}) EXCEPT
                             ![r] = IF Refuses(r) THEN "closed" ELSE @]
             /\ gended' = gended \cup (IF gsess[s].live THEN {s} ELSE {})
             /\ gsess' = [gsess EXCEPT ![s] =
                            IF Refuses(r) THEN NoSession
                            ELSE [NoSession EXCEPT !.live = TRUE, !.tc = r,
                                                   !.revived = s \in gended' /\ ~gcReg[r].blind]]
             /\ used' = IF gsess[s].live THEN Orphans(s) ELSE used
  /\ gcReg' = [gcReg EXCEPT ![r].pc = "done"]

\* The timer of a retired pair: ten times the time limit of a call, by when no
\* call that began before the rotation is left.
ReleaseRetired(s, r) ==
  /\ r \in gsess[s].retired /\ \A k \in GCalls : used[k].on # r
  /\ gsess' = [gsess EXCEPT ![s].retired = @ \ {r}]
  /\ client' = Closes({r})
  /\ UNCHANGED <<gcReg, gended, used>>

-----------------------------------------------------------------------------
(* _call: the session's clients as of now, in a thread. *)

ApiBegins(k, s) ==
  /\ used[k].on = NoReg /\ gsess[s].live
  /\ used' = [used EXCEPT ![k] = [sid |-> s, on |-> gsess[s].tc, orphan |-> FALSE]]
  /\ UNCHANGED <<gcReg, client, gsess, gended>>
ApiEnds(k) ==
  /\ used[k].on # NoReg /\ used' = [used EXCEPT ![k].on = NoReg]
  /\ UNCHANGED <<gcReg, client, gsess, gended>>

-----------------------------------------------------------------------------
GcNext ==
  \/ \E s \in GSids : \/ EndSession(s) \/ FallsDue(s)
                      \/ \E r \in GRegs : RegisterCall(r, s) \/ ReleaseRetired(s, r)
                      \/ \E k \in GCalls : ApiBegins(k, s)
  \/ \E r \in GRegs : \/ CancelBuild(r) \/ Finish(r)
                      \/ \E ok \in BOOLEAN : Built(r, ok)
  \/ \E k \in GCalls : ApiEnds(k)

GcSpec == GcInit /\ [][GcNext]_gcVars

-----------------------------------------------------------------------------
(* Properties. *)

\* Credentials do not stay behind: open clients are those of a live session, in
\* use or retired, or of a register_session call that has not ended.
ClientsAreHeld ==
  \A r \in GRegs : client[r] = "open" =>
    \/ gcReg[r].pc = "back"
    \/ \E s \in GSids : gsess[s].live /\ r \in {gsess[s].tc} \cup gsess[s].retired

\* Rotating a credential never closes the clients under a call of its session
\* (adopt_credential); only the session's end does.
RotationSparesCalls ==
  \A k \in GCalls : used[k].on # NoReg /\ ~used[k].orphan => client[used[k].on] = "open"

\* A session that a register_session call found when it came, and that has ended
\* since, is not created again by it (register_session, `rotating').
NeverRevived == \A s \in GSids : ~gsess[s].revived

-----------------------------------------------------------------------------
(***************************************************************************)
(* GlobusClient.task_wait (plugin_globus.py): polls on a fixed schedule    *)
(* until a deadline, with one last poll at it; polls take time, get lost,  *)
(* or are put off by the server.  Time runs in whole units.                *)
(***************************************************************************)

CONSTANTS Interval, MaxTimeout,
          MaxCall,      \* the longest time a poll takes
          Pause         \* the Retry-After the server may ask for

ASSUME WaitBounds == Interval \in Nat \ {0} /\ MaxTimeout \in Nat
                     /\ MaxCall \in Nat /\ Pause \in Nat \ {0}

VARIABLES deadline, now, gw, over   \* over: when the task left ACTIVE, if it did

gwVars == <<deadline, now, gw, over>>

Never == MaxTimeout + MaxCall + Pause + 10
Times == 0..Never

\* Every variable keeps its type.
GwTypeOK ==
  /\ deadline \in 0..MaxTimeout /\ now \in Times /\ over \in Times
  /\ gw \in [pc: {"poll", "sleep", "true", "false", "raised"}, slot: Nat, last: BOOLEAN,
             answered: BOOLEAN, due: Times, began: Times, polls: Nat, ok: BOOLEAN]

GwInit ==
  /\ deadline \in 0..MaxTimeout /\ now = 0 /\ over = Never
  /\ gw = [pc |-> "poll", slot |-> 0, last |-> FALSE, answered |-> FALSE, due |-> 0,
           began |-> 0, polls |-> 1, ok |-> FALSE]

\* The next slot of the schedule, later if the server asks for it; the deadline
\* takes the place of what lies beyond it.
NextSlot(g) == IF g.slot + 1 > (now \div Interval) + 1 THEN g.slot + 1 ELSE (now \div Interval) + 1
PollDue(g, pause) ==
  LET d == NextSlot(g) * Interval IN IF now + pause > d THEN now + pause ELSE d
AtDeadline(g) == [g EXCEPT !.pc = "sleep", !.due = deadline, !.last = TRUE]
WaitOn(g, pause) ==
  IF PollDue(g, pause) >= deadline THEN AtDeadline(g)
  ELSE [g EXCEPT !.pc = "sleep", !.slot = NextSlot(g), !.due = PollDue(g, pause)]

PollGets(done) ==
  /\ gw.pc = "poll" /\ IF done THEN over <= now ELSE over >= gw.began
  /\ LET g == [gw EXCEPT !.answered = TRUE, !.ok = TRUE]
     IN gw' = IF done THEN [g EXCEPT !.pc = "true"]
              ELSE IF gw.last \/ now >= deadline THEN [g EXCEPT !.pc = "false"]
              ELSE WaitOn(g, 0)
  /\ UNCHANGED <<deadline, now, over>>
PollLost(pause) ==
  /\ gw.pc = "poll"
  /\ LET g == [gw EXCEPT !.ok = FALSE]
     IN gw' = IF gw.last \/ now >= deadline
              THEN [g EXCEPT !.pc = IF gw.answered THEN "false" ELSE "raised"]
              ELSE WaitOn(g, pause)
  /\ UNCHANGED <<deadline, now, over>>

PollAgain ==
  /\ gw.pc = "sleep" /\ now >= gw.due
  /\ gw' = [gw EXCEPT !.pc = "poll", !.began = now, !.polls = @ + 1]
  /\ UNCHANGED <<deadline, now, over>>

\* A call ends within its time; sleep ends when it is due.
TimePasses ==
  /\ \/ gw.pc = "poll" /\ now < gw.began + MaxCall
     \/ gw.pc = "sleep" /\ now < gw.due
  /\ now' = now + 1
  /\ UNCHANGED <<deadline, gw, over>>
TransferEnds ==
  /\ over = Never /\ over' = now
  /\ UNCHANGED <<deadline, now, gw>>

GwNext == \/ \E done \in BOOLEAN : PollGets(done)
          \/ \E pause \in {0, Pause} : PollLost(pause)
          \/ PollAgain \/ TimePasses \/ TransferEnds

GwSpec == GwInit /\ [][GwNext]_gwVars

-----------------------------------------------------------------------------
(* Properties. *)

\* `completed: False' is said at the deadline and no earlier, and never of a
\* task that had ended before the last poll began, if that one got through.
FalseIsCurrent ==
  gw.pc = "false" => now >= deadline /\ (gw.ok => gw.began <= over)

\* No poll begins past the deadline, and Globus sees one call per interval and
\* one more at the deadline.
PollsOnSchedule ==
  /\ gw.began <= deadline
  /\ gw.polls <= (gw.began \div Interval) + 2
=============================================================================
