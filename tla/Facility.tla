------------------------------- MODULE Facility -------------------------------
(***************************************************************************)
(* A facility's API behind the broker: sfapi_connect and iri_connect       *)
(* create, rotate and remove the plugin instance of one endpoint           *)
(* (plugin_sfapi_connect.py, plugin_iri_connect.py, plugin_host_base.py);  *)
(* calls of the instance go out with a cached access token that is minted  *)
(* from its credentials under a lock (plugin_sfapi_instance.py).           *)
(*                                                                         *)
(* Credentials are known by the connect call that brought them.  A facility *)
(* rejects the tokens of credentials that were revoked; credentials in use *)
(* are not revoked.                                                        *)
(***************************************************************************)
EXTENDS Naturals, FiniteSets

CONSTANTS Conns,      \* connect calls
          FCalls,     \* calls of the facility's API
          NoCred

ASSUME NoCredIsNone == NoCred \notin Conns /\ NoCred \notin FCalls

VARIABLES
  plug,     \* host._plugins: the instance registered under the endpoint's name
  inst,     \* the instances ever created, by the connect call that did
  fcConn,     \* connect calls
  fcall,    \* API calls
  valid     \* credentials the facility accepts

fcVars == <<plug, inst, fcConn, fcall, valid>>

Creds == Conns \cup {NoCred}

\* Every variable keeps its type.
FcTypeOK ==
  /\ plug \in Creds
  /\ inst \in [Conns -> [is: {"none", "up", "closing", "closed"}, cred: Creds, tok: Creds,
                         lock: FCalls \cup {NoCred}, oauth: BOOLEAN, late: BOOLEAN]]
  /\ fcConn \in [Conns -> [pc: {"idle", "mint", "done"}, found: Creds, mgr: {"none", "open", "given"},
                         ans: {"none", "connected", "updated", "failed"}]]
  /\ fcall \in [FCalls -> [pc: {"idle", "token", "fetch", "send", "retry", "refetch", "resend", "done"},
                           on: Creds, tok: Creds, with: Creds, clean: BOOLEAN,
                           ans: {"none", "ok", "401", "error"}]]
  /\ valid \subseteq Conns

FcInit ==
  /\ plug = NoCred
  /\ inst = [c \in Conns |-> [is |-> "none", cred |-> NoCred, tok |-> NoCred, lock |-> NoCred,
                              oauth |-> FALSE, late |-> FALSE]]
  /\ fcConn = [c \in Conns |-> [pc |-> "idle", found |-> NoCred, mgr |-> "none", ans |-> "none"]]
  /\ fcall = [k \in FCalls |-> [pc |-> "idle", on |-> NoCred, tok |-> NoCred, with |-> NoCred,
                                clean |-> FALSE, ans |-> "none"]]
  /\ valid \in SUBSET Conns

-----------------------------------------------------------------------------
(* connect and disconnect. *)

\* The instance is looked up before the new credentials are verified.
ConnectBegins(c) ==
  /\ fcConn[c].pc = "idle"
  /\ fcConn' = [fcConn EXCEPT ![c] = [@ EXCEPT !.pc = "mint", !.found = plug, !.mgr = "open"]]
  /\ UNCHANGED <<plug, inst, fcall, valid>>

\* update_credentials drops the cached token; a fetch under way goes on.  A
\* session that is gone keeps what it has.
Unclean(i) == [k \in FCalls |-> IF fcall[k].on = i THEN [fcall[k] EXCEPT !.clean = FALSE] ELSE fcall[k]]
UpdateCredentials(i, c) ==
  /\ inst' = IF inst[i].is = "up" THEN [inst EXCEPT ![i].cred = c, ![i].tok = NoCred] ELSE inst
  /\ fcall' = Unclean(i)

\* The verified manager is handed to a new instance, or closed.
RegisterFails(c) == fcConn' = [fcConn EXCEPT ![c].pc = "done", ![c].ans = "failed", ![c].mgr = "none"]

Minted(c) ==
  /\ fcConn[c].pc = "mint" /\ c \in valid
  /\ IF fcConn[c].found # NoCred
     THEN /\ UpdateCredentials(fcConn[c].found, c)
          /\ fcConn' = [fcConn EXCEPT ![c].pc = "done", ![c].ans = "updated", ![c].mgr = "none"]
          /\ UNCHANGED plug
     ELSE IF plug # NoCred              \* somebody else was faster
     THEN RegisterFails(c) /\ UNCHANGED <<plug, inst, fcall>>
     ELSE /\ plug' = c
          /\ inst' = [inst EXCEPT ![c] = [is |-> "up", cred |-> c, tok |-> c, lock |-> NoCred,
                                          oauth |-> TRUE, late |-> FALSE]]
          /\ fcConn' = [fcConn EXCEPT ![c].pc = "done", ![c].ans = "connected", ![c].mgr = "given"]
          /\ UNCHANGED fcall
  /\ UNCHANGED valid
\* The credentials are bad, or the token endpoint cannot be reached.
MintRejected(c) ==
  /\ fcConn[c].pc = "mint"
  /\ fcConn' = [fcConn EXCEPT ![c].pc = "done", ![c].ans = "failed", ![c].mgr = "none"]
  /\ UNCHANGED <<plug, inst, fcall, valid>>

\* deregister_dynamic_plugin: out of the table, then the session's clients.
Disconnect ==
  /\ plug # NoCred /\ plug' = NoCred
  /\ inst' = [inst EXCEPT ![plug].is = "closing"]
  /\ fcall' = Unclean(plug)
  /\ UNCHANGED <<fcConn, valid>>
ClosesClients(i) ==
  /\ inst[i].is = "closing"
  /\ inst' = [inst EXCEPT ![i].is = "closed", ![i].oauth = FALSE]
  /\ UNCHANGED <<plug, fcConn, fcall, valid>>

-----------------------------------------------------------------------------
(* API calls: _request, with one retry on 401. *)

ApiCall(k) ==
  /\ fcall[k].pc = "idle" /\ plug # NoCred
  /\ fcall' = [fcall EXCEPT ![k] = [@ EXCEPT !.pc = "token", !.on = plug,
                                             !.clean = inst[plug].cred \in valid]]
  /\ UNCHANGED <<plug, inst, fcConn, valid>>

Lock(k)   == inst[fcall[k].on].lock
\* _fetch builds the OAuth client anew if it was closed.
StartsFetch(k, pc) ==
  /\ inst' = [inst EXCEPT ![fcall[k].on].lock = k, ![fcall[k].on].oauth = TRUE,
                          ![fcall[k].on].late = @ \/ inst[fcall[k].on].is = "closed"]
  /\ fcall' = [fcall EXCEPT ![k].pc = pc, ![k].with = inst[fcall[k].on].cred]

\* token(): the cached one, or a new one.
GetsToken(k) ==
  /\ fcall[k].pc = "token" /\ Lock(k) = NoCred
  /\ IF inst[fcall[k].on].tok # NoCred
     THEN /\ fcall' = [fcall EXCEPT ![k].pc = "send", ![k].tok = inst[fcall[k].on].tok]
          /\ UNCHANGED inst
     ELSE StartsFetch(k, "fetch")
  /\ UNCHANGED <<plug, fcConn, valid>>
\* mint(): always a new one.
RetriesAsIs(k) ==                                  \* mutant: the cached token again
  IF inst[fcall[k].on].tok # NoCred
  THEN /\ fcall' = [fcall EXCEPT ![k].pc = "resend", ![k].tok = inst[fcall[k].on].tok]
       /\ UNCHANGED inst
  ELSE StartsFetch(k, "refetch")
MintsAgain(k) == StartsFetch(k, "refetch")
Remints(k) ==
  /\ fcall[k].pc = "retry" /\ Lock(k) = NoCred /\ MintsAgain(k)
  /\ UNCHANGED <<plug, fcConn, valid>>

Fetched(k) ==
  /\ fcall[k].pc \in {"fetch", "refetch"} /\ fcall[k].with \in valid
  /\ inst' = [inst EXCEPT ![fcall[k].on].lock = NoCred, ![fcall[k].on].tok = fcall[k].with]
  /\ fcall' = [fcall EXCEPT ![k].pc = IF @ = "fetch" THEN "send" ELSE "resend",
                            ![k].tok = fcall[k].with]
  /\ UNCHANGED <<plug, fcConn, valid>>
\* Rejected, or not reachable.  The lock is released either way.
ReleasesNot(k) == UNCHANGED inst                   \* mutant
Releases(k)    == inst' = [inst EXCEPT ![fcall[k].on].lock = NoCred]
FetchRejected(k) ==
  /\ fcall[k].pc \in {"fetch", "refetch"} /\ Releases(k)
  /\ fcall' = [fcall EXCEPT ![k].pc = "done",
                            ![k].ans = IF fcall[k].with \in valid THEN "error" ELSE "401"]
  /\ UNCHANGED <<plug, fcConn, valid>>

\* The HTTP request itself; a closed client answers with an error.
Sends(k) ==
  /\ fcall[k].pc \in {"send", "resend"}
  /\ fcall' = [fcall EXCEPT ![k] =
       IF inst[fcall[k].on].is = "closed" THEN [@ EXCEPT !.pc = "done", !.ans = "error"]
       ELSE IF fcall[k].tok \in valid     THEN [@ EXCEPT !.pc = "done", !.ans = "ok"]
       ELSE IF fcall[k].pc = "send"       THEN [@ EXCEPT !.pc = "retry"]
       ELSE [@ EXCEPT !.pc = "done", !.ans = "401"]]
  /\ UNCHANGED <<plug, inst, fcConn, valid>>

\* The token nears its end (external: the clock); the owner of credentials that
\* are no longer used revokes them (external).
TokenExpires(i) ==
  /\ inst[i].is = "up" /\ inst[i].tok # NoCred
  /\ inst' = [inst EXCEPT ![i].tok = NoCred]
  /\ UNCHANGED <<plug, fcConn, fcall, valid>>
Revoke(c) ==
  /\ c \in valid /\ fcConn[c].pc = "done" /\ \A i \in Conns : inst[i].is = "up" => inst[i].cred # c
  /\ valid' = valid \ {c}
  /\ UNCHANGED <<plug, inst, fcConn, fcall>>

-----------------------------------------------------------------------------
CallStep(k) == \/ GetsToken(k) \/ Remints(k) \/ Fetched(k) \/ FetchRejected(k) \/ Sends(k)
FcNext ==
  \/ \E c \in Conns : \/ ConnectBegins(c) \/ Minted(c) \/ MintRejected(c)
                      \/ ClosesClients(c) \/ TokenExpires(c) \/ Revoke(c)
  \/ \E k \in FCalls : ApiCall(k) \/ CallStep(k)
  \/ Disconnect

\* The token endpoint and the API answer, or their time runs out.
FcFair == \A k \in FCalls : WF_fcVars(CallStep(k))

FcSpec == FcInit /\ [][FcNext]_fcVars /\ FcFair

-----------------------------------------------------------------------------
(* Properties. *)

\* A call that begins when the instance's credentials are good, and during which
\* they are not replaced, is never told that they are bad: a token left by
\* credentials replaced before, or by a fetch that began with them, costs the
\* one retry (_request, mint).
GoodIsNotRejected == \A k \in FCalls : fcall[k].ans = "401" => ~fcall[k].clean

\* Credentials are in memory no longer than connect needs them or an instance
\* runs, unless a call that outlives the instance fetches a token once more.
ManagersAreHeld ==
  /\ \A c \in Conns : fcConn[c].mgr = "open" => fcConn[c].pc = "mint"
  /\ \A i \in Conns : inst[i].is = "closed" /\ ~inst[i].late => ~inst[i].oauth

\* Every call is answered, whatever happens to the instance and to other calls.
CallIsAnswered == \A k \in FCalls : (fcall[k].pc = "token") ~> (fcall[k].pc = "done")
=============================================================================
