--------------------------- MODULE ModbusTransport ---------------------------
(***************************************************************************)
(* modbus_transport.py and the retry of modbus_poller.py, as operators.    *)
(*                                                                         *)
(* A method that talks to the device may end in several ways, so each is   *)
(* the set of its outcomes, records with the transport t afterwards and    *)
(* what the caller gets.  All of them run under the endpoint's io_lock.    *)
(*                                                                         *)
(* The client's socket is "closed", "fresh" (connected, no request yet),   *)
(* "used", or "dead" (dropped by the server, which the client does not     *)
(* know).  Two fields describe what is outside: constrained says that the  *)
(* device serves one request per connection only, and faults is the number *)
(* of network faults that may still happen, a bound.                       *)
(***************************************************************************)
EXTENDS Integers

CONSTANT
  RecreateAfter   \* failed connects before the client is recreated (3)

ASSUME TransportAssumption == RecreateAfter \in Nat \ {0}

Session    == "session"
OneRequest == "one_request_per_connection"

(* How a request fails.  "connection": ConnectionException; "reset": a     *)
(* reset or a broken pipe; "timeout": another OSError or TimeoutError;     *)
(* "io": another ModbusException.                                          *)
Failures == {"connection", "reset", "timeout", "io"}

Transport == [sock      : {"closed", "fresh", "used", "dead"},
              mode      : {Session, OneRequest},
              proven    : BOOLEAN,                  \* session_request_succeeded
              failures  : 0 .. RecreateAfter - 1,   \* connect_failures
              lastIo    : {"never", "recent", "idle"},
              recreated : BOOLEAN,     \* the client is no longer the first one
              constrained : BOOLEAN,
              faults    : Nat]

NewTransport(mode, constrained, faults) ==
  [sock |-> "closed", mode |-> mode, proven |-> FALSE, failures |-> 0,
   lastIo |-> "never", recreated |-> FALSE,
   constrained |-> constrained, faults |-> faults]

-----------------------------------------------------------------------------
(* Variants of the definitions below that a plausible bug would give.      *)
AfterRequestOpen(mode, t) == t
PromoteMisnamed(t) ==
  IF t.mode = Session /\ t.proven THEN [t EXCEPT !.mode = "one_request"] ELSE t

(* mark_io_activity(), which a successful connect calls too.               *)
MarkIo(t) == [t EXCEPT !.lastIo = "recent",
                       !.proven = t.proven \/ t.mode = Session]

Promote(t) ==
  IF t.mode = Session /\ t.proven THEN [t EXCEPT !.mode = OneRequest] ELSE t

(* record_failure(): a ModbusException other than ConnectionException says *)
(* nothing about the connection.                                           *)
RecordFailure(t, failure) == IF failure = "io" THEN t ELSE Promote(t)

Close(t) == [t EXCEPT !.sock = "closed"]

(* client.connect() (external): a client that has a socket returns at once. *)
Connects(t) ==
  IF t.sock # "closed" THEN {[t |-> t, ok |-> TRUE]}
  ELSE {[t |-> [t EXCEPT !.sock = "fresh"], ok |-> TRUE]}
         \cup (IF t.faults > 0
               THEN {[t |-> [t EXCEPT !.faults = t.faults - 1], ok |-> FALSE]}
               ELSE {})

(* One request of a client (external): it connects if it must, and closes  *)
(* its socket when the connection fails.                                   *)
Requests(t, answer) ==
  LET Fails(u, kinds) == {[t |-> Close(u), reply |-> k] : k \in kinds}
      Sent(u) ==
        IF u.sock = "dead" \/ (u.sock = "used" /\ u.constrained)
        THEN Fails(u, {"connection", "reset"})
        ELSE {[t |-> [u EXCEPT !.sock = "used"], reply |-> answer]}
               \cup (IF u.faults > 0
                     THEN Fails([u EXCEPT !.faults = u.faults - 1], Failures)
                     ELSE {})
  IN  UNION {IF c.ok THEN Sent(c.t) ELSE Fails(c.t, {"connection"})
               : c \in Connects(t)}

(* read(): in one-request mode each request has a connection of its own,   *)
(* which is closed whatever becomes of it.                                 *)
AfterRequest(mode, t) == IF mode = OneRequest THEN Close(t) ELSE t

Reads(t, answer) ==
  LET Done(r) == LET u == AfterRequest(t.mode, r.t)
                 IN  IF r.reply \in Failures THEN u ELSE MarkIo(u)
  IN  {[t |-> Done(r), reply |-> r.reply] : r \in Requests(t, answer)}

(* reconnect()                                                             *)
Reconnects(t, recreate) ==
  LET closed == [Close(t) EXCEPT !.recreated = t.recreated \/ recreate]
  IN  {IF c.ok THEN [t |-> [MarkIo(c.t) EXCEPT !.failures = 0], ok |-> TRUE]
       ELSE c : c \in Connects(closed)}

(* ensure_connection(): a kept connection that has been idle too long is   *)
(* renewed, and so is the client after RecreateAfter failed connects.      *)
EnsureConnections(t, keep) ==
  IF t.mode = OneRequest THEN {[t |-> t, ok |-> TRUE]}
  ELSE IF keep /\ t.lastIo = "idle"
  THEN UNION {IF c.ok THEN {c} ELSE Reconnects(c.t, TRUE)
                : c \in Reconnects(t, FALSE)}
  ELSE UNION {IF c.ok
              THEN {[t |-> [MarkIo(c.t) EXCEPT !.failures = 0], ok |-> TRUE]}
              ELSE IF c.t.failures + 1 >= RecreateAfter
              THEN Reconnects([c.t EXCEPT !.failures = 0], TRUE)
              ELSE {[t |-> [c.t EXCEPT !.failures = c.t.failures + 1],
                     ok |-> FALSE]}
                : c \in Connects(t)}

(* _read_with_reconnect() of the poller: one retry, on a new connection,   *)
(* of a request whose connection failed; "error" stands for its None.      *)
ReadsWithReconnect(t, answer) ==
  LET Again(c) == IF c.ok THEN Reads(c.t, answer)
                  ELSE {[t |-> c.t, reply |-> "error"]}
      Retried(u, recreate) ==
        UNION {IF c.ok \/ recreate THEN Again(c)
               ELSE UNION {Again(d) : d \in Reconnects(c.t, TRUE)}
                 : c \in Reconnects(u, recreate)}
      After(r) ==
        LET u == RecordFailure(r.t, r.reply)
        IN  IF r.reply \in {"connection", "reset"}
            THEN Retried(u, r.reply = "reset")
            ELSE {[t |-> u, reply |-> r.reply]}
  IN  UNION {IF r.reply \in Failures THEN After(r) ELSE {r}
               : r \in Reads(t, answer)}
=============================================================================
