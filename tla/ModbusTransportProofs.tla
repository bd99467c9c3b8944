------------------------ MODULE ModbusTransportProofs ------------------------
(***************************************************************************)
(* What the operations of the transport leave behind, for every transport. *)
(* The proofs about the poller and the detection rest on these lemmas.     *)
(***************************************************************************)
EXTENDS ModbusTransport, TLAPS

LEMMA RecreateAfterPositive == RecreateAfter \in Nat /\ RecreateAfter > 0
BY TransportAssumption

-----------------------------------------------------------------------------
(* The operations of the transport.  Each leaves a transport in the mode   *)
(* it had, at least one network fault poorer when one happened.            *)
LEMMA ConnectsEnds ==
  ASSUME NEW u \in Transport, NEW c \in Connects(u)
  PROVE  /\ c.t \in Transport /\ c.ok \in BOOLEAN /\ c.t.faults <= u.faults
         /\ c.t.mode = u.mode /\ c.t.constrained = u.constrained
         /\ c.t.proven = u.proven
         /\ c.ok  => /\ c.t.faults = u.faults
                     /\ c.t.sock = IF u.sock = "closed" THEN "fresh" ELSE u.sock
         /\ ~c.ok => c.t.faults < u.faults /\ c.t.sock = "closed"
<1>1. CASE u.sock # "closed"
  <2>1. c = [t |-> u, ok |-> TRUE]
    BY <1>1 DEF Connects
  <2>2. c.t = u /\ c.ok = TRUE
    BY <2>1
  <2>3. u.faults <= u.faults
    BY DEF Transport
  <2>4. QED
    BY <1>1, <2>2, <2>3
<1>2. CASE /\ u.sock = "closed"
           /\ c = [t |-> [u EXCEPT !.sock = "fresh"], ok |-> TRUE]
  <2>1. c.t = [u EXCEPT !.sock = "fresh"] /\ c.ok = TRUE /\ u.faults \in Nat
    BY <1>2 DEF Transport
  <2>2. QED
    BY <1>2, <2>1 DEF Transport
<1>3. CASE /\ u.sock = "closed" /\ u.faults > 0
           /\ c = [t |-> [u EXCEPT !.faults = u.faults - 1], ok |-> FALSE]
  <2>1. /\ u.faults \in Nat /\ u.faults - 1 \in Nat
        /\ u.faults - 1 < u.faults /\ u.faults - 1 <= u.faults
    BY <1>3 DEF Transport
  <2>2. c.t = [u EXCEPT !.faults = u.faults - 1] /\ c.ok = FALSE
    BY <1>3
  <2>3. c.t \in Transport /\ c.t.faults = u.faults - 1
    BY <2>1, <2>2 DEF Transport
  <2>4. /\ c.t.mode = u.mode /\ c.t.constrained = u.constrained
        /\ c.t.sock = u.sock /\ c.t.proven = u.proven
    BY <2>2 DEF Transport
  <2>5. QED
    BY <1>3, <2>1, <2>2, <2>3, <2>4
<1>4. QED
  BY <1>1, <1>2, <1>3 DEF Connects

LEMMA CloseType ==
  ASSUME NEW u \in Transport
  PROVE  /\ Close(u) \in Transport
         /\ Close(u).mode = u.mode /\ Close(u).constrained = u.constrained
         /\ Close(u).faults = u.faults /\ Close(u).sock = "closed"
         /\ Close(u).proven = u.proven
BY DEF Close, Transport

LEMMA MarkIoType ==
  ASSUME NEW u \in Transport
  PROVE  /\ MarkIo(u) \in Transport
         /\ MarkIo(u).mode = u.mode /\ MarkIo(u).constrained = u.constrained
         /\ MarkIo(u).faults = u.faults /\ MarkIo(u).sock = u.sock
         /\ u.mode = Session => MarkIo(u).proven
BY DEF MarkIo, Transport

LEMMA PromoteType ==
  ASSUME NEW u \in Transport, NEW failure
  PROVE  LET v == RecordFailure(u, failure) IN
         /\ v \in Transport /\ v.mode \in {u.mode, OneRequest}
         /\ v.constrained = u.constrained
         /\ v.faults = u.faults /\ v.sock = u.sock
BY DEF RecordFailure, Promote, Transport
LEMMA FailuresType ==
  ASSUME NEW u \in Transport, NEW n \in 0 .. RecreateAfter - 1
  PROVE  LET v == [u EXCEPT !.failures = n] IN
         /\ v \in Transport /\ v.mode = u.mode
         /\ v.constrained = u.constrained
         /\ v.faults = u.faults /\ v.sock = u.sock /\ v.proven = u.proven
BY DEF Transport

LEMMA NoFailures == 0 \in 0 .. RecreateAfter - 1
BY RecreateAfterPositive

LEMMA RequestsEnds ==
  ASSUME NEW u \in Transport, NEW answer, answer \notin Failures,
         NEW r \in Requests(u, answer)
  PROVE  /\ r.t \in Transport /\ r.t.mode = u.mode
         /\ r.t.constrained = u.constrained /\ r.t.proven = u.proven
         /\ r.t.faults <= u.faults /\ r.t.sock \in {"closed", "used"}
         /\ r.reply \in {answer} \cup Failures
         /\ r.reply \in Failures => r.t.sock = "closed"
         /\ r.t.faults = u.faults /\ r.reply # answer =>
              /\ r.reply \in {"connection", "reset"}
              /\ u.sock = "dead" \/ (u.sock = "used" /\ u.constrained)
<1> DEFINE Fails(v, kinds) == {[t |-> Close(v), reply |-> k] : k \in kinds}
           Sent(v) ==
             IF v.sock = "dead" \/ (v.sock = "used" /\ v.constrained)
             THEN Fails(v, {"connection", "reset"})
             ELSE {[t |-> [v EXCEPT !.sock = "used"], reply |-> answer]}
                    \cup (IF v.faults > 0
                          THEN Fails([v EXCEPT !.faults = v.faults - 1],
                                     Failures)
                          ELSE {})
<1>1. PICK c \in Connects(u) :
        r \in IF c.ok THEN Sent(c.t) ELSE Fails(c.t, {"connection"})
  BY DEF Requests
<1>2. /\ c.t \in Transport /\ c.ok \in BOOLEAN
      /\ c.t.mode = u.mode /\ c.t.constrained = u.constrained
      /\ c.t.proven = u.proven
      /\ c.ok  => /\ c.t.faults = u.faults
                  /\ c.t.sock = IF u.sock = "closed" THEN "fresh" ELSE u.sock
      /\ ~c.ok => c.t.faults < u.faults /\ c.t.sock = "closed"
  BY ConnectsEnds
<1>3. u.faults \in Nat /\ c.t.faults \in Nat
  BY <1>2 DEF Transport
<1>4. CASE ~c.ok
  <2>1. r.t = Close(c.t) /\ r.reply = "connection"
    BY <1>1, <1>4
  <2>2. QED
    BY <1>2, <1>3, <1>4, <2>1, CloseType DEF Failures
<1>5. CASE c.ok
  <2> DEFINE v == c.t
  <2>1. r \in Sent(v)
    BY <1>1, <1>5
  <2>2. CASE /\ v.sock = "dead" \/ (v.sock = "used" /\ v.constrained)
             /\ r.t = Close(v) /\ r.reply \in {"connection", "reset"}
    BY <1>2, <1>3, <1>5, <2>2, CloseType DEF Failures
  <2>3. CASE r.t = [v EXCEPT !.sock = "used"] /\ r.reply = answer
    <3>1. /\ r.t \in Transport /\ r.t.mode = v.mode /\ r.t.faults = v.faults
          /\ r.t.constrained = v.constrained /\ r.t.proven = v.proven
          /\ r.t.sock = "used"
      BY <1>2, <2>3 DEF Transport
    <3>2. QED
      BY <1>2, <1>3, <1>5, <2>3, <3>1
  <2>4. CASE /\ v.faults > 0
             /\ r.t = Close([v EXCEPT !.faults = v.faults - 1])
             /\ r.reply \in Failures
    <3> DEFINE w == [v EXCEPT !.faults = v.faults - 1]
    <3>1. v.faults - 1 \in Nat /\ v.faults - 1 < v.faults
      BY <1>3, <2>4
    <3>2. /\ w \in Transport /\ w.mode = v.mode /\ w.faults = v.faults - 1
          /\ w.constrained = v.constrained /\ w.proven = v.proven
      BY <1>2, <3>1 DEF Transport
    <3> HIDE DEF w
    <3>3. r.t = Close(w)
      BY <2>4 DEF w
    <3>4. QED
      BY <1>2, <1>3, <1>5, <2>4, <3>1, <3>2, <3>3, CloseType
  <2>5. \/ /\ v.sock = "dead" \/ (v.sock = "used" /\ v.constrained)
           /\ r \in Fails(v, {"connection", "reset"})
        \/ r \in {[t |-> [v EXCEPT !.sock = "used"], reply |-> answer]}
        \/ /\ v.faults > 0
           /\ r \in Fails([v EXCEPT !.faults = v.faults - 1], Failures)
    BY <2>1
  <2>6. QED
    BY <2>2, <2>3, <2>4, <2>5
<1>6. QED
  BY <1>2, <1>4, <1>5

LEMMA ReadsEnds ==
  ASSUME NEW u \in Transport, NEW answer, answer \notin Failures,
         NEW r \in Reads(u, answer)
  PROVE  /\ r.t \in Transport /\ r.t.mode = u.mode
         /\ r.t.constrained = u.constrained /\ r.t.faults <= u.faults
         /\ r.reply \in {answer} \cup Failures
         /\ r.reply \in Failures \/ u.mode = OneRequest => r.t.sock = "closed"
         /\ r.t.faults = u.faults =>
              /\ r.reply \in {answer, "connection", "reset"}
              /\ u.sock \in {"closed", "fresh"} => r.reply = answer
              /\ r.reply # answer => u.sock = "dead" \/ u.constrained
<1> DEFINE After(q) == AfterRequest(u.mode, q.t)
<1>1. PICK q \in Requests(u, answer) :
        r = [t |-> IF q.reply \in Failures THEN After(q) ELSE MarkIo(After(q)),
             reply |-> q.reply]
  BY DEF Reads
<1>2. /\ q.t \in Transport /\ q.t.mode = u.mode
      /\ q.t.constrained = u.constrained /\ q.t.faults <= u.faults
      /\ q.reply \in {answer} \cup Failures
      /\ q.reply \in Failures => q.t.sock = "closed"
      /\ q.t.faults = u.faults /\ q.reply # answer =>
           /\ q.reply \in {"connection", "reset"}
           /\ u.sock = "dead" \/ (u.sock = "used" /\ u.constrained)
  BY RequestsEnds
<1>3. /\ After(q) \in Transport /\ After(q).mode = q.t.mode
      /\ After(q).constrained = q.t.constrained
      /\ After(q).faults = q.t.faults
      /\ After(q).sock = IF u.mode = OneRequest THEN "closed" ELSE q.t.sock
  BY <1>2, CloseType DEF AfterRequest
<1> HIDE DEF After
<1>4. /\ r.t \in Transport /\ r.t.mode = After(q).mode
      /\ r.t.constrained = After(q).constrained
      /\ r.t.faults = After(q).faults /\ r.t.sock = After(q).sock
      /\ r.reply = q.reply
  BY <1>1, <1>3, MarkIoType
<1>5. QED
  BY <1>2, <1>3, <1>4

LEMMA ReconnectsEnds ==
  ASSUME NEW u \in Transport, NEW recreate \in BOOLEAN,
         NEW c \in Reconnects(u, recreate)
  PROVE  /\ c.t \in Transport /\ c.ok \in BOOLEAN /\ c.t.faults <= u.faults
         /\ c.t.mode = u.mode /\ c.t.constrained = u.constrained
         /\ c.ok  => c.t.faults = u.faults /\ c.t.sock = "fresh"
         /\ ~c.ok => c.t.faults < u.faults /\ c.t.sock = "closed"
         /\ c.ok /\ u.mode = Session => c.t.proven
<1> DEFINE v == [Close(u) EXCEPT !.recreated = u.recreated \/ recreate]
<1>1. /\ v \in Transport /\ v.mode = u.mode /\ v.constrained = u.constrained
      /\ v.faults = u.faults /\ v.sock = "closed"
  BY CloseType DEF Transport
<1>2. PICK d \in Connects(v) :
        c = IF d.ok
            THEN [t |-> [MarkIo(d.t) EXCEPT !.failures = 0], ok |-> TRUE]
            ELSE d
  BY DEF Reconnects
<1> HIDE DEF v
<1>3. /\ d.t \in Transport /\ d.ok \in BOOLEAN /\ d.t.faults <= u.faults
      /\ d.t.mode = u.mode /\ d.t.constrained = u.constrained
      /\ d.ok  => d.t.faults = u.faults /\ d.t.sock = "fresh"
      /\ ~d.ok => d.t.faults < u.faults /\ d.t.sock = "closed"
  BY <1>1, ConnectsEnds
<1>4. CASE d.ok
  <2> DEFINE w == MarkIo(d.t)
  <2>1. /\ w \in Transport /\ w.mode = u.mode /\ w.constrained = u.constrained
        /\ w.faults = u.faults /\ w.sock = "fresh"
        /\ u.mode = Session => w.proven
    BY <1>3, <1>4, MarkIoType
  <2> HIDE DEF w
  <2>2. c.t = [w EXCEPT !.failures = 0] /\ c.ok = TRUE
    BY <1>2, <1>4 DEF w
  <2> DEFINE x == [w EXCEPT !.failures = 0]
  <2>3. /\ x \in Transport /\ x.mode = w.mode
        /\ x.constrained = w.constrained
        /\ x.faults = w.faults /\ x.sock = w.sock /\ x.proven = w.proven
    BY <2>1, FailuresType, NoFailures
  <2> HIDE DEF x
  <2>4. /\ c.t \in Transport /\ c.t.mode = w.mode
        /\ c.t.constrained = w.constrained
        /\ c.t.faults = w.faults /\ c.t.sock = w.sock
        /\ c.t.proven = w.proven
    BY <2>2, <2>3 DEF x
  <2>5. u.faults \in Nat
    BY DEF Transport
  <2>6. c.t.faults <= u.faults
    BY <2>1, <2>4, <2>5
  <2>7. QED
    BY <2>1, <2>2, <2>4, <2>6
<1>5. CASE ~d.ok
  BY <1>2, <1>3, <1>5
<1>6. QED
  BY <1>3, <1>4, <1>5

LEMMA EnsureEnds ==
  ASSUME NEW u \in Transport, NEW kept \in BOOLEAN,
         NEW c \in EnsureConnections(u, kept)
  PROVE  /\ c.t \in Transport /\ c.ok \in BOOLEAN
         /\ c.t.mode = u.mode /\ c.t.faults <= u.faults
         /\ u.mode = OneRequest => c.t = u
         /\ ~c.ok => c.t.sock = "closed" /\ c.t.faults < u.faults
         /\ c.t.constrained = u.constrained
         /\ c.t.sock = "dead" => u.sock = "dead"
         /\ c.ok /\ u.mode = Session => c.t.proven
<1>1. CASE u.mode = OneRequest
  <2>1. c = [t |-> u, ok |-> TRUE]
    BY <1>1 DEF EnsureConnections
  <2>2. u.faults \in Nat
    BY DEF Transport
  <2>3. QED
    BY <1>1, <2>1, <2>2 DEF Session, OneRequest
<1>2. CASE u.mode # OneRequest /\ kept /\ u.lastIo = "idle"
  <2>1. PICK d \in Reconnects(u, FALSE) :
          c \in IF d.ok THEN {d} ELSE Reconnects(d.t, TRUE)
    BY <1>2 DEF EnsureConnections
  <2>2. /\ d.t \in Transport /\ d.ok \in BOOLEAN /\ d.t.mode = u.mode
        /\ d.t.faults <= u.faults /\ d.t.constrained = u.constrained
        /\ d.ok => d.t.sock = "fresh" /\ (u.mode = Session => d.t.proven)
        /\ ~d.ok => d.t.faults < u.faults
    BY ReconnectsEnds
  <2>3. CASE d.ok
    BY <1>2, <2>1, <2>2, <2>3
  <2>4. CASE ~d.ok
    <3>1. c \in Reconnects(d.t, TRUE)
      BY <2>1, <2>4
    <3>2. /\ c.t \in Transport /\ c.ok \in BOOLEAN /\ c.t.mode = d.t.mode
          /\ c.t.faults <= d.t.faults /\ c.t.constrained = d.t.constrained
          /\ c.ok => c.t.sock = "fresh" /\ (d.t.mode = Session => c.t.proven)
          /\ ~c.ok => c.t.sock = "closed" /\ c.t.faults < d.t.faults
      BY <2>2, <3>1, ReconnectsEnds
    <3>3. c.t.faults \in Nat /\ d.t.faults \in Nat /\ u.faults \in Nat
      BY <2>2, <3>2 DEF Transport
    <3>4. QED
      BY <1>2, <2>2, <2>4, <3>2, <3>3
  <2>5. QED
    BY <2>2, <2>3, <2>4
<1>3. CASE u.mode # OneRequest /\ ~(kept /\ u.lastIo = "idle")
  <2>1. PICK d \in Connects(u) :
          c \in IF d.ok
                THEN {[t |-> [MarkIo(d.t) EXCEPT !.failures = 0], ok |-> TRUE]}
                ELSE IF d.t.failures + 1 >= RecreateAfter
                THEN Reconnects([d.t EXCEPT !.failures = 0], TRUE)
                ELSE {[t |-> [d.t EXCEPT !.failures = d.t.failures + 1],
                       ok |-> FALSE]}
    BY <1>3 DEF EnsureConnections
  <2>2. /\ d.t \in Transport /\ d.ok \in BOOLEAN /\ d.t.mode = u.mode
        /\ d.t.faults <= u.faults
        /\ d.t.constrained = u.constrained
        /\ ~d.ok => d.t.sock = "closed" /\ d.t.faults < u.faults
        /\ d.t.sock = "dead" => u.sock = "dead"
    BY ConnectsEnds
  <2> d.t.failures \in Nat /\ RecreateAfter \in Nat
    BY <2>2, RecreateAfterPositive DEF Transport
  <2>3. CASE d.ok
    <3> DEFINE w == MarkIo(d.t)
    <3>1. /\ w \in Transport /\ w.mode = u.mode /\ w.faults <= u.faults
          /\ w.constrained = u.constrained /\ w.sock = d.t.sock
          /\ u.mode = Session => w.proven
      BY <2>2, MarkIoType
    <3>2. c = [t |-> [MarkIo(d.t) EXCEPT !.failures = 0], ok |-> TRUE]
      BY <2>1, <2>3
    <3>3. c.t = [w EXCEPT !.failures = 0] /\ c.ok = TRUE
      BY <3>2
    <3> HIDE DEF w
    <3>4. /\ c.t \in Transport /\ c.t.mode = w.mode /\ c.t.faults = w.faults
          /\ c.t.constrained = w.constrained /\ c.t.sock = w.sock
          /\ c.t.proven = w.proven
      BY <3>1, <3>3, FailuresType, NoFailures
    <3>5. QED
      BY <1>3, <2>2, <3>1, <3>3, <3>4
  <2>4. CASE ~d.ok /\ d.t.failures + 1 >= RecreateAfter
    <3> DEFINE w == [d.t EXCEPT !.failures = 0]
    <3>1. /\ w \in Transport /\ w.mode = u.mode /\ w.faults < u.faults
          /\ w.constrained = u.constrained
      BY <2>2, <2>4, FailuresType, NoFailures
    <3>2. c \in Reconnects(w, TRUE)
      BY <2>1, <2>4
    <3> HIDE DEF w
    <3>3. /\ c.t \in Transport /\ c.ok \in BOOLEAN /\ c.t.mode = w.mode
          /\ c.t.faults <= w.faults /\ c.t.constrained = w.constrained
          /\ c.ok => c.t.sock = "fresh" /\ (w.mode = Session => c.t.proven)
          /\ ~c.ok => c.t.sock = "closed"
      BY <3>1, <3>2, ReconnectsEnds
    <3>4. c.t.faults \in Nat /\ w.faults \in Nat /\ u.faults \in Nat
      BY <3>1, <3>3 DEF Transport
    <3>5. QED
      BY <1>3, <3>1, <3>3, <3>4
  <2>5. CASE ~d.ok /\ ~(d.t.failures + 1 >= RecreateAfter)
    <3> DEFINE n == d.t.failures + 1
    <3>1. n \in 0 .. RecreateAfter - 1
      BY <2>2, <2>5 DEF Transport
    <3>2. c \in {[t |-> [d.t EXCEPT !.failures = n], ok |-> FALSE]}
      BY <2>1, <2>5
    <3> HIDE DEF n
    <3>3. c.t = [d.t EXCEPT !.failures = n] /\ c.ok = FALSE
      BY <3>2
    <3>4. /\ c.t \in Transport /\ c.t.mode = d.t.mode
          /\ c.t.faults = d.t.faults /\ c.t.sock = d.t.sock
          /\ c.t.constrained = d.t.constrained
      BY <2>2, <3>1, <3>3, FailuresType
    <3>5. QED
      BY <1>3, <2>2, <2>5, <3>3, <3>4
  <2>6. QED
    BY <2>2, <2>3, <2>4, <2>5
<1>4. QED
  BY <1>1, <1>2, <1>3

(* A retried read ends in the answer of the device unless a fault of the   *)
(* network happened, whatever the state of the connection was.             *)
LEMMA RetryEnds ==
  ASSUME NEW u \in Transport, NEW answer, answer \notin Failures,
         NEW r \in ReadsWithReconnect(u, answer)
  PROVE  /\ r.t \in Transport /\ r.t.mode \in {u.mode, OneRequest}
         /\ r.t.faults <= u.faults
         /\ r.reply \in {answer, "error"} \cup Failures
         /\ r.t.mode = OneRequest => r.t.sock = "closed"
         /\ r.t.faults = u.faults => r.reply = answer
         /\ r.t.mode # u.mode /\ r.t.faults = u.faults =>
              u.sock = "dead" \/ u.constrained
         /\ r.t.constrained = u.constrained
<1> DEFINE Again(c) == IF c.ok THEN Reads(c.t, answer)
                       ELSE {[t |-> c.t, reply |-> "error"]}
           Retried(v, recreate) ==
             UNION {IF c.ok \/ recreate THEN Again(c)
                    ELSE UNION {Again(d) : d \in Reconnects(c.t, TRUE)}
                      : c \in Reconnects(v, recreate)}
           After(q) ==
             LET v == RecordFailure(q.t, q.reply)
             IN  IF q.reply \in {"connection", "reset"}
                 THEN Retried(v, q.reply = "reset")
                 ELSE {[t |-> v, reply |-> q.reply]}
           Ends(v, x) ==
             /\ x.t \in Transport /\ x.t.mode = v.mode
             /\ x.t.faults <= v.faults /\ x.t.constrained = v.constrained
             /\ x.reply \in {answer, "error"} \cup Failures
             /\ x.t.sock = "closed" \/ x.t.mode # OneRequest
             /\ x.t.faults = v.faults => x.reply = answer
<1>1. ASSUME NEW v \in Transport, NEW recreate \in BOOLEAN,
             NEW c \in Reconnects(v, recreate), NEW x \in Again(c)
      PROVE  Ends(v, x)
  <2>1. /\ c.t \in Transport /\ c.ok \in BOOLEAN /\ c.t.faults <= v.faults
        /\ c.t.mode = v.mode /\ c.t.constrained = v.constrained
        /\ c.ok  => c.t.faults = v.faults /\ c.t.sock = "fresh"
        /\ ~c.ok => c.t.faults < v.faults /\ c.t.sock = "closed"
    BY <1>1, ReconnectsEnds
  <2>2. c.t.faults \in Nat /\ v.faults \in Nat
    BY <2>1 DEF Transport
  <2>3. CASE c.ok
    <3>1. x \in Reads(c.t, answer)
      BY <1>1, <2>3
    <3>2. /\ x.t \in Transport /\ x.t.mode = c.t.mode
          /\ x.t.faults <= c.t.faults /\ x.t.constrained = c.t.constrained
          /\ x.reply \in {answer} \cup Failures
          /\ x.reply \in Failures \/ c.t.mode = OneRequest =>
               x.t.sock = "closed"
          /\ x.t.faults = c.t.faults /\ c.t.sock \in {"closed", "fresh"} =>
               x.reply = answer
      BY <2>1, <3>1, ReadsEnds
    <3>3. QED
      BY <2>1, <2>3, <3>2
  <2>4. CASE ~c.ok
    <3>1. x.t = c.t /\ x.reply = "error"
      BY <1>1, <2>4
    <3>2. c.t.faults # v.faults
      BY <2>1, <2>2, <2>4
    <3>3. QED
      BY <2>1, <2>4, <3>1, <3>2
  <2>5. QED
    BY <2>3, <2>4
<1>2. ASSUME NEW v \in Transport, NEW recreate \in BOOLEAN,
             NEW x \in Retried(v, recreate)
      PROVE  Ends(v, x)
  <2>1. PICK c \in Reconnects(v, recreate) :
          x \in IF c.ok \/ recreate THEN Again(c)
                ELSE UNION {Again(d) : d \in Reconnects(c.t, TRUE)}
    BY <1>2
  <2>2. CASE c.ok \/ recreate
    <3>1. x \in Again(c)
      BY <2>1, <2>2
    <3> HIDE DEF Again, Ends
    <3>2. QED
      BY <1>1, <1>2, <3>1
  <2>3. CASE ~(c.ok \/ recreate)
    <3>1. PICK d \in Reconnects(c.t, TRUE) : x \in Again(d)
      BY <2>1, <2>3
    <3>2. /\ c.t \in Transport /\ c.t.mode = v.mode /\ c.t.faults < v.faults
          /\ c.t.constrained = v.constrained
      BY <1>2, <2>3, ReconnectsEnds
    <3>3. Ends(c.t, x)
      <4> HIDE DEF Again, Ends
      <4>1. QED
        BY <1>1, <3>1, <3>2
    <3>4. x.t.faults \in Nat /\ c.t.faults \in Nat /\ v.faults \in Nat
      BY <1>2, <3>2, <3>3 DEF Transport
    <3>5. x.t.faults <= v.faults /\ x.t.faults # v.faults
      BY <3>2, <3>3, <3>4
    <3>6. QED
      BY <3>2, <3>3, <3>5
  <2>4. QED
    BY <2>2, <2>3
<1>3. PICK q \in Reads(u, answer) :
        r \in IF q.reply \in Failures THEN After(q) ELSE {q}
  BY DEF ReadsWithReconnect
<1>4. /\ q.t \in Transport /\ q.t.mode = u.mode
      /\ q.t.faults <= u.faults /\ q.t.constrained = u.constrained
      /\ q.reply \in {answer} \cup Failures
      /\ q.reply \in Failures \/ u.mode = OneRequest => q.t.sock = "closed"
      /\ q.t.faults = u.faults => q.reply \in {answer, "connection", "reset"}
      /\ q.t.faults = u.faults /\ q.reply # answer =>
           u.sock = "dead" \/ u.constrained
  BY ReadsEnds
<1>5. CASE q.reply \notin Failures
  <2>1. r = q
    BY <1>3, <1>5
  <2>2. QED
    BY <1>4, <1>5, <2>1 DEF Failures
<1>6. CASE q.reply \in Failures
  <2> DEFINE v == RecordFailure(q.t, q.reply)
  <2>1. /\ v \in Transport /\ v.mode \in {u.mode, OneRequest}
        /\ v.faults = q.t.faults /\ v.sock = "closed"
        /\ v.constrained = u.constrained
    BY <1>4, <1>6, PromoteType
  <2>2. CASE q.reply \in {"connection", "reset"}
    <3>1. r \in Retried(v, q.reply = "reset")
      BY <1>3, <1>6, <2>2
    <3>2. Ends(v, r)
      <4> HIDE DEF Retried, Ends, v
      <4>1. QED
        BY <1>2, <2>1, <3>1
    <3> HIDE DEF v
    <3>3. r.t.faults \in Nat /\ q.t.faults \in Nat /\ u.faults \in Nat
      BY <1>4, <3>2 DEF Transport
    <3>4. /\ r.t.faults <= u.faults
          /\ r.t.faults = u.faults =>
               r.t.faults = v.faults /\ q.t.faults = u.faults
      BY <1>4, <2>1, <3>2, <3>3
    <3>5. QED
      BY <1>4, <1>6, <2>1, <3>2, <3>4
  <2>3. CASE q.reply \notin {"connection", "reset"}
    <3>1. r.t = v /\ r.reply = q.reply
      BY <1>3, <1>6, <2>3
    <3> HIDE DEF v
    <3>2. r.t.faults # u.faults
      BY <1>4, <1>6, <2>1, <2>3, <3>1
    <3>3. QED
      BY <1>4, <1>6, <2>1, <3>1, <3>2
  <2>4. QED
    BY <2>2, <2>3
<1>7. QED
  BY <1>5, <1>6
=============================================================================
