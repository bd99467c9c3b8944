--------------------------- MODULE DeviceDetection ---------------------------
(***************************************************************************)
(* The probes that tell the family of a device, at setup and whenever the  *)
(* redetect button is pressed, over a transport that may be promoted to    *)
(* one request per connection between two of them.                         *)
(*                                                                         *)
(* The device is external: it has a family, it answers the probes as units *)
(* of that family do, it may serve one request per connection only, and it *)
(* may drop the connection at a probe it does not know.                    *)
(***************************************************************************)
EXTENDS ModbusTransport, DeviceTypes

CONSTANT MaxFaults   \* bound: faults of the network

ASSUME DetectionAssumption == MaxFaults \in Nat

VARIABLES
  t,         \* the transport
  keep,      \* effective_keep_connection_open at the connect
  family,    \* of the device (external)
  answers,   \* of the device to the probes; "failure": it drops the connection
  disturbed, \* a network fault, or a socket the device had dropped before
  stage,     \* "idle", "connect", "probe" or "retry"
  probe,     \* number of the probe that is due
  again,     \* number of the probe that may be repeated, in stage "retry"
  probes,    \* the outcomes, None for a probe that has not been made
  detected   \* what the last detection returned

device == <<family, answers>>
vars   == <<t, keep, device, disturbed, stage, probe, again, probes, detected>>

NoOutcome == [p \in Probes |-> None]

(* What units of each family answer: the signatures of the tests, and the  *)
(* other answers that leave the signature as it is.                        *)
Rejections == {"unsupported", "exception", "failure"}
Answers(f) ==
  {a \in [Probes -> Outcomes] :
     CASE f = "rack_pdu" ->
            /\ a["capabilities"] = "live"
            /\ a["measurements"] = "live"
            /\ a["legacy"] = "unsupported"
            /\ a["status"] \in {"live", "unsupported"}
            /\ a["smt"] \in {"live", "unsupported"}
       [] f = "smt_ups" ->
            /\ a["capabilities"] \in Rejections
            /\ a["measurements"] \in {"unsupported", "live"}
            /\ a["legacy"] = "unsupported"
            /\ a["status"] \in {"live", "unsupported"}
            /\ a["smt"] \in Responses
       [] f = "smart_ups" ->
            /\ a["capabilities"] \in Rejections
            /\ a["measurements"] = "unsupported"
            /\ a["legacy"] \in Responses
            /\ a["status"] \in {"unsupported", "short"}
            /\ a["smt"] = "unsupported"
       [] f = "smartconnect_ups" ->
            /\ a["capabilities"] \in Rejections
            /\ a["measurements"] \in {"blank", "unsupported"}
            /\ a["legacy"] = "blank"
            /\ a["status"] = "live"
            /\ a["smt"] = "live"}

(* Setup has just connected; the button finds the transport in any state   *)
(* polls leave it in.  A device that serves one request has been found out *)
(* by then, unless nothing has been asked.                                 *)
Transports ==
  {u \in [sock : {"closed", "fresh", "used", "dead"},
          mode : {Session, OneRequest}, proven : BOOLEAN,
          failures : {0, RecreateAfter - 1},
          lastIo : {"never", "recent", "idle"}, recreated : {FALSE},
          constrained : BOOLEAN, faults : {MaxFaults}] :
     /\ u.lastIo # "never" /\ u.mode = Session => u.proven
     /\ u.proven => u.mode = Session
     /\ u.mode = OneRequest => u.sock # "used"
     /\ u.sock = "used" => ~u.constrained}

Init ==
  /\ t \in Transports
  /\ keep \in IF t.mode = Session THEN BOOLEAN ELSE {FALSE}
  /\ family \in Concrete
  /\ answers \in Answers(family)
  /\ disturbed = (t.sock = "dead")
  /\ stage = "idle"
  /\ probe = 1
  /\ again = 1
  /\ probes = NoOutcome
  /\ detected = None

-----------------------------------------------------------------------------
(* Variants of the definitions below that a plausible bug would give.      *)
NeverRepeated(p) == FALSE
PromoteOnRejection(u, outcome) ==
  IF outcome = "live" /\ u.mode = Session THEN [u EXCEPT !.proven = TRUE]
  ELSE Promote(u)

(* async_detect_device_type(): the lock is taken, the connection ensured.  *)
Start ==
  /\ stage = "idle"
  /\ stage' = "connect"
  /\ probe' = 1
  /\ again' = 1
  /\ probes' = NoOutcome
  /\ detected' = None
  /\ UNCHANGED <<t, keep, device, disturbed>>

Disturbs(u) == disturbed' = (disturbed \/ u.faults < t.faults)

Connect ==
  /\ stage = "connect"
  /\ \E c \in EnsureConnections(t, keep /\ t.mode = Session) :
       /\ t' = c.t
       /\ stage' = IF c.ok THEN "probe" ELSE "idle"
       /\ Disturbs(c.t)
  /\ UNCHANGED <<keep, device, probe, again, probes, detected>>

(* _probe_outcome(): a complete response proves the session, an exception  *)
(* of any kind promotes the transport, a rejection does neither.           *)
AfterProbe(u, outcome) ==
  IF outcome = "failure" THEN Promote(u)
  ELSE IF outcome \in Responses /\ u.mode = Session THEN [u EXCEPT !.proven = TRUE]
  ELSE u

ProbeOutcomes(p) ==
  {LET outcome == IF r.reply \in Failures THEN "failure" ELSE r.reply
       after   == IF outcome = "failure" THEN Close(r.t)
                  ELSE AfterRequest(t.mode, r.t)
   IN  [t |-> AfterProbe(after, outcome), outcome |-> outcome]
     : r \in Requests(t, answers[p])}

Ask(p) ==
  \E o \in ProbeOutcomes(p) :
    /\ t' = o.t
    /\ probes' = [probes EXCEPT ![p] = o.outcome]
    /\ Disturbs(o.t)

MakeProbe ==
  /\ stage = "probe"
  /\ probe <= Len(SchemaProbes)
  /\ Ask(SchemaProbes[probe])
  /\ stage' = IF t'.mode = OneRequest THEN "retry" ELSE "probe"
  /\ probe' = probe + 1
  /\ again' = 1
  /\ UNCHANGED <<keep, device, detected>>

(* In one-request mode every probe that has failed is made again, after    *)
(* each of the probes.                                                     *)
Repeats(p) == probes[p] = "failure"

Retry ==
  /\ stage = "retry"
  /\ IF Repeats(SchemaProbes[again])
     THEN Ask(SchemaProbes[again])
     ELSE UNCHANGED <<t, probes, disturbed>>
  /\ stage' = IF again = Len(SchemaProbes) THEN "probe" ELSE "retry"
  /\ again' = IF again = Len(SchemaProbes) THEN again ELSE again + 1
  /\ UNCHANGED <<keep, device, probe, detected>>

Finish ==
  /\ stage = "probe"
  /\ probe > Len(SchemaProbes)
  /\ detected' = Classify(probes)
  /\ stage' = "idle"
  /\ UNCHANGED <<t, keep, device, disturbed, probe, again, probes>>

Next == Start \/ Connect \/ MakeProbe \/ Retry \/ Finish

Spec == Init /\ [][Next]_vars

-----------------------------------------------------------------------------
TypeOK ==
  /\ t \in Transport
  /\ keep \in BOOLEAN
  /\ disturbed \in BOOLEAN
  /\ stage \in {"idle", "connect", "probe", "retry"}
  /\ probe \in 1 .. Len(SchemaProbes) + 1
  /\ again \in 1 .. Len(SchemaProbes)
  /\ probes \in [Probes -> Outcomes \cup {None}]
  /\ detected \in Concrete \cup {None}

(* device_types.py:140, "Classify only from definitive Modbus schema       *)
(* evidence": whatever requests the network loses, up to MaxFaults of      *)
(* them, a device is taken for none rather than for one of another family. *)
NeverTheWrongFamily == detected # None => detected = family

(* README.md:90 and 181: while the network loses nothing every device is   *)
(* recognised at once: one that serves one request per connection, one     *)
(* that drops the connection at the Rack PDU probe, and one that dropped   *)
(* the kept connection before.                                             *)
Finished == stage = "idle" /\ probe > Len(SchemaProbes)

FamilyFound == Finished /\ t.faults = MaxFaults => detected = family

(* A device that answers or rejects every probe on one connection is not   *)
(* promoted to one request per connection by being probed.                 *)
SessionKept ==
  [][ t.mode = Session /\ t'.mode = OneRequest =>
        \/ t.constrained
        \/ disturbed'
        \/ \E p \in Probes : answers[p] = "failure" ]_vars
=============================================================================
