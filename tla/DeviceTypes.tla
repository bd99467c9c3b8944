----------------------------- MODULE DeviceTypes -----------------------------
(***************************************************************************)
(* device_types.py: what the answers to five read-only probes say of the   *)
(* register family of a device, and which family an entry then has.        *)
(*                                                                         *)
(* The outcome of a probe is "live" or "blank" when the response is        *)
(* complete, and otherwise what became of it.  Of the registers only what  *)
(* the classification looks at is kept, and it is "blank" that             *)
(*   capabilities: the counts do not fit each other, or are all zero;      *)
(*   measurements: the sixth register is not in 0 .. 4;                    *)
(*   legacy, smt:  every register is 0xFFFF;                               *)
(*   status:       every register is 0.                                    *)
(***************************************************************************)
EXTENDS Integers, Sequences

None == "None"

Concrete == {"smart_ups", "smt_ups", "rack_pdu", "smartconnect_ups"}
DeviceType == Concrete \cup {"ups", "unknown"}

(* The names of SCHEMA_PROBES, in their order.                             *)
SchemaProbes == <<"capabilities", "measurements", "legacy", "status", "smt">>
Probes == {SchemaProbes[i] : i \in DOMAIN SchemaProbes}

Responses == {"live", "blank"}

(* "unsupported": exception code 2; "exception": any other; "failure": the *)
(* transport failed, which says nothing of the device.                     *)
Outcomes == Responses \cup {"unsupported", "exception", "short", "failure"}

(* A variant that a plausible bug would give: no answer is taken for a     *)
(* rejection.                                                              *)
UnsupportedOrSilent(outcome) == outcome \in {"unsupported", "failure"}

Unsupported(outcome) == outcome = "unsupported"

CoherentRackPdu(p) == p["capabilities"] = "live" /\ p["measurements"] = "live"

Responds(outcome) == outcome \in Responses

(* classify_device_type(): None unless the evidence is definitive.         *)
Classify(p) ==
  IF CoherentRackPdu(p) THEN "rack_pdu"
  ELSE IF Responds(p["smt"]) /\ Unsupported(p["legacy"]) THEN "smt_ups"
  ELSE IF Responds(p["legacy"]) /\ Unsupported(p["smt"]) THEN "smart_ups"
  ELSE IF p["smt"] = "live" /\ p["status"] = "live" /\ p["legacy"] = "blank"
  THEN "smartconnect_ups"
  ELSE None

-----------------------------------------------------------------------------
(* Variants of the definitions below that a plausible bug would give.      *)
ChooseHint(stored, detected, hint) == IF hint \in Concrete THEN hint ELSE stored
ChooseUnknown(stored, detected, hint) ==
  IF detected \in Concrete THEN detected
  ELSE IF stored # None THEN stored
  ELSE "unknown"

(* should_probe_device_type() and choose_device_type(): a stored family of *)
(* the current detection version is probed again only if SNMP names        *)
(* another, and replaced only by one that the probes have found.           *)
ShouldProbe(stored, current, hint) ==
  \/ stored \notin Concrete
  \/ ~current
  \/ hint \in Concrete /\ hint # stored

Choose(stored, detected, hint) ==
  IF detected \in Concrete THEN detected
  ELSE IF stored \in Concrete THEN stored
  ELSE None
=============================================================================
