----------------------------- MODULE ProfileSetup -----------------------------
(***************************************************************************)
(* The setup of an entry whose family is known: a register profile is      *)
(* installed, a Rack PDU is asked for its capabilities, the first refresh  *)
(* polls, and the entities are created; then the polls go on.              *)
(*                                                                         *)
(* The device is external: what each word holds, and the capabilities of a *)
(* PDU.  A value is known here by the addresses of the words it is made    *)
(* of.  A poll succeeds, by its blocks or, if one of them could not be     *)
(* read or decoded, by its registers one by one; ModbusPoller has the rest.*)
(***************************************************************************)
EXTENDS RegisterProfiles

CONSTANTS
  Families,   \* among "smart_ups", "smt_ups", "smartconnect_ups", "rack_pdu"
  Pdus        \* what Rack PDUs have, as functions of their Capabilities

(* All that a PDU has of phases, metered outlets and banks.                *)
SensorsOf(has) == PduNumberedSensors(has["num_phases"],
                                     has["num_metered_outlets"],
                                     has["num_banks"])

(* Keys that no register of an SMT or PDU has: the alias of an SMT's       *)
(* frequency and the count of the rollovers of its energy.                 *)
Derived == {"input_frequency", "output_energy_rollover"}

(* A PDU has at least one phase.                                           *)
ASSUME SetupAssumption ==
  /\ Families \subseteq {"smart_ups", "smt_ups", "smartconnect_ups", "rack_pdu"}
  /\ Pdus \subseteq [ToSet(Capabilities) -> Nat]
  /\ \A has \in Pdus : has["num_phases"] >= 1

(* Numbered keys differ from each other and from all other keys, which     *)
(* KeyOf does not define but TLC's ToString gives.                         *)
ASSUME KeysAssumption ==
  /\ \A i, j \in DOMAIN PhaseKeys :
       KeyOf("phase", 1, PhaseKeys[i]) = KeyOf("phase", 1, PhaseKeys[j]) => i = j
  /\ \A i \in DOMAIN PhaseKeys :
       KeyOf("phase", 1, PhaseKeys[i]) \notin
         {r.key : r \in PduDevice} \cup Derived \cup {"output_energy"}
  /\ \A has \in Pdus : \A s \in SensorsOf(has) : s.shows \notin Derived

VARIABLES
  family,     \* the family that was chosen
  pdu,        \* what the device has if it is a Rack PDU (external)
  meter,      \* the UPS has an energy meter (external)
  stage,      \* "discover", "refresh", "entities", "loaded"
  asked,      \* how many of the capability registers were asked for
  caps,       \* device_capabilities, as discovered so far
  data,       \* coordinator.data: the words of each key that has a value
  entities,   \* sensors, binary sensors and date of the entry
  answered,   \* history: every block of the last poll was answered
  byBlocks    \* history: its data come from the blocks

device == <<family, pdu, meter>>
setupVars == <<device, stage, asked, caps, data, entities, answered, byBlocks>>

NoFunction == [x \in {} |-> x]

SetupInit ==
  /\ family \in Families
  /\ pdu \in Pdus
  /\ meter \in BOOLEAN
  /\ stage = IF family = "rack_pdu" THEN "discover" ELSE "refresh"
  /\ asked = 0 /\ caps = NoFunction
  /\ data = NoFunction /\ entities = {}
  /\ answered = TRUE /\ byBlocks = TRUE

-----------------------------------------------------------------------------
(* Variants of the definitions below that a plausible bug would give.      *)
SliceByIndex(block, at, words) ==
  LET i == Cardinality({b \in block.listed : b <= at})
  IN SubSeq([j \in 1..block.count |-> block.start + j - 1], i, i + words - 1)
NoAlias(d) == d
UnreadIsZero ==
  /\ stage = "discover" /\ asked < Len(Capabilities)
  /\ LET c == Capabilities[asked + 1]
     IN \E read \in SUBSET {c} :
          caps' = [k \in DOMAIN caps \cup {c} |->
                     IF k = c /\ c \notin read THEN 0 ELSE pdu[k]]
  /\ asked' = asked + 1
  /\ stage' = IF asked' = Len(Capabilities) THEN "refresh" ELSE stage
  /\ UNCHANGED <<device, data, entities, answered, byBlocks>>
EveryOutlet ==
  LET Count(c, default) == IF c \in DOMAIN caps THEN caps[c] ELSE default
  IN PduNumberedSensors(Count("num_phases", 1), Count("num_outlets", 0),
                        Count("num_banks", 0))

-----------------------------------------------------------------------------
(* get_registers_for_device()                                              *)
Registers ==
  CASE family = "smart_ups" -> SmartUpsStatus \cup SmartUpsSettings
    [] family = "rack_pdu"  -> PduRegisters
    [] OTHER                -> SmtStatus \cup SmtBattery \cup SmtPower

Blocks ==
  CASE family = "smart_ups" -> SmartUpsBlocks
    [] family = "rack_pdu"  -> PduBlocks
    [] OTHER                -> SmtBlocks

(* async_discover_capabilities(): each register is read on its own, and    *)
(* left out if it cannot be read.                                          *)
DiscoverCapability ==
  /\ stage = "discover" /\ asked < Len(Capabilities)
  /\ LET c == Capabilities[asked + 1]
     IN \E read \in SUBSET {c} :
          caps' = [k \in DOMAIN caps \cup read |-> pdu[k]]
  /\ asked' = asked + 1
  /\ stage' = IF asked' = Len(Capabilities) THEN "refresh" ELSE stage
  /\ UNCHANGED <<device, data, entities, answered, byBlocks>>

-----------------------------------------------------------------------------
(* A register by itself, and as a part of a block.                         *)
WordsOf(at, words) == [i \in 1..words |-> at + i - 1]

Slice(block, at, words) ==
  SubSeq(WordsOf(block.start, block.count),
         at - block.start + 1, at - block.start + words)

(* _decode_block(): addresses that no register begins at are skipped; a    *)
(* register that is longer than what is left of the block is an error.     *)
Decoded(block) ==
  {[key |-> r.key, words |-> Slice(block, r.at, r.words)] :
     r \in {q \in Registers : q.at \in block.listed}}

Complete(block) ==
  \A r \in Registers :
    r.at \in block.listed => r.at + r.words <= block.start + block.count

AsData(values) ==
  [k \in {v.key : v \in values} |->
     (CHOOSE v \in values : v.key = k).words]

BlockData == AsData(UNION {Decoded(b) : b \in Blocks})

RegisterData ==
  AsData({[key |-> r.key, words |-> WordsOf(r.at, r.words)] : r \in Registers})

(* _apply_device_compat_aliases(): without SNMP, the input frequency of an *)
(* SMT is its output frequency.                                            *)
Alias(d) ==
  IF family = "smt_ups" /\ "input_frequency" \notin DOMAIN d
  THEN [k \in DOMAIN d \cup {"input_frequency"} |->
          IF k \in DOMAIN d THEN d[k] ELSE d["output_frequency"]]
  ELSE d

(* async_track_output_energy(): a SmartConnect without a meter returns a   *)
(* sentinel, which is dropped.                                             *)
Tracked(d) ==
  IF "output_energy" \notin DOMAIN d THEN d
  ELSE IF family = "smartconnect_ups" /\ ~meter
  THEN [k \in DOMAIN d \ {"output_energy"} |-> d[k]]
  ELSE [k \in DOMAIN d \cup {"output_energy_rollover"} |->
          IF k \in DOMAIN d THEN d[k] ELSE <<>>]

Poll ==
  /\ answered' \in BOOLEAN
  /\ byBlocks' = (answered' /\ \A b \in Blocks : Complete(b))
  /\ data' = Tracked(Alias(IF byBlocks' THEN BlockData ELSE RegisterData))

FirstRefresh ==
  /\ stage = "refresh"
  /\ Poll
  /\ stage' = "entities"
  /\ UNCHANGED <<device, asked, caps, entities>>

LaterRefresh ==
  /\ stage = "loaded"
  /\ Poll
  /\ UNCHANGED <<device, stage, asked, caps, entities>>

-----------------------------------------------------------------------------
(* capabilities.get(c, default)                                            *)
Capability(c, default) == IF c \in DOMAIN caps THEN caps[c] ELSE default

NumberedSensors ==
  PduNumberedSensors(Capability("num_phases", 1),
                     Capability("num_metered_outlets", 0),
                     Capability("num_banks", 0))

DateEntity ==
  {Of("battery_installation_date", "battery_installation_date_days")}

(* get_sensor_descriptions(), get_binary_sensor_descriptions(), date.      *)
Described ==
  CASE family = "smart_ups" -> SmartUpsSensors \cup SmartUpsBinarySensors
    [] family = "smt_ups"   -> SmtSensors \cup SmtStatusSensors
                                 \cup SmtBatterySensors \cup DateEntity
    [] family = "smartconnect_ups" ->
         SmartConnectSensors \cup SmtStatusSensors \cup SmtBatterySensors
           \cup DateEntity
    [] OTHER -> PduDeviceSensors \cup NumberedSensors

(* Platform setup: the count of rollovers only with an energy.             *)
CreateEntities ==
  /\ stage = "entities"
  /\ entities' = {s \in Described :
                    "output_energy" \in DOMAIN data
                    \/ s.shows # "output_energy_rollover"}
  /\ stage' = "loaded"
  /\ UNCHANGED <<device, asked, caps, data, answered, byBlocks>>

SetupNext == DiscoverCapability \/ FirstRefresh \/ CreateEntities \/ LaterRefresh

SetupSpec == SetupInit /\ [][SetupNext]_setupVars

-----------------------------------------------------------------------------
SetupTypeOK ==
  /\ family \in Families /\ pdu \in Pdus /\ meter \in BOOLEAN
  /\ stage \in {"discover", "refresh", "entities", "loaded"}
  /\ asked \in 0..Len(Capabilities)
  /\ DOMAIN caps \subseteq ToSet(SubSeq(Capabilities, 1, asked))
  /\ \A c \in DOMAIN caps : caps[c] = pdu[c]
  /\ \A s \in entities : DOMAIN s = {"key", "shows"}
  /\ answered \in BOOLEAN /\ byBlocks \in BOOLEAN

(* A poll gives each register of the profile exactly its own words, by     *)
(* blocks and one by one alike: the offsets, counts and lists of the       *)
(* blocks agree with the addresses of the registers                        *)
(* (modbus_poller.py:206-218, REGISTER_BLOCKS of each family).             *)
PollReadsProfile ==
  stage \in {"entities", "loaded"} =>
    /\ \A r \in Registers :
         IF r.key = "output_energy" /\ family = "smartconnect_ups" /\ ~meter
         THEN r.key \notin DOMAIN data
         ELSE r.key \in DOMAIN data /\ data[r.key] = WordsOf(r.at, r.words)
    /\ DOMAIN data \subseteq {r.key : r \in Registers} \cup Derived

(* A device that answers every block is polled by its blocks: no register  *)
(* is longer than what its block holds after it, which would make each     *)
(* poll read every register by itself, as modbus_poller.py:216-218 and     *)
(* 140-143 do with a block of a wrong length.                              *)
BlocksSuffice == answered => byBlocks

(* The sensors, binary sensors and date of a loaded UPS all show a key     *)
(* that its polls give, also those with a key that no register has; only   *)
(* the energy of a SmartConnect without a meter is left without one.       *)
EntitiesServed ==
  stage = "loaded" /\ family # "rack_pdu" =>
    \A e \in entities :
      \/ e.shows \in DOMAIN data
      \/ e.shows = "output_energy" /\ family = "smartconnect_ups" /\ ~meter

(* A Rack PDU gets no sensor of a phase, metered outlet or bank that it    *)
(* does not have, whichever capabilities could not be read, and all of     *)
(* them if they could (registers_rack_pdu.py get_sensor_descriptions).     *)
SensorsOfDevice ==
  stage = "loaded" /\ family = "rack_pdu" =>
    /\ entities \ PduDeviceSensors \subseteq SensorsOf(pdu)
    /\ DOMAIN caps = ToSet(Capabilities) => SensorsOf(pdu) \subseteq entities
    /\ PduDeviceSensors \subseteq entities

(* "Phase-level metrics (1 or 3 phase)", "Up to 64 metered outlets", "Up   *)
(* to 12 banks" (README.md:284-292), and "This will be populated with      *)
(* actual capabilities at runtime" (registers_rack_pdu.py:390): every      *)
(* sensor of a Rack PDU shows a register that is polled.                   *)
PduSensorsServed ==
  stage = "loaded" /\ family = "rack_pdu" =>
    \A e \in entities : e.shows \in DOMAIN data
=============================================================================
