---------------------------- MODULE OutputEnergy ----------------------------
(***************************************************************************)
(* The energy counter of one UPS and the tracker the poller feeds with it. *)
(*                                                                         *)
(* The device is external: it delivers energy, its register wraps at Wrap, *)
(* and its hardware may reset the register to zero.  A poll hands the      *)
(* tracker a reading and the serial number the coordinator knows.          *)
(*                                                                         *)
(* A behaviour is of one of two kinds, fixed by `sane`.  In a sane one a   *)
(* reading is the register, or an isolated low misread; in the others a    *)
(* reading and a serial number may be anything at every poll, and the      *)
(* device is not followed.                                                 *)
(***************************************************************************)
EXTENDS OutputEnergyTracker

CONSTANTS
  MaxStep,        \* most energy delivered between two accepted readings
  MaxDelivered,   \* bound: energy the device delivers in a behaviour
  MaxOffset       \* bound: offset under arbitrary readings

ASSUME MeterAssumption ==
  /\ MaxStep \in 1 .. Wrap
  /\ MaxDelivered \in Nat
  /\ MaxOffset \in Nat

VARIABLES
  tracker,     \* the poller's _energy_tracker
  total,       \* data["output_energy"] as last published, None before
  family,      \* the entry's device family
  sane,        \* the kind of behaviour
  unit,        \* serial number of the installed unit
  meter,       \* its energy register
  delivered,   \* energy it has delivered in its lifetime
  wraps,       \* times its register has wrapped
  hasReset,    \* its hardware has reset the register
  unsampled,   \* energy delivered since the last poll that read the register
  truthful,    \* the last poll gave the tracker the register
  rejected     \* consecutive readings of the register that were rejected

device == <<unit, meter, delivered, wraps, hasReset>>
entry  == <<family, sane>>
vars   == <<tracker, total, entry, device, unsampled, truthful, rejected>>

Families == {"SMT", "SmartConnect"}

(* Nothing has been published or delivered yet; what tracker there is is   *)
(* another matter.                                                         *)
Unpublished ==
  /\ total = None
  /\ family \in Families
  /\ sane \in BOOLEAN
  /\ unit \in Serials
  /\ meter \in IF sane THEN Raw ELSE {0}
  /\ delivered = InitialRollovers * Wrap + meter
  /\ wraps = InitialRollovers
  /\ hasReset = FALSE
  /\ unsampled = 0
  /\ truthful = FALSE
  /\ rejected = 0

Init == Unpublished /\ tracker = FromStorage(None)

-----------------------------------------------------------------------------
(* The device (external).  The entry's setting counts the wraps up to the  *)
(* first reading, so the register does not wrap before it.                 *)

Deliver(n) ==
  /\ sane
  /\ unsampled + n <= MaxStep
  /\ delivered + n <= MaxDelivered
  /\ meter + n < Wrap \/ total # None
  /\ meter' = IF meter + n < Wrap THEN meter + n ELSE meter + n - Wrap
  /\ wraps' = IF meter + n >= Wrap THEN wraps + 1 ELSE wraps
  /\ delivered' = delivered + n
  /\ unsampled' = unsampled + n
  /\ UNCHANGED <<tracker, total, entry, unit, hasReset, truthful, rejected>>

HardwareReset ==
  /\ sane
  /\ meter # 0
  /\ meter' = 0
  /\ hasReset' = TRUE
  /\ rejected' = 0
  /\ UNCHANGED <<tracker, total, entry, unit, delivered, wraps, unsampled,
                 truthful>>

-----------------------------------------------------------------------------
(* async_track_output_energy(): the SmartConnect "unsupported" value is    *)
(* dropped before the tracker sees it, every other reading updates it.     *)
(* t is the tracker in use: the current one, or one restored for this poll. *)

Sentinel(raw) == family = "SmartConnect" /\ raw = Wrap - 1

Track(t, raw, serial) ==
  IF Sentinel(raw)
  THEN UNCHANGED <<tracker, total>>
  ELSE /\ tracker' = Updated(t, raw, serial)
       /\ total' = UpdateTotal(t, raw, serial)

(* A poll that reads the register.  The serial number is known, or not yet. *)
PollTruthful(t, serial) ==
  /\ sane
  /\ Track(t, meter, serial)
  /\ truthful' = ~Sentinel(meter)
  /\ unsampled' = IF Sentinel(meter) THEN unsampled ELSE 0
  /\ rejected' = IF Sentinel(meter) THEN rejected
                 ELSE IF UpdateReason(t, meter, serial) = "pending_reset"
                      THEN rejected + 1 ELSE 0
  /\ UNCHANGED <<entry, device>>

(* A low misread between two readings of the register.  Inside the wrap    *)
(* window the tracker cannot tell it from a wrap; it is not made there.    *)
PollMisread(t, raw, serial) ==
  /\ sane
  /\ truthful
  /\ Decreased(t, raw)
  /\ raw < meter
  /\ ~InWrapWindow(t, raw)
  /\ Track(t, raw, serial)
  /\ truthful' = FALSE
  /\ rejected' = 0
  /\ UNCHANGED <<entry, device, unsampled>>

PollAnything(raw, serial) ==
  /\ ~sane
  /\ Updated(tracker, raw, serial).offset <= MaxOffset
  /\ Track(tracker, raw, serial)
  /\ UNCHANGED <<entry, device, unsampled, truthful, rejected>>

DeviceStep ==
  \/ \E n \in 1 .. MaxStep : Deliver(n)
  \/ HardwareReset

Next ==
  \/ DeviceStep
  \/ \E serial \in {unit, None} : PollTruthful(tracker, serial)
  \/ \E raw \in Raw, serial \in {unit, None} :
       PollMisread(tracker, raw, serial)
  \/ \E raw \in Raw, serial \in Serials \cup {None} : PollAnything(raw, serial)

Spec == Init /\ [][Next]_vars

-----------------------------------------------------------------------------
(* Every variable keeps its type: the counters are naturals, the readings  *)
(* the tracker holds are register values.                                  *)
TypeOK ==
  /\ tracker \in Tracker
  /\ total \in Nat \cup {None}
  /\ family \in Families
  /\ sane \in BOOLEAN
  /\ unit \in Serials
  /\ meter \in Raw
  /\ delivered \in Nat
  /\ wraps \in Nat
  /\ hasReset \in BOOLEAN
  /\ unsampled \in Nat
  /\ truthful \in BOOLEAN
  /\ rejected \in Nat

(* README.md, Energy Counters: the published total is continuous.  Under   *)
(* any readings at all it decreases only when the unit behind the counter  *)
(* is known to have been exchanged for another.                            *)
TotalNeverRegresses ==
  [][ total # None /\ total' < total
        => tracker.serial # None /\ tracker'.serial # tracker.serial ]_vars

(* In a sane behaviour the total never claims energy the UPS did not       *)
(* deliver, except where a reset was taken for a wrap: each counted        *)
(* rollover adds at most Wrap - HighWatermark too much.                    *)
OvercountBounded ==
  sane /\ total # None =>
    total <= delivered
             + (tracker.rollovers - InitialRollovers) * (Wrap - HighWatermark)

(* Without a hardware reset nothing is lost: after every poll that reads   *)
(* the register the total is the energy delivered, and the rollover count  *)
(* the number of wraps, whatever misreads were rejected in between.  The   *)
(* energy between two readings fits the wrap window.                       *)
ExactWithoutResets ==
  sane /\ ~hasReset /\ truthful /\ unsampled = 0 =>
    /\ total = delivered
    /\ tracker.rollovers = wraps

(* A genuine reset is accepted by the second consecutive reading of the    *)
(* register: as long as no more than MaxAdvance is delivered between them  *)
(* the tracker never stays at the old total.                               *)
GenuineResetConfirmed == MaxStep <= MaxAdvance => rejected <= 1

(* README.md:48-49: "SMT-compatible counters retain continuity across      *)
(* confirmed hardware resets and uint32 rollovers".  Seen through its      *)
(* sensors the tracker is the meter of EnergyMeter: what is published is   *)
(* started, counted, rolled over or exchanged, and nothing else.           *)
Meter == INSTANCE EnergyMeter WITH
  shown <- total, rollovers <- tracker.rollovers, unit <- tracker.serial,
  LargestGain <- Wrap - HighWatermark + LowWatermark

ContinuousMeter == Meter!Spec
=============================================================================
