----------------------------- MODULE EnergyMeter -----------------------------
(***************************************************************************)
(* What the integration promises of an energy counter, whatever its        *)
(* register does: one continuous meter.  The first value is the register   *)
(* on top of the rollovers that the user has entered.  From then on a      *)
(* reading is counted, a rollover is counted together with the little      *)
(* energy that its window allows, or the unit is known to have been        *)
(* exchanged and the meter starts over with the register of the new one.   *)
(* OutputEnergy implements this with the tracker.                          *)
(***************************************************************************)
EXTENDS Integers

CONSTANTS
  Wrap,             \* values the register of a unit can hold
  LargestGain,      \* most energy that is counted with a rollover
  Serials,          \* serial numbers
  None,             \* no value, no known serial number
  InitialRollovers  \* rollovers before the first reading

VARIABLES
  shown,            \* the value of the energy sensor
  rollovers,        \* the value of the rollover sensor
  unit              \* serial number of the unit they belong to

Init ==
  /\ shown = None
  /\ rollovers = InitialRollovers
  /\ unit = None

(* A serial number that was not known may become known with any reading.   *)
SameUnit == unit' = unit \/ (unit = None /\ unit' \in Serials)

Start ==
  /\ shown = None
  /\ shown' \in {InitialRollovers * Wrap + raw : raw \in 0 .. Wrap - 1}
  /\ SameUnit
  /\ UNCHANGED rollovers

Count ==
  /\ shown # None
  /\ shown' \in Nat /\ shown' >= shown
  /\ SameUnit
  /\ UNCHANGED rollovers

Rollover ==
  /\ shown # None
  /\ shown' \in Nat /\ shown' > shown /\ shown' <= shown + LargestGain
  /\ rollovers' = rollovers + 1
  /\ SameUnit

Exchange ==
  /\ unit # None
  /\ unit' \in Serials \ {unit}
  /\ shown' \in 0 .. Wrap - 1
  /\ rollovers' = 0

Next == Start \/ Count \/ Rollover \/ Exchange

Spec == Init /\ [][Next]_<<shown, rollovers, unit>>
=============================================================================
