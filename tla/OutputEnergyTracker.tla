------------------------ MODULE OutputEnergyTracker ------------------------
(***************************************************************************)
(* The tracker of output_energy_tracker.py: it turns the hardware energy   *)
(* counter of an SMT or SmartConnect UPS, which wraps at Wrap Wh and may   *)
(* be reset by the hardware, into one continuous total.                    *)
(*                                                                         *)
(* The tracker object is a record; update() is split into the operators    *)
(* below so that each branch of the method has a name.                     *)
(***************************************************************************)
EXTENDS Integers

CONSTANTS
  Wrap,              \* OUTPUT_ENERGY_WRAP_WH
  HighWatermark,     \* _WRAP_HIGH_WATERMARK
  LowWatermark,      \* _WRAP_LOW_WATERMARK
  MaxAdvance,        \* _RESET_CONFIRMATION_MAX_ADVANCE_WH
  Serials,           \* serial numbers a unit may report
  None,              \* Python's None
  InitialRollovers   \* the entry's "completed rollovers" setting

ASSUME TrackerAssumption ==
  /\ Wrap \in Nat \ {0}
  /\ HighWatermark \in 0 .. Wrap - 1
  /\ LowWatermark \in 0 .. HighWatermark
  /\ MaxAdvance \in Nat
  /\ InitialRollovers \in Nat
  /\ None \notin Int
  /\ None \notin Serials

Raw == 0 .. Wrap - 1

Tracker == [offset    : Nat,
            previous  : Raw \cup {None},
            serial    : Serials \cup {None},
            pending   : Raw \cup {None},
            rollovers : Nat]

(* What the store holds: the pending reset is not part of it, and files    *)
(* written before the rollover count existed have None for it.             *)
Stored == [offset    : Nat,
           previous  : Raw \cup {None},
           serial    : Serials \cup {None},
           rollovers : Nat \cup {None}]

-----------------------------------------------------------------------------
(* from_storage(): a missing or malformed file seeds the counter from the  *)
(* entry's setting, a well-formed one is taken as it is.  None stands for  *)
(* every state that fails a check of the method.                           *)
FromStorage(state) ==
  IF state = None
  THEN [offset |-> InitialRollovers * Wrap, previous |-> None,
        serial |-> None, pending |-> None, rollovers |-> InitialRollovers]
  ELSE [offset |-> state.offset, previous |-> state.previous,
        serial |-> state.serial, pending |-> None,
        rollovers |-> IF state.rollovers = None THEN InitialRollovers
                      ELSE state.rollovers]

-----------------------------------------------------------------------------
(* Variants of the definitions below that a plausible bug would give.      *)
DecreasedOrEqual(t, raw) == t.previous # None /\ raw <= t.previous
NoWrapWindow(t, raw) == FALSE
WrapAnywhere(t, raw) == t.previous >= HighWatermark
ConfirmsResetStrictly(t, raw) ==
  /\ t.pending # None
  /\ t.pending < raw
  /\ raw <= t.pending + MaxAdvance
OffsetForgetsReset(t, raw, reason) ==
  IF reason = "wrap" THEN t.offset + Wrap ELSE t.offset
StoredTotalAsOffset(t) ==
  [offset |-> t.offset + t.previous, previous |-> t.previous,
   serial |-> t.serial, rollovers |-> t.rollovers]

(* A different, known serial number: the counter belongs to another unit.  *)
OtherUnit(t, serial) ==
  /\ t.serial # None
  /\ serial # None
  /\ t.serial # serial

Rebased(t, serial) ==
  IF OtherUnit(t, serial)
  THEN [t EXCEPT !.offset = 0, !.previous = None,
                 !.pending = None, !.rollovers = 0]
  ELSE t

Decreased(t, raw) == t.previous # None /\ raw < t.previous

InWrapWindow(t, raw) == t.previous >= HighWatermark /\ raw <= LowWatermark

ConfirmsReset(t, raw) ==
  /\ t.pending # None
  /\ t.pending <= raw
  /\ raw <= t.pending + MaxAdvance

(* The reason update() returns; "none" is its None.                        *)
Reason(t, raw) ==
  IF ~Decreased(t, raw) THEN "none"
  ELSE IF InWrapWindow(t, raw) THEN "wrap"
  ELSE IF ConfirmsReset(t, raw) THEN "reset"
  ELSE "pending_reset"

NewOffset(t, raw, reason) ==
  IF reason = "wrap" THEN t.offset + Wrap
  ELSE IF reason = "reset" THEN t.offset + t.previous
  ELSE t.offset

(* Another variant: the total is kept for the previous reading.            *)
PreviousHoldsTotal(t, raw, serial, reason) ==
  [offset    |-> NewOffset(t, raw, reason),
   previous  |-> NewOffset(t, raw, reason) + raw,
   serial    |-> IF serial # None THEN serial ELSE t.serial,
   pending   |-> None,
   rollovers |-> IF reason = "wrap" THEN t.rollovers + 1 ELSE t.rollovers]

Accepted(t, raw, serial, reason) ==
  [offset    |-> NewOffset(t, raw, reason),
   previous  |-> raw,
   serial    |-> IF serial # None THEN serial ELSE t.serial,
   pending   |-> None,
   rollovers |-> IF reason = "wrap" THEN t.rollovers + 1 ELSE t.rollovers]

(* The tracker after update(raw, serial), and the total it returns.        *)
Updated(t, raw, serial) ==
  LET b == Rebased(t, serial)
      r == Reason(b, raw)
  IN  IF r = "pending_reset" THEN [b EXCEPT !.pending = raw]
      ELSE Accepted(b, raw, serial, r)

Total(t, raw, reason) ==
  IF reason = "pending_reset" THEN t.offset + t.previous
  ELSE NewOffset(t, raw, reason) + raw

UpdateTotal(t, raw, serial) ==
  LET b == Rebased(t, serial) IN Total(b, raw, Reason(b, raw))

UpdateReason(t, raw, serial) == Reason(Rebased(t, serial), raw)

(* What as_dict() hands to the store: the pending reset is left out.       *)
AsDict(t) == [offset |-> t.offset, previous |-> t.previous,
              serial |-> t.serial, rollovers |-> t.rollovers]
=============================================================================
