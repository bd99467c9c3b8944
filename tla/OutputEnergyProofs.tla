------------------------- MODULE OutputEnergyProofs -------------------------
(***************************************************************************)
(* Theorems about OutputEnergy, for every register width, watermark,       *)
(* confirmation window and set of serial numbers; and about                *)
(* OutputEnergyStore: what reloads, restarts, crashes and old files may do *)
(* to the tracker and to the published total.                              *)
(***************************************************************************)
EXTENDS OutputEnergyStore, TLAPS

USE TrackerAssumption, MeterAssumption DEF Raw

-----------------------------------------------------------------------------
LEMMA ProductNat == ASSUME NEW m \in Nat, NEW n \in Nat PROVE m * n \in Nat
OBVIOUS

(* update() keeps a tracker a tracker and returns a natural number.        *)
LEMMA RebasedType ==
  ASSUME NEW t \in Tracker, NEW serial \in Serials \cup {None}
  PROVE  Rebased(t, serial) \in Tracker
BY DEF Rebased, OtherUnit, Tracker

LEMMA UpdatedType ==
  ASSUME NEW t \in Tracker, NEW raw \in Raw, NEW serial \in Serials \cup {None}
  PROVE  /\ Updated(t, raw, serial) \in Tracker
         /\ UpdateTotal(t, raw, serial) \in Nat
<1> DEFINE b == Rebased(t, serial)
           r == Reason(b, raw)
<1>1. b \in Tracker
  BY RebasedType
<1>2. CASE r = "pending_reset"
  <2>1. b.previous \in Raw /\ b.offset \in Nat
    BY <1>1, <1>2 DEF Tracker, Reason, Decreased
  <2>2. [b EXCEPT !.pending = raw] \in Tracker
    BY <1>1 DEF Tracker
  <2>3. b.offset + b.previous \in Nat
    BY <2>1
  <2>4. QED
    BY <1>2, <2>2, <2>3 DEF Updated, UpdateTotal, Total
<1>3. CASE r # "pending_reset"
  <2>1. NewOffset(b, raw, r) \in Nat
    BY <1>1 DEF NewOffset, Reason, Decreased, Tracker
  <2>2. Accepted(b, raw, serial, r) \in Tracker
    BY <1>1, <2>1 DEF Accepted, Tracker
  <2>3. NewOffset(b, raw, r) + raw \in Nat
    BY <2>1
  <2>4. QED
    BY <1>3, <2>2, <2>3 DEF Updated, UpdateTotal, Total
<1>4. QED
  BY <1>2, <1>3

-----------------------------------------------------------------------------
(* Each variable of OutputEnergy keeps its type, whatever the device and   *)
(* the readings do.                                                        *)
LEMMA TrackType ==
  ASSUME TypeOK, NEW t \in Tracker,
         NEW raw \in Raw, NEW serial \in Serials \cup {None},
         Track(t, raw, serial)
  PROVE  tracker' \in Tracker /\ total' \in Nat \cup {None}
BY UpdatedType DEF TypeOK, Track

LEMMA DeviceType == ASSUME TypeOK, DeviceStep PROVE TypeOK'
<1>1. ASSUME NEW n \in 1 .. MaxStep, Deliver(n) PROVE TypeOK'
  BY <1>1 DEF Deliver, TypeOK, entry
<1>2. CASE HardwareReset
  BY <1>2 DEF HardwareReset, TypeOK, entry
<1>3. QED
  BY <1>1, <1>2 DEF DeviceStep

LEMMA TruthfulType ==
  ASSUME TypeOK, NEW t \in Tracker, NEW serial \in {unit, None},
         PollTruthful(t, serial)
  PROVE  TypeOK'
<1>1. meter \in Raw /\ serial \in Serials \cup {None}
  BY DEF TypeOK
<1>2. tracker' \in Tracker /\ total' \in Nat \cup {None}
  BY <1>1, TrackType DEF PollTruthful
<1>3. truthful' \in BOOLEAN /\ unsampled' \in Nat /\ rejected' \in Nat
  BY DEF PollTruthful, TypeOK, Sentinel
<1>4. QED
  BY <1>2, <1>3 DEF PollTruthful, TypeOK, entry, device

LEMMA MisreadType ==
  ASSUME TypeOK, NEW t \in Tracker,
         NEW raw \in Raw, NEW serial \in {unit, None},
         PollMisread(t, raw, serial)
  PROVE  TypeOK'
<1>1. serial \in Serials \cup {None}
  BY DEF TypeOK
<1>2. tracker' \in Tracker /\ total' \in Nat \cup {None}
  BY <1>1, TrackType DEF PollMisread
<1>3. QED
  BY <1>2 DEF PollMisread, TypeOK, entry, device

LEMMA UnpublishedType ==
  ASSUME Unpublished, tracker \in Tracker
  PROVE  TypeOK
<1>1. InitialRollovers * Wrap \in Nat
  BY ProductNat
<1>2. meter \in Raw
  BY DEF Unpublished
<1>3. delivered \in Nat
  BY <1>1, <1>2 DEF Unpublished
<1>4. QED
  BY <1>2, <1>3 DEF Unpublished, TypeOK

LEMMA SeededType == FromStorage(None) \in Tracker
BY ProductNat DEF FromStorage, Tracker

(* Tracker, total and history keep their types whatever readings arrive,   *)
(* and offset, previous reading and pending reset stay in their ranges.    *)
THEOREM TypeCorrect == Spec => []TypeOK
<1>1. TypeOK /\ [Next]_vars => TypeOK'
  <2> SUFFICES ASSUME TypeOK, [Next]_vars PROVE TypeOK'
    OBVIOUS
  <2>1. tracker \in Tracker
    BY DEF TypeOK
  <2>2. CASE DeviceStep
    BY <2>2, DeviceType
  <2>3. ASSUME NEW serial \in {unit, None}, PollTruthful(tracker, serial)
        PROVE TypeOK'
    BY <2>1, <2>3, TruthfulType
  <2>4. ASSUME NEW raw \in Raw, NEW serial \in {unit, None},
               PollMisread(tracker, raw, serial)
        PROVE TypeOK'
    BY <2>1, <2>4, MisreadType
  <2>5. ASSUME NEW raw \in Raw, NEW serial \in Serials \cup {None},
               PollAnything(raw, serial)
        PROVE TypeOK'
    <3>1. tracker' \in Tracker /\ total' \in Nat \cup {None}
      BY <2>1, <2>5, TrackType DEF PollAnything
    <3>2. QED
      BY <2>5, <3>1 DEF PollAnything, TypeOK, entry, device
  <2>6. CASE UNCHANGED vars
    BY <2>6 DEF vars, entry, device, TypeOK
  <2>7. QED
    BY <2>2, <2>3, <2>4, <2>5, <2>6 DEF Next
<1>2. Init => TypeOK
  BY UnpublishedType, SeededType DEF Init
<1>3. QED
  BY <1>1, <1>2, PTL DEF Spec

-----------------------------------------------------------------------------
(* The total update() returns is what the tracker then stands for.         *)
LEMMA UpdatedPublished ==
  ASSUME NEW t \in Tracker, NEW raw \in Raw, NEW serial \in Serials \cup {None}
  PROVE  /\ Updated(t, raw, serial).previous \in Raw
         /\ UpdateTotal(t, raw, serial)
              = Updated(t, raw, serial).offset + Updated(t, raw, serial).previous
<1> DEFINE b == Rebased(t, serial)
           r == Reason(b, raw)
<1>1. b \in Tracker
  BY RebasedType
<1>2. CASE r = "pending_reset"
  <2>1. b.previous \in Raw
    BY <1>1, <1>2 DEF Tracker, Reason, Decreased
  <2>2. Updated(t, raw, serial) = [b EXCEPT !.pending = raw]
    BY <1>2 DEF Updated
  <2>3. /\ Updated(t, raw, serial).previous = b.previous
        /\ Updated(t, raw, serial).offset = b.offset
    BY <1>1, <2>2 DEF Tracker
  <2>4. QED
    BY <1>2, <2>1, <2>3 DEF UpdateTotal, Total
<1>3. CASE r # "pending_reset"
  BY <1>3 DEF Updated, UpdateTotal, Total, Accepted
<1>4. QED
  BY <1>2, <1>3

(* For the same unit the total does not decrease, whatever the reading.    *)
LEMMA UpdateMonotone ==
  ASSUME NEW t \in Tracker, NEW raw \in Raw, NEW serial \in Serials \cup {None},
         ~OtherUnit(t, serial), t.previous # None
  PROVE  UpdateTotal(t, raw, serial) >= t.offset + t.previous
<1>1. Rebased(t, serial) = t
  BY DEF Rebased
<1>2. t.offset \in Nat /\ t.previous \in Raw
  BY DEF Tracker
<1>3. QED
  BY <1>1, <1>2 DEF UpdateTotal, Total, NewOffset, Reason, Decreased

(* For another unit the tracker takes the new serial number.               *)
LEMMA UpdateTakesSerial ==
  ASSUME NEW t \in Tracker, NEW raw \in Raw, NEW serial \in Serials \cup {None},
         OtherUnit(t, serial)
  PROVE  Updated(t, raw, serial).serial = serial
<1>1. Rebased(t, serial).previous = None
  BY DEF Rebased, Tracker
<1>2. Reason(Rebased(t, serial), raw) = "none"
  BY <1>1 DEF Reason, Decreased
<1>3. QED
  BY <1>2 DEF Updated, Accepted, OtherUnit

-----------------------------------------------------------------------------
(* What was published last is what the tracker stands for: the strengthening *)
(* TotalNeverRegresses and OvercountBounded rest on.                       *)
Published ==
  total # None => /\ tracker.previous \in Raw
                  /\ total = tracker.offset + tracker.previous

LEMMA TrackPublished ==
  ASSUME TypeOK, Published, NEW raw \in Raw, NEW serial \in Serials \cup {None},
         Track(tracker, raw, serial)
  PROVE  Published'
<1>1. CASE Sentinel(raw)
  BY <1>1 DEF Track, Published
<1>2. CASE ~Sentinel(raw)
  BY <1>2, UpdatedPublished DEF Track, Published, TypeOK
<1>3. QED
  BY <1>1, <1>2

LEMMA PollTracks ==
  ASSUME TypeOK, Next
  PROVE  \/ UNCHANGED <<tracker, total>>
         \/ \E raw \in Raw, serial \in Serials \cup {None} :
              Track(tracker, raw, serial)
<1>1. CASE DeviceStep
  BY <1>1 DEF DeviceStep, Deliver, HardwareReset
<1>2. ASSUME NEW serial \in {unit, None}, PollTruthful(tracker, serial)
      PROVE  \E raw \in Raw, s \in Serials \cup {None} : Track(tracker, raw, s)
  BY <1>2 DEF PollTruthful, TypeOK
<1>3. ASSUME NEW raw \in Raw, NEW serial \in {unit, None},
             PollMisread(tracker, raw, serial)
      PROVE  \E r \in Raw, s \in Serials \cup {None} : Track(tracker, r, s)
  BY <1>3 DEF PollMisread, TypeOK
<1>4. ASSUME NEW raw \in Raw, NEW serial \in Serials \cup {None},
             PollAnything(raw, serial)
      PROVE  \E r \in Raw, s \in Serials \cup {None} : Track(tracker, r, s)
  BY <1>4 DEF PollAnything
<1>5. QED
  BY <1>1, <1>2, <1>3, <1>4 DEF Next

LEMMA PublishedInvariant == Spec => []Published
<1>1. Init => Published
  BY DEF Init, Unpublished, Published
<1>2. TypeOK /\ Published /\ [Next]_vars => Published'
  <2> SUFFICES ASSUME TypeOK, Published, [Next]_vars PROVE Published'
    OBVIOUS
  <2>1. CASE UNCHANGED <<tracker, total>>
    BY <2>1 DEF Published
  <2>2. ASSUME NEW raw \in Raw, NEW serial \in Serials \cup {None},
               Track(tracker, raw, serial)
        PROVE  Published'
    BY <2>2, TrackPublished
  <2>3. CASE UNCHANGED vars
    BY <2>1, <2>3 DEF vars
  <2>4. QED
    BY <2>1, <2>2, <2>3, PollTracks
<1>3. QED
  BY <1>1, <1>2, TypeCorrect, PTL DEF Spec

(* The published total decreases only when the unit is known to have been  *)
(* exchanged, under any readings and any serial numbers.                   *)
THEOREM TotalMonotone == Spec => TotalNeverRegresses
<1> DEFINE Step == total # None /\ total' < total
                    => tracker.serial # None /\ tracker'.serial # tracker.serial
<1>1. TypeOK /\ Published /\ [Next]_vars => [Step]_vars
  <2> SUFFICES ASSUME TypeOK, Published, Next, total # None, total' < total
               PROVE  tracker.serial # None /\ tracker'.serial # tracker.serial
    OBVIOUS
  <2>1. total \in Nat /\ tracker \in Tracker
    BY DEF TypeOK
  <2>2. PICK raw \in Raw, serial \in Serials \cup {None} :
          Track(tracker, raw, serial)
    BY <2>1, PollTracks
  <2>3. /\ tracker' = Updated(tracker, raw, serial)
        /\ total' = UpdateTotal(tracker, raw, serial)
    BY <2>1, <2>2 DEF Track
  <2>4. OtherUnit(tracker, serial)
    <3> SUFFICES ASSUME ~OtherUnit(tracker, serial) PROVE FALSE
      OBVIOUS
    <3>1. tracker.previous # None /\ total = tracker.offset + tracker.previous
      BY DEF Published
    <3>2. UpdateTotal(tracker, raw, serial) \in Nat
      BY <2>1, UpdatedType
    <3>3. UpdateTotal(tracker, raw, serial) >= total
      BY <2>1, <3>1, UpdateMonotone
    <3>4. QED
      BY <2>1, <2>3, <3>2, <3>3
  <2>5. QED
    BY <2>1, <2>3, <2>4, UpdateTakesSerial DEF OtherUnit
<1>2. QED
  BY <1>1, TypeCorrect, PublishedInvariant, PTL DEF Spec, TotalNeverRegresses

-----------------------------------------------------------------------------
(* OvercountBounded.  Slack(t) is what resets taken for wraps may have     *)
(* added to the tracker t.  It is covered to claim x Wh when that is       *)
(* within what was delivered and the slack.  The offset is covered always, *)
(* with the register on top of it; so is the last accepted reading once    *)
(* the register has fallen below it, and while a reading of the register   *)
(* is held as a pending reset.                                             *)
Slack(t) == (t.rollovers - InitialRollovers) * (Wrap - HighWatermark)

Claim(t) == t.offset + t.previous

Covered(t, x) == x <= delivered + Slack(t)

OffsetCovered(t)  == Covered(t, t.offset + meter)
ClaimDelivered(t) == t.previous # None => Covered(t, Claim(t))
FallCovered(t)    ==
  t.previous # None /\ meter < t.previous => Covered(t, Claim(t) + meter)
PendingCovered(t) ==
  t.pending # None =>
    /\ t.previous # None
    /\ truthful => Covered(t, Claim(t) + meter)

(* What holds of a tracker of this unit, in use or only stored.            *)
SaneState(t) ==
  /\ t.serial \in {unit, None}
  /\ OffsetCovered(t)
  /\ ClaimDelivered(t)
  /\ FallCovered(t)

SaneInv == sane => SaneState(tracker) /\ PendingCovered(tracker)

LEMMA SlackStep ==
  ASSUME NEW r \in Nat
  PROVE  (r + 1 - InitialRollovers) * (Wrap - HighWatermark)
           = (r - InitialRollovers) * (Wrap - HighWatermark)
             + (Wrap - HighWatermark)
<1>1. ASSUME NEW a \in Int, NEW c \in Int PROVE (a + 1) * c = a * c + c
  OBVIOUS
<1> DEFINE a == r - InitialRollovers
           c == Wrap - HighWatermark
<1>2. a \in Int /\ c \in Int /\ r + 1 - InitialRollovers = a + 1
  OBVIOUS
<1> HIDE DEF a, c
<1>3. (a + 1) * c = a * c + c
  BY <1>1, <1>2
<1>4. QED
  BY <1>2, <1>3 DEF a, c

LEMMA SlackInt == ASSUME NEW t \in Tracker PROVE Slack(t) \in Int
<1>1. ASSUME NEW a \in Int, NEW c \in Int PROVE a * c \in Int
  OBVIOUS
<1>2. t.rollovers - InitialRollovers \in Int /\ Wrap - HighWatermark \in Int
  BY DEF Tracker
<1>3. QED
  BY <1>1, <1>2 DEF Slack

(* What one accepted or rejected reading of the unit's own counter does.   *)
LEMMA UpdateCases ==
  ASSUME NEW t \in Tracker, NEW raw \in Raw, NEW serial \in Serials \cup {None},
         ~OtherUnit(t, serial)
  PROVE  LET u == Updated(t, raw, serial) IN
         /\ u.serial \in {t.serial, serial}
         /\ \/ /\ ~Decreased(t, raw)
               /\ u.offset = t.offset /\ u.rollovers = t.rollovers
               /\ u.previous = raw /\ u.pending = None
            \/ /\ Decreased(t, raw) /\ InWrapWindow(t, raw)
               /\ u.offset = t.offset + Wrap /\ u.rollovers = t.rollovers + 1
               /\ u.previous = raw /\ u.pending = None
            \/ /\ Decreased(t, raw) /\ t.pending # None
               /\ u.offset = t.offset + t.previous /\ u.rollovers = t.rollovers
               /\ u.previous = raw /\ u.pending = None
            \/ /\ Decreased(t, raw)
               /\ u.offset = t.offset /\ u.rollovers = t.rollovers
               /\ u.previous = t.previous /\ u.pending = raw
<1>1. Rebased(t, serial) = t
  BY DEF Rebased
<1> DEFINE r == Reason(t, raw)
<1>2. CASE r = "pending_reset"
  <2>1. Updated(t, raw, serial) = [t EXCEPT !.pending = raw] /\ Decreased(t, raw)
    BY <1>1, <1>2 DEF Updated, Reason
  <2>2. QED
    BY <2>1 DEF Tracker
<1>3. CASE r # "pending_reset"
  <2>1. Updated(t, raw, serial) = Accepted(t, raw, serial, r)
    BY <1>1, <1>3 DEF Updated
  <2>2. CASE r = "none"
    BY <2>1, <2>2 DEF Accepted, NewOffset, Reason
  <2>3. CASE r = "wrap"
    BY <2>1, <2>3 DEF Accepted, NewOffset, Reason
  <2>4. CASE r = "reset"
    BY <2>1, <2>4 DEF Accepted, NewOffset, Reason, ConfirmsReset
  <2>5. QED
    BY <1>3, <2>2, <2>3, <2>4 DEF Reason
<1>4. QED
  BY <1>2, <1>3

(* What a step of the device does to a tracker of its unit.                *)
LEMMA SaneStateDeliver ==
  ASSUME TypeOK, NEW t \in Tracker, SaneState(t),
         NEW n \in 1 .. MaxStep, Deliver(n)
  PROVE  SaneState(t)'
<1>1. unit' = unit /\ delivered' = delivered + n
  BY DEF Deliver
<1>2. /\ Slack(t) \in Int /\ delivered \in Nat /\ meter \in 0 .. Wrap - 1
      /\ t.offset \in Nat
      /\ t.previous # None => t.previous \in 0 .. Wrap - 1 /\ Claim(t) \in Nat
  BY SlackInt DEF TypeOK, Tracker, Claim
<1>3. \/ meter + n < Wrap /\ meter' = meter + n
      \/ meter + n >= Wrap /\ meter' = meter + n - Wrap
  BY <1>2, MeterAssumption, TrackerAssumption DEF Deliver
<1>4. OffsetCovered(t)'
  BY <1>1, <1>2, <1>3 DEF SaneState, OffsetCovered, Covered, Slack
<1>5. ClaimDelivered(t)'
  BY <1>1, <1>2 DEF SaneState, ClaimDelivered, Covered, Claim, Slack
<1>6. FallCovered(t)'
  <2> SUFFICES ASSUME t.previous # None, meter' < t.previous
               PROVE  Claim(t) + meter' <= delivered' + Slack(t)
    BY DEF FallCovered, Covered, Claim, Slack
  <2>1. CASE meter' = meter + n
    BY <1>1, <1>2, <2>1 DEF SaneState, FallCovered, Covered
  <2>2. CASE meter + n >= Wrap /\ meter' = meter + n - Wrap
    <3>1. Claim(t) <= delivered + Slack(t)
      BY DEF SaneState, ClaimDelivered, Covered
    <3>2. meter' <= n /\ meter' \in Nat
      BY <1>2, <2>2
    <3>3. QED
      BY <1>1, <1>2, <3>1, <3>2
  <2>3. QED
    BY <1>3, <2>1, <2>2
<1>7. QED
  BY <1>1, <1>4, <1>5, <1>6 DEF SaneState

LEMMA SaneStateReset ==
  ASSUME TypeOK, NEW t \in Tracker, SaneState(t), HardwareReset
  PROVE  SaneState(t)'
<1>1. unit' = unit /\ delivered' = delivered /\ meter' = 0
  BY DEF HardwareReset
<1>2. /\ Slack(t) \in Int /\ delivered \in Nat /\ meter \in 0 .. Wrap - 1
      /\ t.offset \in Nat
      /\ t.previous # None => Claim(t) \in Nat
  BY SlackInt DEF TypeOK, Tracker, Claim
<1>3. QED
  BY <1>1, <1>2 DEF SaneState, OffsetCovered, ClaimDelivered, FallCovered,
                    Covered, Claim, Slack

LEMMA SaneStateDevice ==
  ASSUME TypeOK, NEW t \in Tracker, SaneState(t), DeviceStep
  PROVE  SaneState(t)'
BY SaneStateDeliver, SaneStateReset DEF DeviceStep

LEMMA SaneDevice ==
  ASSUME TypeOK, SaneState(tracker), PendingCovered(tracker), DeviceStep
  PROVE  SaneState(tracker)' /\ PendingCovered(tracker)'
<1>1. PICK t \in Tracker : t = tracker
  BY DEF TypeOK
<1>2. tracker' = t
  BY <1>1 DEF DeviceStep, Deliver, HardwareReset
<1>3. SaneState(tracker)'
  <2>1. SaneState(t)'
    BY <1>1, SaneStateDevice
  <2>2. QED
    BY <1>2, <2>1 DEF SaneState, OffsetCovered, ClaimDelivered, FallCovered,
                      Covered, Claim, Slack
<1>4. ASSUME t.pending # None, truthful
      PROVE  /\ t.previous # None
             /\ Claim(t) + meter' <= delivered' + Slack(t)
  <2>1. /\ t.previous # None
        /\ Claim(t) + meter <= delivered + Slack(t)
    BY <1>1, <1>4 DEF PendingCovered, Covered
  <2>2. Slack(t) \in Int /\ Claim(t) \in Nat
    BY <2>1, SlackInt DEF Tracker, Claim
  <2>3. /\ meter \in Nat /\ meter' \in Nat
        /\ delivered \in Nat /\ delivered' \in Nat
        /\ meter' <= meter + (delivered' - delivered)
    BY DEF DeviceStep, Deliver, HardwareReset, TypeOK
  <2>4. PICK m \in Nat, d \in Nat : m = meter' /\ d = delivered'
    BY <2>3
  <2>5. m <= meter + (d - delivered) /\ meter \in Nat /\ delivered \in Nat
    BY <2>3, <2>4
  <2>6. Claim(t) + m <= d + Slack(t)
    BY <2>1, <2>2, <2>5
  <2>7. QED
    BY <2>1, <2>4, <2>6
<1>5. truthful' = truthful
  BY DEF DeviceStep, Deliver, HardwareReset
<1>6. PendingCovered(tracker)'
  BY <1>1, <1>2, <1>4, <1>5 DEF PendingCovered, Covered, Claim, Slack
<1>7. QED
  BY <1>3, <1>6

(* What a reading does: of the register, or a smaller one that is a        *)
(* decrease outside the wrap window.                                       *)
LEMMA SaneStatePoll ==
  ASSUME TypeOK, NEW t \in Tracker, SaneState(t), PendingCovered(t),
         NEW raw \in Raw, NEW serial \in {unit, None},
         \/ raw = meter
         \/ /\ raw < meter /\ Decreased(t, raw) /\ truthful
            /\ ~InWrapWindow(t, raw)
  PROVE  LET u == Updated(t, raw, serial)
         IN  /\ SaneState(u)
             /\ u.pending # None =>
                  /\ u.previous # None
                  /\ raw = meter => Covered(u, Claim(u) + meter)
<1> DEFINE u == Updated(t, raw, serial)
<1>1. ~OtherUnit(t, serial) /\ serial \in Serials \cup {None}
  BY DEF OtherUnit, SaneState, TypeOK
<1>2. /\ Slack(t) \in Int /\ delivered \in Nat /\ meter \in Nat /\ raw \in Nat
      /\ raw <= meter
      /\ t.offset \in Nat /\ t.rollovers \in Nat
      /\ t.previous # None => t.previous \in Nat
  BY SlackInt DEF TypeOK, Tracker
<1>3. u.serial \in {unit, None}
  BY <1>1, UpdateCases DEF SaneState
<1>4. u.rollovers = t.rollovers => Slack(u) = Slack(t)
  BY DEF Slack
<1> HIDE DEF u
<1>5. CASE /\ ~Decreased(t, raw)
           /\ u.offset = t.offset /\ u.rollovers = t.rollovers
           /\ u.previous = raw /\ u.pending = None
  <2>1. raw = meter /\ Slack(u) = Slack(t)
    BY <1>4, <1>5
  <2>2. QED
    BY <1>2, <1>3, <1>5, <2>1
       DEF SaneState, OffsetCovered, ClaimDelivered, FallCovered, Covered,
           Claim, u
<1>6. CASE /\ Decreased(t, raw) /\ InWrapWindow(t, raw)
           /\ u.offset = t.offset + Wrap /\ u.rollovers = t.rollovers + 1
           /\ u.previous = raw /\ u.pending = None
  <2>1. /\ raw = meter /\ t.previous # None /\ raw < t.previous
        /\ t.previous >= HighWatermark
    BY <1>6 DEF Decreased, InWrapWindow
  <2>2. t.offset + t.previous + meter <= delivered + Slack(t)
    BY <2>1 DEF SaneState, FallCovered, Covered, Claim
  <2>3. Slack(u) = Slack(t) + (Wrap - HighWatermark)
    BY <1>2, <1>6, SlackStep DEF Slack
  <2>4. u.offset + meter <= delivered + Slack(u)
    BY <1>2, <1>6, <2>1, <2>2, <2>3
  <2>5. QED
    BY <1>2, <1>3, <1>6, <2>1, <2>4
       DEF SaneState, OffsetCovered, ClaimDelivered, FallCovered, Covered,
           Claim, u
<1>7. CASE /\ Decreased(t, raw) /\ t.pending # None
           /\ u.offset = t.offset + t.previous /\ u.rollovers = t.rollovers
           /\ u.previous = raw /\ u.pending = None
  <2>1. t.previous # None /\ raw < t.previous /\ Slack(u) = Slack(t)
    BY <1>4, <1>7 DEF Decreased
  <2>2. t.offset + t.previous + meter <= delivered + Slack(t)
    BY <1>7, <2>1 DEF SaneState, FallCovered, PendingCovered, Covered, Claim
  <2>3. QED
    BY <1>2, <1>3, <1>7, <2>1, <2>2
       DEF SaneState, OffsetCovered, ClaimDelivered, FallCovered, Covered,
           Claim, u
<1>8. CASE /\ Decreased(t, raw)
           /\ u.offset = t.offset /\ u.rollovers = t.rollovers
           /\ u.previous = t.previous /\ u.pending = raw
  <2>1. t.previous # None /\ raw < t.previous /\ Slack(u) = Slack(t)
    BY <1>4, <1>8 DEF Decreased
  <2>2. QED
    BY <1>2, <1>3, <1>8, <2>1
       DEF SaneState, OffsetCovered, ClaimDelivered, FallCovered, Covered,
           Claim, u
<1>9. QED
  BY <1>1, <1>5, <1>6, <1>7, <1>8, UpdateCases DEF u

(* The same of the whole poll, from the tracker in use or, when it is      *)
(* another, the one restored for this poll.                                *)
LEMMA SanePoll ==
  ASSUME TypeOK, NEW t \in Tracker, SaneState(t), PendingCovered(t),
         SaneState(tracker), PendingCovered(tracker), UNCHANGED device,
         NEW raw \in Raw, NEW serial \in {unit, None},
         \/ raw = meter /\ truthful' = ~Sentinel(raw)
         \/ /\ raw < meter /\ Decreased(t, raw) /\ truthful
            /\ ~InWrapWindow(t, raw) /\ truthful' = FALSE,
         Track(t, raw, serial)
  PROVE  SaneState(tracker)' /\ PendingCovered(tracker)'
<1>1. unit' = unit /\ delivered' = delivered /\ meter' = meter
  BY DEF device
<1>2. CASE Sentinel(raw)
  <2>1. tracker' = tracker /\ truthful' = FALSE
    BY <1>2 DEF Track
  <2>2. QED
    BY <1>1, <2>1 DEF SaneState, OffsetCovered, ClaimDelivered, FallCovered,
                      PendingCovered, Covered, Claim, Slack
<1>3. CASE ~Sentinel(raw)
  <2>1. tracker' = Updated(t, raw, serial)
    BY <1>3 DEF Track
  <2> DEFINE u == Updated(t, raw, serial)
  <2>2. /\ SaneState(u)
        /\ u.pending # None =>
             /\ u.previous # None
             /\ raw = meter => Covered(u, Claim(u) + meter)
    BY SaneStatePoll
  <2> HIDE DEF u
  <2>3. tracker' = u
    BY <2>1 DEF u
  <2>4. SaneState(tracker)'
    BY <1>1, <2>2, <2>3 DEF SaneState, OffsetCovered, ClaimDelivered,
                            FallCovered, Covered, Claim, Slack
  <2>5. PendingCovered(tracker)'
    BY <1>1, <2>2, <2>3 DEF PendingCovered, Covered, Claim, Slack
  <2>6. QED
    BY <2>4, <2>5
<1>4. QED
  BY <1>2, <1>3

(* The tracker the entry's setting seeds, at the time of the setting.      *)
LEMMA SeededTracker ==
  ASSUME Unpublished, sane
  PROVE  SaneState(FromStorage(None)) /\ PendingCovered(FromStorage(None))
<1>1. ASSUME NEW c \in Int PROVE (InitialRollovers - InitialRollovers) * c = 0
  OBVIOUS
<1>2. Slack(FromStorage(None)) = 0
  BY <1>1 DEF FromStorage, Slack
<1>3. InitialRollovers * Wrap \in Nat
  BY ProductNat
<1> DEFINE t == FromStorage(None)
<1>4. /\ t.offset = InitialRollovers * Wrap
      /\ t.previous = None /\ t.pending = None /\ t.serial = None
  BY DEF FromStorage
<1> HIDE DEF t
<1>5. delivered = InitialRollovers * Wrap + meter /\ meter \in Nat
  BY TrackerAssumption DEF Unpublished, Raw
<1>6. OffsetCovered(t)
  BY <1>2, <1>3, <1>4, <1>5 DEF OffsetCovered, Covered, t
<1>7. SaneState(t) /\ PendingCovered(t)
  BY <1>4, <1>6 DEF SaneState, ClaimDelivered, FallCovered, PendingCovered
<1>8. QED
  BY <1>7 DEF t

LEMMA SaneInvariant == Spec => []SaneInv
<1>1. Init => SaneInv
  <2> SUFFICES ASSUME Init, sane PROVE SaneState(tracker) /\ PendingCovered(tracker)
    BY DEF SaneInv
  <2>1. tracker = FromStorage(None) /\ Unpublished
    BY DEF Init
  <2>2. QED
    BY <2>1, SeededTracker
<1>2. TypeOK /\ SaneInv /\ [Next]_vars => SaneInv'
  <2> SUFFICES ASSUME TypeOK, SaneInv, [Next]_vars, sane
               PROVE  SaneInv'
    BY DEF SaneInv, Next, DeviceStep, Deliver, HardwareReset, PollTruthful,
           PollMisread, PollAnything, vars, entry
  <2>1. /\ SaneState(tracker) /\ PendingCovered(tracker) /\ tracker \in Tracker
        /\ meter \in Raw
    BY DEF SaneInv, TypeOK
  <2>2. CASE DeviceStep
    BY <2>1, <2>2, SaneDevice DEF SaneInv
  <2>3. ASSUME NEW serial \in {unit, None}, PollTruthful(tracker, serial)
        PROVE SaneInv'
    <3>1. UNCHANGED device /\ truthful' = ~Sentinel(meter)
      BY <2>3 DEF PollTruthful
    <3>2. QED
      BY <2>1, <2>3, <3>1, SanePoll DEF PollTruthful, SaneInv
  <2>4. ASSUME NEW raw \in Raw, NEW serial \in {unit, None},
               PollMisread(tracker, raw, serial)
        PROVE SaneInv'
    BY <2>1, <2>4, SanePoll DEF PollMisread, SaneInv
  <2>5. ASSUME NEW raw \in Raw, NEW serial \in Serials \cup {None},
               PollAnything(raw, serial)
        PROVE SaneInv'
    BY <2>5 DEF PollAnything
  <2>6. CASE UNCHANGED vars
    BY <2>6 DEF vars, entry, device, SaneInv, SaneState, OffsetCovered,
                ClaimDelivered, FallCovered, PendingCovered, Covered, Claim,
                Slack
  <2>7. QED
    BY <2>2, <2>3, <2>4, <2>5, <2>6 DEF Next
<1>3. QED
  BY <1>1, <1>2, TypeCorrect, PTL DEF Spec

(* While the readings are the register or isolated low misreads, the       *)
(* published total never exceeds what the UPS delivered by more than       *)
(* Wrap - HighWatermark for each rollover counted.                         *)
THEOREM NeverOvercounts == Spec => []OvercountBounded
<1>1. Published /\ SaneInv => OvercountBounded
  BY DEF Published, SaneInv, SaneState, ClaimDelivered, Covered, Claim, Slack,
         OvercountBounded
<1>2. QED
  BY <1>1, PublishedInvariant, SaneInvariant, PTL

-----------------------------------------------------------------------------
(* ContinuousMeter.  Before the first reading the tracker is what an empty *)
(* store restores; after it, what was published is what it stands for.     *)
Unstarted == total = None => tracker = FromStorage(None)

LEMMA UnstartedInvariant == Spec => []Unstarted
<1>1. Init => Unstarted
  BY DEF Init, Unstarted
<1>2. TypeOK /\ Unstarted /\ [Next]_vars => Unstarted'
  <2> SUFFICES ASSUME TypeOK, Unstarted, [Next]_vars PROVE Unstarted'
    OBVIOUS
  <2>1. CASE UNCHANGED <<tracker, total>>
    BY <2>1 DEF Unstarted
  <2>2. ASSUME NEW raw \in Raw, NEW serial \in Serials \cup {None},
               Track(tracker, raw, serial)
        PROVE  Unstarted'
    <3>1. UpdateTotal(tracker, raw, serial) \in Nat
      BY UpdatedType DEF TypeOK
    <3>2. QED
      BY <2>1, <2>2, <3>1, TrackerAssumption DEF Track, Unstarted
  <2>3. CASE UNCHANGED vars
    BY <2>1, <2>3 DEF vars
  <2>4. QED
    BY <2>1, <2>2, <2>3, PollTracks
<1>3. QED
  BY <1>1, <1>2, TypeCorrect, PTL DEF Spec

(* Unless the unit is another one, its serial number stays what it is or   *)
(* becomes known.                                                          *)
LEMMA UpdateKeepsSerial ==
  ASSUME NEW t \in Tracker, NEW raw \in Raw, NEW serial \in Serials \cup {None},
         ~OtherUnit(t, serial)
  PROVE  LET u == Updated(t, raw, serial) IN
         u.serial = t.serial \/ (t.serial = None /\ u.serial \in Serials)
<1>1. Rebased(t, serial) = t
  BY DEF Rebased
<1>2. CASE Reason(t, raw) = "pending_reset"
  BY <1>1, <1>2 DEF Updated, Tracker
<1>3. CASE Reason(t, raw) # "pending_reset"
  BY <1>1, <1>3 DEF Updated, Accepted, OtherUnit
<1>4. QED
  BY <1>2, <1>3

LEMMA FirstReading ==
  ASSUME TypeOK, Unstarted, total = None,
         NEW raw \in Raw, NEW serial \in Serials \cup {None},
         tracker' = Updated(tracker, raw, serial),
         total' = UpdateTotal(tracker, raw, serial)
  PROVE  Meter!Start
<1>1. /\ tracker \in Tracker /\ tracker.serial = None
      /\ tracker.previous = None /\ tracker.offset = InitialRollovers * Wrap
  BY DEF Unstarted, FromStorage, TypeOK
<1>2. ~OtherUnit(tracker, serial) /\ Rebased(tracker, serial) = tracker
  BY <1>1 DEF OtherUnit, Rebased
<1>3. Reason(tracker, raw) = "none"
  BY <1>1 DEF Reason, Decreased
<1>4. total' = InitialRollovers * Wrap + raw
  BY <1>1, <1>2, <1>3 DEF UpdateTotal, Total, NewOffset
<1>5. tracker'.rollovers = tracker.rollovers
  BY <1>2, <1>3 DEF Updated, Accepted
<1>6. Meter!SameUnit
  BY <1>1, <1>2, UpdateKeepsSerial DEF Meter!SameUnit
<1>7. QED
  BY <1>4, <1>5, <1>6 DEF Meter!Start, Raw

LEMMA OtherUnitReading ==
  ASSUME TypeOK, NEW raw \in Raw, NEW serial \in Serials \cup {None},
         OtherUnit(tracker, serial),
         tracker' = Updated(tracker, raw, serial),
         total' = UpdateTotal(tracker, raw, serial)
  PROVE  Meter!Exchange
<1> DEFINE b == Rebased(tracker, serial)
<1>1. b.offset = 0 /\ b.previous = None /\ b.rollovers = 0
  BY DEF Rebased, TypeOK, Tracker
<1>2. Reason(b, raw) = "none"
  BY <1>1 DEF Reason, Decreased
<1>3. total' = raw
  BY <1>1, <1>2 DEF UpdateTotal, Total, NewOffset, Raw
<1>4. tracker'.rollovers = 0
  BY <1>1, <1>2 DEF Updated, Accepted
<1>5. tracker'.serial = serial
  BY UpdateTakesSerial DEF TypeOK
<1>6. QED
  BY <1>3, <1>4, <1>5 DEF Meter!Exchange, OtherUnit, Raw

LEMMA LaterReading ==
  ASSUME TypeOK, Published, total # None,
         NEW raw \in Raw, NEW serial \in Serials \cup {None},
         ~OtherUnit(tracker, serial),
         tracker' = Updated(tracker, raw, serial),
         total' = UpdateTotal(tracker, raw, serial)
  PROVE  Meter!Count \/ Meter!Rollover
<1>1. /\ tracker \in Tracker /\ tracker.offset \in Nat
      /\ tracker.previous \in Raw /\ total = tracker.offset + tracker.previous
  BY DEF TypeOK, Tracker, Published
<1>2. tracker'.previous \in Raw /\ total' = tracker'.offset + tracker'.previous
  BY <1>1, UpdatedPublished
<1>3. Meter!SameUnit
  BY <1>1, UpdateKeepsSerial DEF Meter!SameUnit
<1>4. total \in Nat /\ total' \in Nat
  BY <1>1, UpdatedType DEF Raw
<1>5. CASE /\ Decreased(tracker, raw) /\ InWrapWindow(tracker, raw)
           /\ tracker'.offset = tracker.offset + Wrap
           /\ tracker'.rollovers = tracker.rollovers + 1
           /\ tracker'.previous = raw
  <2>1. /\ total' > total
        /\ total' <= total + (Wrap - HighWatermark + LowWatermark)
    BY <1>1, <1>2, <1>5, TrackerAssumption DEF InWrapWindow, Raw
  <2>2. QED
    BY <1>3, <1>4, <1>5, <2>1 DEF Meter!Rollover
<1>6. CASE /\ tracker'.rollovers = tracker.rollovers
           /\ \/ /\ ~Decreased(tracker, raw)
                 /\ tracker'.offset = tracker.offset /\ tracker'.previous = raw
              \/ /\ tracker'.offset = tracker.offset + tracker.previous
                 /\ tracker'.previous = raw
              \/ /\ tracker'.offset = tracker.offset
                 /\ tracker'.previous = tracker.previous
  <2>1. total' >= total
    BY <1>1, <1>2, <1>6, TrackerAssumption DEF Decreased, Raw
  <2>2. QED
    BY <1>3, <1>4, <1>6, <2>1 DEF Meter!Count
<1>7. QED
  BY <1>1, <1>5, <1>6, UpdateCases

(* Seen through its sensors the tracker, under any readings and any serial *)
(* numbers, is the continuous meter of EnergyMeter.                        *)
THEOREM MeterRefined == Spec => ContinuousMeter
<1> DEFINE seen == <<total, tracker.rollovers, tracker.serial>>
<1>1. Init => Meter!Init
  BY DEF Init, Unpublished, FromStorage, Meter!Init
<1>2. TypeOK /\ Published /\ Unstarted /\ [Next]_vars => [Meter!Next]_seen
  <2> SUFFICES ASSUME TypeOK, Published, Unstarted, [Next]_vars
               PROVE  Meter!Next \/ UNCHANGED seen
    OBVIOUS
  <2>1. CASE UNCHANGED <<tracker, total>>
    BY <2>1
  <2>2. ASSUME NEW raw \in Raw, NEW serial \in Serials \cup {None},
               Track(tracker, raw, serial)
        PROVE  Meter!Next \/ UNCHANGED seen
    <3>1. CASE Sentinel(raw)
      BY <2>1, <2>2, <3>1 DEF Track
    <3>2. CASE ~Sentinel(raw)
      <4>1. /\ tracker' = Updated(tracker, raw, serial)
            /\ total' = UpdateTotal(tracker, raw, serial)
        BY <2>2, <3>2 DEF Track
      <4>2. QED
        BY <4>1, FirstReading, OtherUnitReading, LaterReading DEF Meter!Next
    <3>3. QED
      BY <3>1, <3>2
  <2>3. CASE UNCHANGED vars
    BY <2>1, <2>3 DEF vars
  <2>4. QED
    BY <2>1, <2>2, <2>3, PollTracks
<1>3. QED
  BY <1>1, <1>2, TypeCorrect, PublishedInvariant, UnstartedInvariant, PTL
     DEF Spec, ContinuousMeter, Meter!Spec
-----------------------------------------------------------------------------
(* GenuineResetConfirmed and ExactWithoutResets.  Both need to know that   *)
(* what is delivered between two readings fits the wrap window, so that a  *)
(* wrap between them is recognised: a register of 2^32 Wh with watermarks  *)
(* at 99% and 1% gives the window 42 MWh on either side.                   *)
FitsWindow ==
  /\ MaxStep < Wrap
  /\ MaxStep <= LowWatermark + 1
  /\ MaxStep <= Wrap - HighWatermark

(* The register has advanced by n from the reading r, around the wrap or   *)
(* not.                                                                    *)
StraightFrom(r, n) == meter = r + n
AroundFrom(r, n)   == r + n >= Wrap /\ meter = r + n - Wrap

UnsampledBounded == unsampled <= MaxStep

(* A reading of the register that was rejected is held as the pending      *)
(* reset, and the register has advanced from it by what is unsampled.      *)
RejectedHeld ==
  rejected > 0 =>
    /\ sane /\ rejected = 1
    /\ tracker.pending \in Raw /\ tracker.previous \in Raw
    /\ tracker.pending < tracker.previous
    /\ \/ StraightFrom(tracker.pending, unsampled)
       \/ AroundFrom(tracker.pending, unsampled)

(* As long as the hardware has not reset the register, the tracker stands  *)
(* for all that was delivered but the unsampled rest, with at most one     *)
(* wrap still to be seen; only a misread leaves a pending reset behind.    *)
NothingLost ==
  sane /\ ~hasReset =>
    IF total = None
    THEN /\ ~truthful
         /\ delivered = InitialRollovers * Wrap + meter
         /\ wraps = InitialRollovers
    ELSE /\ delivered = tracker.offset + tracker.previous + unsampled
         /\ \/ /\ StraightFrom(tracker.previous, unsampled)
               /\ wraps = tracker.rollovers
            \/ /\ AroundFrom(tracker.previous, unsampled)
               /\ wraps = tracker.rollovers + 1
         /\ truthful => tracker.pending = None

(* What a poll that reads the register does to the tracker, by case.       *)
LEMMA TruthfulReading ==
  ASSUME TypeOK, SaneInv, NEW serial \in {unit, None},
         PollTruthful(tracker, serial), ~Sentinel(meter)
  PROVE  /\ ~OtherUnit(tracker, serial) /\ serial \in Serials \cup {None}
         /\ tracker' = Updated(tracker, meter, serial)
         /\ total' = UpdateTotal(tracker, meter, serial)
         /\ truthful' /\ unsampled' = 0
         /\ rejected' = IF Reason(tracker, meter) = "pending_reset"
                        THEN rejected + 1 ELSE 0
<1>1. ~OtherUnit(tracker, serial) /\ serial \in Serials \cup {None}
  BY DEF OtherUnit, SaneInv, SaneState, TypeOK, PollTruthful
<1>2. Rebased(tracker, serial) = tracker
  BY <1>1 DEF Rebased
<1>3. QED
  BY <1>1, <1>2 DEF PollTruthful, Track, UpdateReason

LEMMA UnsampledStep ==
  ASSUME TypeOK, UnsampledBounded, [Next]_vars
  PROVE  UnsampledBounded'
<1>1. ASSUME NEW n \in 1 .. MaxStep, Deliver(n) PROVE UnsampledBounded'
  BY <1>1 DEF Deliver, UnsampledBounded
<1>2. CASE HardwareReset
  BY <1>2 DEF HardwareReset, UnsampledBounded
<1>3. ASSUME NEW serial \in {unit, None}, PollTruthful(tracker, serial)
      PROVE UnsampledBounded'
  BY <1>3 DEF PollTruthful, UnsampledBounded
<1>4. ASSUME NEW raw \in Raw, NEW serial \in {unit, None},
             PollMisread(tracker, raw, serial)
      PROVE UnsampledBounded'
  BY <1>4 DEF PollMisread, UnsampledBounded
<1>5. ASSUME NEW raw \in Raw, NEW serial \in Serials \cup {None},
             PollAnything(raw, serial)
      PROVE UnsampledBounded'
  BY <1>5 DEF PollAnything, UnsampledBounded
<1>6. CASE UNCHANGED vars
  BY <1>6 DEF vars, UnsampledBounded
<1>7. QED
  BY <1>1, <1>2, <1>3, <1>4, <1>5, <1>6 DEF Next, DeviceStep

LEMMA UnsampledInvariant == Spec => []UnsampledBounded
<1>1. Init => UnsampledBounded
  BY DEF Init, Unpublished, UnsampledBounded
<1>2. QED
  BY <1>1, UnsampledStep, TypeCorrect, PTL DEF Spec

(* After a rejected reading the next one is no decrease any more, or it is *)
(* inside the wrap window, or it confirms the reset.                       *)
LEMMA RejectedThenAccepted ==
  ASSUME TypeOK, FitsWindow, MaxStep <= MaxAdvance, UnsampledBounded,
         RejectedHeld, rejected > 0
  PROVE  Reason(tracker, meter) # "pending_reset"
<1>1. /\ tracker.pending \in Raw /\ tracker.previous \in Raw
      /\ tracker.pending < tracker.previous
      /\ unsampled \in Nat /\ unsampled <= MaxStep
      /\ tracker.pending # None /\ meter \in Raw
  BY DEF RejectedHeld, UnsampledBounded, TypeOK
<1>2. CASE StraightFrom(tracker.pending, unsampled)
  <2>1. ConfirmsReset(tracker, meter)
    BY <1>1, <1>2 DEF StraightFrom, ConfirmsReset
  <2>2. QED
    BY <2>1 DEF Reason
<1>3. CASE AroundFrom(tracker.pending, unsampled)
  <2>1. InWrapWindow(tracker, meter)
    BY <1>1, <1>3 DEF AroundFrom, InWrapWindow, FitsWindow
  <2>2. QED
    BY <2>1 DEF Reason
<1>4. QED
  BY <1>2, <1>3 DEF RejectedHeld

LEMMA RejectedTruthful ==
  ASSUME TypeOK, SaneInv, FitsWindow, MaxStep <= MaxAdvance, UnsampledBounded,
         RejectedHeld, NEW serial \in {unit, None},
         PollTruthful(tracker, serial)
  PROVE  RejectedHeld'
<1>1. meter' = meter /\ sane' = sane /\ sane
  BY DEF PollTruthful, device, entry
<1>2. CASE Sentinel(meter)
  <2>1. /\ tracker' = tracker /\ unsampled' = unsampled
        /\ rejected' = rejected
    BY <1>2 DEF PollTruthful, Track
  <2>2. QED
    BY <1>1, <2>1 DEF RejectedHeld, StraightFrom, AroundFrom
<1>3. CASE ~Sentinel(meter) /\ Reason(tracker, meter) # "pending_reset"
  <2>1. rejected' = 0
    BY <1>3, TruthfulReading
  <2>2. QED
    BY <2>1 DEF RejectedHeld
<1>4. CASE ~Sentinel(meter) /\ Reason(tracker, meter) = "pending_reset"
  <2>1. rejected = 0
    BY <1>4, RejectedThenAccepted DEF TypeOK
  <2>2. /\ ~OtherUnit(tracker, serial) /\ unsampled' = 0 /\ rejected' = 1
        /\ tracker' = Updated(tracker, meter, serial)
    BY <1>4, <2>1, TruthfulReading
  <2>3. Rebased(tracker, serial) = tracker
    BY <2>2 DEF Rebased
  <2>4. tracker' = [tracker EXCEPT !.pending = meter]
    BY <1>4, <2>2, <2>3 DEF Updated
  <2>5. /\ Decreased(tracker, meter) /\ meter \in Raw
        /\ tracker \in Tracker
    BY <1>4 DEF Reason, TypeOK
  <2>6. /\ tracker'.pending = meter /\ tracker'.previous = tracker.previous
        /\ tracker.previous \in Raw /\ meter < tracker.previous
    BY <2>4, <2>5 DEF Tracker, Decreased
  <2>7. QED
    BY <1>1, <2>2, <2>5, <2>6 DEF RejectedHeld, StraightFrom
<1>5. QED
  BY <1>2, <1>3, <1>4

LEMMA RejectedStep ==
  ASSUME TypeOK, SaneInv, FitsWindow, MaxStep <= MaxAdvance, UnsampledBounded,
         RejectedHeld, [Next]_vars
  PROVE  RejectedHeld'
<1>1. ASSUME NEW n \in 1 .. MaxStep, Deliver(n) PROVE RejectedHeld'
  <2>1. /\ tracker' = tracker /\ rejected' = rejected /\ sane' = sane
        /\ unsampled' = unsampled + n /\ unsampled + n <= MaxStep
        /\ meter' = IF meter + n < Wrap THEN meter + n ELSE meter + n - Wrap
        /\ unsampled \in Nat /\ meter \in Raw
    BY <1>1 DEF Deliver, entry, TypeOK
  <2>2. ASSUME rejected > 0
        PROVE  \/ StraightFrom(tracker.pending, unsampled)'
               \/ AroundFrom(tracker.pending, unsampled)'
    <3>1. tracker.pending \in Raw
      BY <2>2 DEF RejectedHeld
    <3>2. CASE StraightFrom(tracker.pending, unsampled)
      BY <2>1, <3>1, <3>2 DEF StraightFrom, AroundFrom
    <3>3. CASE AroundFrom(tracker.pending, unsampled)
      BY <2>1, <3>1, <3>3 DEF AroundFrom
    <3>4. QED
      BY <2>2, <3>2, <3>3 DEF RejectedHeld
  <2>3. QED
    BY <2>1, <2>2 DEF RejectedHeld
<1>2. CASE HardwareReset
  BY <1>2 DEF HardwareReset, RejectedHeld
<1>3. ASSUME NEW serial \in {unit, None}, PollTruthful(tracker, serial)
      PROVE RejectedHeld'
  BY <1>3, RejectedTruthful
<1>4. ASSUME NEW raw \in Raw, NEW serial \in {unit, None},
             PollMisread(tracker, raw, serial)
      PROVE RejectedHeld'
  BY <1>4 DEF PollMisread, RejectedHeld
<1>5. ASSUME NEW raw \in Raw, NEW serial \in Serials \cup {None},
             PollAnything(raw, serial)
      PROVE RejectedHeld'
  BY <1>5 DEF PollAnything, RejectedHeld
<1>6. CASE UNCHANGED vars
  BY <1>6 DEF vars, entry, device, RejectedHeld, StraightFrom, AroundFrom
<1>7. QED
  BY <1>1, <1>2, <1>3, <1>4, <1>5, <1>6 DEF Next, DeviceStep

(* A genuine reset is accepted by the second consecutive reading of the    *)
(* register, when what is delivered between two readings is within         *)
(* MaxAdvance and fits the wrap window.                                    *)
THEOREM ResetConfirmed ==
  ASSUME FitsWindow PROVE Spec => []GenuineResetConfirmed
<1>1. CASE MaxStep <= MaxAdvance
  <2>1. Init => RejectedHeld
    BY DEF Init, Unpublished, RejectedHeld
  <2>2. TypeOK /\ SaneInv /\ UnsampledBounded /\ RejectedHeld /\ [Next]_vars
          => RejectedHeld'
    BY <1>1, RejectedStep
  <2>3. TypeOK /\ RejectedHeld => GenuineResetConfirmed
    BY DEF RejectedHeld, GenuineResetConfirmed, TypeOK
  <2>4. QED
    BY <2>1, <2>2, <2>3, TypeCorrect, SaneInvariant, UnsampledInvariant, PTL
       DEF Spec
<1>2. CASE ~(MaxStep <= MaxAdvance)
  <2>1. GenuineResetConfirmed
    BY <1>2 DEF GenuineResetConfirmed
  <2>2. QED
    BY <2>1, PTL
<1>3. QED
  BY <1>1, <1>2

-----------------------------------------------------------------------------
LEMMA NothingLostDeliver ==
  ASSUME TypeOK, Published, NothingLost, NEW n \in 1 .. MaxStep, Deliver(n)
  PROVE  NothingLost'
<1>1. /\ tracker' = tracker /\ total' = total /\ hasReset' = hasReset
      /\ truthful' = truthful /\ sane' = sane /\ sane
      /\ delivered' = delivered + n
      /\ unsampled' = unsampled + n /\ unsampled + n <= MaxStep
      /\ meter' = IF meter + n < Wrap THEN meter + n ELSE meter + n - Wrap
      /\ wraps' = IF meter + n >= Wrap THEN wraps + 1 ELSE wraps
      /\ meter + n < Wrap \/ total # None
      /\ unsampled \in Nat /\ meter \in Raw /\ delivered \in Nat
      /\ wraps \in Nat /\ tracker.offset \in Nat /\ tracker.rollovers \in Nat
  BY DEF Deliver, entry, TypeOK, Tracker
<1> SUFFICES ASSUME ~hasReset
             PROVE  NothingLost'
  BY <1>1 DEF NothingLost
<1>2. CASE total = None
  <2>1. InitialRollovers * Wrap \in Nat
    BY ProductNat
  <2>2. QED
    BY <1>1, <1>2, <2>1 DEF NothingLost
<1>3. CASE total # None
  <2>1. tracker.previous \in Raw
    BY <1>3 DEF Published
  <2>2. delivered' = tracker.offset + tracker.previous + unsampled'
    BY <1>1, <1>3, <2>1 DEF NothingLost
  <2>3. CASE StraightFrom(tracker.previous, unsampled) /\ wraps = tracker.rollovers
    BY <1>1, <1>3, <2>1, <2>2, <2>3 DEF NothingLost, StraightFrom, AroundFrom
  <2>4. CASE /\ AroundFrom(tracker.previous, unsampled)
             /\ wraps = tracker.rollovers + 1
    BY <1>1, <1>3, <2>1, <2>2, <2>4 DEF NothingLost, AroundFrom
  <2>5. QED
    BY <1>1, <1>3, <2>3, <2>4 DEF NothingLost
<1>4. QED
  BY <1>2, <1>3

LEMMA NothingLostTruthful ==
  ASSUME TypeOK, Published, Unstarted, SaneInv, FitsWindow, UnsampledBounded,
         NothingLost, NEW serial \in {unit, None},
         PollTruthful(tracker, serial)
  PROVE  NothingLost'
<1>1. /\ meter' = meter /\ sane' = sane /\ sane /\ hasReset' = hasReset
      /\ delivered' = delivered /\ wraps' = wraps
      /\ meter \in Raw /\ delivered \in Nat /\ unsampled \in Nat
      /\ tracker \in Tracker /\ unsampled <= MaxStep
      /\ tracker.offset \in Nat /\ tracker.rollovers \in Nat
  BY DEF PollTruthful, device, entry, TypeOK, Tracker, UnsampledBounded
<1> SUFFICES ASSUME ~hasReset PROVE NothingLost'
  BY <1>1 DEF NothingLost
<1>2. CASE Sentinel(meter)
  <2>1. /\ tracker' = tracker /\ total' = total /\ unsampled' = unsampled
        /\ ~truthful'
    BY <1>2 DEF PollTruthful, Track
  <2>2. QED
    BY <1>1, <2>1 DEF NothingLost, StraightFrom, AroundFrom
<1>3. CASE ~Sentinel(meter)
  <2>1. /\ ~OtherUnit(tracker, serial) /\ serial \in Serials \cup {None}
        /\ tracker' = Updated(tracker, meter, serial)
        /\ total' = UpdateTotal(tracker, meter, serial)
        /\ truthful' /\ unsampled' = 0
    BY <1>3, TruthfulReading
  <2>2. total' # None
    BY <1>1, <2>1, UpdatedType
  <2> SUFFICES /\ delivered = tracker'.offset + meter
               /\ tracker'.previous = meter
               /\ wraps = tracker'.rollovers
               /\ tracker'.pending = None
               /\ tracker'.offset \in Nat
    BY <1>1, <2>1, <2>2 DEF NothingLost, StraightFrom
  <2>3. CASE total = None
    <3>1. /\ tracker.previous = None
          /\ tracker.offset = InitialRollovers * Wrap
          /\ tracker.rollovers = InitialRollovers
      BY <2>3 DEF Unstarted, FromStorage
    <3>2. ~Decreased(tracker, meter)
      BY <3>1 DEF Decreased
    <3>3. /\ tracker'.offset = tracker.offset
          /\ tracker'.rollovers = tracker.rollovers
          /\ tracker'.previous = meter /\ tracker'.pending = None
      BY <1>1, <2>1, <3>2, UpdateCases
    <3>4. QED
      BY <1>1, <2>3, <3>1, <3>3 DEF NothingLost
  <2>4. CASE total # None
    <3>1. /\ tracker.previous \in Raw
          /\ delivered = tracker.offset + tracker.previous + unsampled
      BY <1>1, <2>4 DEF Published, NothingLost
    <3>2. CASE /\ StraightFrom(tracker.previous, unsampled)
               /\ wraps = tracker.rollovers
      <4>1. ~Decreased(tracker, meter)
        BY <1>1, <3>1, <3>2 DEF StraightFrom, Decreased
      <4>2. /\ tracker'.offset = tracker.offset
            /\ tracker'.rollovers = tracker.rollovers
            /\ tracker'.previous = meter /\ tracker'.pending = None
        BY <1>1, <2>1, <4>1, UpdateCases
      <4>3. QED
        BY <1>1, <3>1, <3>2, <4>2 DEF StraightFrom
    <3>3. CASE /\ AroundFrom(tracker.previous, unsampled)
               /\ wraps = tracker.rollovers + 1
      <4>1. tracker.previous >= HighWatermark /\ meter <= LowWatermark
        BY <1>1, <3>1, <3>3 DEF AroundFrom, FitsWindow
      <4>2. Decreased(tracker, meter) /\ InWrapWindow(tracker, meter)
        BY <1>1, <3>1, <3>3, <4>1 DEF AroundFrom, Decreased, InWrapWindow,
                                      FitsWindow
      <4>3. Rebased(tracker, serial) = tracker
        BY <2>1 DEF Rebased
      <4>4. tracker' = Accepted(tracker, meter, serial, "wrap")
        BY <2>1, <4>2, <4>3 DEF Updated, Reason
      <4>5. /\ tracker'.offset = tracker.offset + Wrap
            /\ tracker'.rollovers = tracker.rollovers + 1
            /\ tracker'.previous = meter /\ tracker'.pending = None
        BY <4>4 DEF Accepted, NewOffset
      <4>6. QED
        BY <1>1, <3>1, <3>3, <4>5 DEF AroundFrom
    <3>4. QED
      BY <1>1, <2>4, <3>2, <3>3 DEF NothingLost
  <2>5. QED
    BY <2>3, <2>4
<1>4. QED
  BY <1>2, <1>3

(* A misread is made from a tracker without a pending reset, so it is      *)
(* rejected and changes nothing but the pending reset.                     *)
LEMMA NothingLostMisread ==
  ASSUME TypeOK, SaneInv, NothingLost,
         NEW raw \in Raw, NEW serial \in {unit, None},
         PollMisread(tracker, raw, serial)
  PROVE  NothingLost'
<1>1. /\ meter' = meter /\ sane' = sane /\ sane /\ hasReset' = hasReset
      /\ delivered' = delivered /\ wraps' = wraps /\ unsampled' = unsampled
      /\ ~truthful' /\ truthful
      /\ Decreased(tracker, raw) /\ ~InWrapWindow(tracker, raw)
      /\ tracker \in Tracker
  BY DEF PollMisread, device, entry, TypeOK
<1> SUFFICES ASSUME ~hasReset PROVE NothingLost'
  BY <1>1 DEF NothingLost
<1>2. CASE Sentinel(raw)
  <2>1. tracker' = tracker /\ total' = total
    BY <1>2 DEF PollMisread, Track
  <2>2. QED
    BY <1>1, <2>1 DEF NothingLost, StraightFrom, AroundFrom
<1>3. CASE ~Sentinel(raw)
  <2>1. total # None /\ tracker.pending = None
    BY <1>1 DEF NothingLost
  <2>2. /\ ~OtherUnit(tracker, serial) /\ serial \in Serials \cup {None}
        /\ tracker' = Updated(tracker, raw, serial)
        /\ total' = UpdateTotal(tracker, raw, serial)
    BY <1>3 DEF OtherUnit, SaneInv, SaneState, TypeOK, PollMisread, Track
  <2>3. /\ tracker'.offset = tracker.offset
        /\ tracker'.rollovers = tracker.rollovers
        /\ tracker'.previous = tracker.previous
    BY <1>1, <2>1, <2>2, UpdateCases
  <2>4. total' # None
    BY <1>1, <2>2, UpdatedType
  <2>5. QED
    BY <1>1, <2>1, <2>3, <2>4 DEF NothingLost, StraightFrom, AroundFrom
<1>4. QED
  BY <1>2, <1>3

LEMMA NothingLostInvariant ==
  ASSUME FitsWindow PROVE Spec => []NothingLost
<1>1. Init => NothingLost
  BY DEF Init, Unpublished, NothingLost
<1>2. TypeOK /\ Published /\ Unstarted /\ SaneInv /\ UnsampledBounded
        /\ NothingLost /\ [Next]_vars => NothingLost'
  <2> SUFFICES ASSUME TypeOK, Published, Unstarted, SaneInv, UnsampledBounded,
                      NothingLost, [Next]_vars
               PROVE  NothingLost'
    OBVIOUS
  <2>1. ASSUME NEW n \in 1 .. MaxStep, Deliver(n) PROVE NothingLost'
    BY <2>1, NothingLostDeliver
  <2>2. CASE HardwareReset
    BY <2>2 DEF HardwareReset, NothingLost
  <2>3. ASSUME NEW serial \in {unit, None}, PollTruthful(tracker, serial)
        PROVE NothingLost'
    BY <2>3, NothingLostTruthful
  <2>4. ASSUME NEW raw \in Raw, NEW serial \in {unit, None},
               PollMisread(tracker, raw, serial)
        PROVE NothingLost'
    BY <2>4, NothingLostMisread
  <2>5. ASSUME NEW raw \in Raw, NEW serial \in Serials \cup {None},
               PollAnything(raw, serial)
        PROVE NothingLost'
    BY <2>5 DEF PollAnything, NothingLost, entry
  <2>6. CASE UNCHANGED vars
    BY <2>6 DEF vars, entry, device, NothingLost, StraightFrom, AroundFrom
  <2>7. QED
    BY <2>1, <2>2, <2>3, <2>4, <2>5, <2>6 DEF Next, DeviceStep
<1>3. QED
  BY <1>1, <1>2, TypeCorrect, PublishedInvariant, UnstartedInvariant,
     SaneInvariant, UnsampledInvariant, PTL DEF Spec

(* Without a hardware reset nothing is lost or counted twice: after every  *)
(* poll that reads the register the total is the energy delivered and the  *)
(* rollover count the number of wraps, whatever misreads came in between.  *)
THEOREM NothingLostWithoutResets ==
  ASSUME FitsWindow PROVE Spec => []ExactWithoutResets
<1>1. TypeOK /\ Published /\ NothingLost => ExactWithoutResets
  <2> SUFFICES ASSUME TypeOK, Published, NothingLost,
                      sane, ~hasReset, truthful, unsampled = 0
               PROVE  total = delivered /\ tracker.rollovers = wraps
    BY DEF ExactWithoutResets
  <2>1. total # None
    BY DEF NothingLost
  <2>2. /\ tracker.previous \in Raw /\ tracker.offset \in Nat
        /\ total = tracker.offset + tracker.previous
    BY <2>1 DEF Published, TypeOK, Tracker
  <2>3. ~AroundFrom(tracker.previous, unsampled)
    BY <2>2 DEF AroundFrom
  <2>4. QED
    BY <2>1, <2>2, <2>3 DEF NothingLost
<1>2. QED
  BY <1>1, TypeCorrect, PublishedInvariant, NothingLostInvariant, PTL

-----------------------------------------------------------------------------
(* The store.                                                              *)
USE StoreAssumption

(* as_dict() and from_storage() are inverse up to the pending reset.       *)
LEMMA StoredType ==
  ASSUME NEW t \in Tracker
  PROVE  AsDict(t) \in Stored /\ AsDict(t) # None
BY DEF AsDict, Tracker, Stored

LEMMA RestoredType ==
  ASSUME NEW f \in Stored \cup {None}
  PROVE  FromStorage(f) \in Tracker /\ FromStorage(f).pending = None
<1>1. CASE f = None
  BY <1>1, SeededType DEF FromStorage
<1>2. CASE f # None
  <2>1. /\ f.offset \in Nat /\ f.previous \in Raw \cup {None}
        /\ f.serial \in Serials \cup {None} /\ f.rollovers \in Nat \cup {None}
    BY <1>2 DEF Stored
  <2>2. (IF f.rollovers = None THEN InitialRollovers ELSE f.rollovers) \in Nat
    BY <2>1
  <2>3. QED
    BY <1>2, <2>1, <2>2 DEF FromStorage, Tracker
<1>3. QED
  BY <1>1, <1>2

LEMMA StoredAndRestored ==
  ASSUME NEW t \in Tracker
  PROVE  LET r == FromStorage(AsDict(t)) IN
         /\ r.offset = t.offset /\ r.previous = t.previous
         /\ r.serial = t.serial /\ r.rollovers = t.rollovers
<1>1. AsDict(t) # None
  BY StoredType
<1>2. AsDict(t).rollovers = t.rollovers /\ t.rollovers # None
  BY DEF AsDict, Tracker
<1>3. QED
  BY <1>1, <1>2 DEF FromStorage, AsDict

-----------------------------------------------------------------------------
(* Every variable keeps its type, through every way an entry is set up.    *)
LEMMA SetUpType ==
  ASSUME TypeOK, NEW f \in Stored \cup {None}, SetUp(f)
  PROVE  TypeOK' /\ restored' \in BOOLEAN /\ queued' \in BOOLEAN
<1>1. tracker' \in Tracker
  BY RestoredType, SeededType DEF SetUp
<1>2. restored' \in BOOLEAN /\ queued' \in BOOLEAN
  BY DEF SetUp
<1>3. QED
  BY <1>1, <1>2 DEF SetUp, TypeOK, entry, device

LEMMA BaseType == ASSUME StoreTypeOK PROVE Base \in Tracker
BY RestoredType DEF StoreTypeOK, TypeOK, Base

LEMMA RestartFile ==
  ASSUME StoreTypeOK, Restart
  PROVE  /\ file' \in Stored \cup {None}
         /\ \/ file' = file
            \/ queued /\ file' = AsDict(tracker)
            \/ oldWrite # None /\ file' = oldWrite
BY StoredType DEF Restart, FinalWrites, StoreTypeOK, TypeOK

(* So they do when the tracker is restored from a file of any age, and     *)
(* what is saved is always a state that from_storage() reads.              *)
THEOREM StoreTypeCorrect == StoreSpec => []StoreTypeOK
<1>1. StoreInit => StoreTypeOK
  <2> SUFFICES ASSUME StoreInit PROVE StoreTypeOK
    OBVIOUS
  <2>1. file \in Stored \cup {None}
    <3>1. InitialRollovers * Wrap \in Nat /\ meter \in Raw /\ unit \in Serials
      BY ProductNat DEF StoreInit, Unpublished
    <3>2. LegacyFile \in Stored
      BY <3>1 DEF LegacyFile, Stored
    <3>3. QED
      BY <3>2 DEF StoreInit
  <2>2. tracker \in Tracker
    BY <2>1, RestoredType, SeededType DEF StoreInit
  <2>3. TypeOK
    BY <2>2, UnpublishedType DEF StoreInit
  <2>4. QED
    BY <2>1, <2>3 DEF StoreInit, StoreTypeOK
<1>2. StoreTypeOK /\ [StoreNext]_storeVars => StoreTypeOK'
  <2> SUFFICES ASSUME StoreTypeOK, [StoreNext]_storeVars PROVE StoreTypeOK'
    OBVIOUS
  <2>1. TypeOK /\ tracker \in Tracker /\ Base \in Tracker
    BY BaseType DEF StoreTypeOK, TypeOK
  <2>2. CASE DeviceStep /\ UNCHANGED store
    BY <2>1, <2>2, DeviceType DEF StoreTypeOK, store
  <2>3. ASSUME NEW serial \in {unit, None}, StorePollTruthful(serial)
        PROVE StoreTypeOK'
    <3>1. TypeOK'
      BY <2>1, <2>3, TruthfulType DEF StorePollTruthful
    <3>2. QED
      BY <2>3, <3>1 DEF StorePollTruthful, Save, StoreTypeOK
  <2>4. ASSUME NEW raw \in Raw, NEW serial \in {unit, None},
               StorePollMisread(raw, serial)
        PROVE StoreTypeOK'
    <3>1. TypeOK'
      BY <2>1, <2>4, MisreadType DEF StorePollMisread
    <3>2. QED
      BY <2>4, <3>1 DEF StorePollMisread, Save, StoreTypeOK
  <2>5. CASE Write
    BY <2>1, <2>5, StoredType
       DEF Write, StoreTypeOK, TypeOK, vars, entry, device
  <2>6. CASE WriteOld
    BY <2>6 DEF WriteOld, StoreTypeOK, TypeOK, vars, entry, device
  <2>7. CASE Reload
    BY <2>1, <2>7, SetUpType, StoredType DEF Reload, StoreTypeOK
  <2>8. CASE Restart
    <3>1. PICK f \in Stored \cup {None} : f = file'
      BY <2>8, RestartFile
    <3>2. SetUp(f)
      BY <2>8, <3>1 DEF Restart
    <3>3. TypeOK' /\ restored' \in BOOLEAN /\ queued' \in BOOLEAN
      BY <2>1, <3>2, SetUpType
    <3>4. QED
      BY <2>8, <3>1, <3>3 DEF Restart, StoreTypeOK
  <2>9. CASE Crash
    BY <2>1, <2>9, SetUpType DEF Crash, StoreTypeOK
  <2>10. CASE UNCHANGED storeVars
    BY <2>10 DEF storeVars, store, StoreTypeOK, TypeOK, vars, entry, device
  <2>11. QED
    BY <2>2, <2>3, <2>4, <2>5, <2>6, <2>7, <2>8, <2>9, <2>10 DEF StoreNext
<1>3. QED
  BY <1>1, <1>2, PTL DEF StoreSpec

-----------------------------------------------------------------------------
(* What the entry claims, and what it would claim after any way of setting *)
(* it up again - from the file, from a write still queued for it, or from  *)
(* the entry's setting when there is none - was delivered.                 *)
Recoverable == {FromStorage(None), FromStorage(file), FromStorage(oldWrite)}

StoreSane ==
  /\ sane
  /\ SaneState(tracker) /\ PendingCovered(tracker)
  /\ \A r \in Recoverable : SaneState(r)

(* While intact, the total is what the next poll will start from, and once *)
(* nothing is queued the file stands for the same total as the tracker.    *)
StoreIntact ==
  intact => /\ oldWrite = None
            /\ ~restored => ~queued
            /\ total # None => Base.previous # None /\ total = Claim(Base)
            /\ restored /\ ~queued =>
                 /\ FromStorage(file).offset = tracker.offset
                 /\ FromStorage(file).previous = tracker.previous
-----------------------------------------------------------------------------
(* Which tracker a way of setting up leaves, and which file.               *)
LEMMA SetUpTracker ==
  ASSUME NEW f, SetUp(f)
  PROVE  /\ tracker' \in {FromStorage(None), FromStorage(f)}
         /\ truthful' = FALSE /\ sane' = sane /\ total' = total
         /\ unit' = unit /\ meter' = meter /\ delivered' = delivered
BY DEF SetUp, device, entry

(* The claims of a tracker depend on what was delivered and the register   *)
(* only; without a step of the device they stay what they are.             *)
LEMMA SaneStateKept ==
  ASSUME NEW r, SaneState(r),
         unit' = unit, meter' = meter, delivered' = delivered
  PROVE  SaneState(r)'
BY DEF SaneState, OffsetCovered, ClaimDelivered, FallCovered, Covered, Claim,
       Slack

LEMMA StoredSane ==
  ASSUME StoreTypeOK, SaneState(tracker)
  PROVE  SaneState(FromStorage(AsDict(tracker)))
BY StoredAndRestored
   DEF StoreTypeOK, TypeOK, SaneState, OffsetCovered, ClaimDelivered,
       FallCovered, Covered, Claim, Slack

(* Setting up from a file whose state is sane.                             *)
LEMMA SetUpSane ==
  ASSUME StoreTypeOK, StoreSane, NEW f \in Stored \cup {None}, SetUp(f),
         SaneState(FromStorage(f))
  PROVE  sane' /\ SaneState(tracker)' /\ PendingCovered(tracker)'
<1>1. PICK r \in {FromStorage(None), FromStorage(f)} : tracker' = r
  BY SetUpTracker
<1>2. SaneState(r)' /\ r.pending = None
  BY SaneStateKept, SetUpTracker, RestoredType DEF StoreSane, Recoverable
<1>3. SaneState(tracker)'
  BY <1>1, <1>2 DEF SaneState, OffsetCovered, ClaimDelivered, FallCovered,
                    Covered, Claim, Slack
<1>4. PendingCovered(tracker)'
  BY <1>1, <1>2 DEF PendingCovered
<1>5. sane'
  BY SetUpTracker DEF StoreSane
<1>6. QED
  BY <1>3, <1>4, <1>5

(* What can be recovered after a step that leaves the device alone: every  *)
(* stored state comes from before, or is the tracker as it was.            *)
LEMMA RecoverableKept ==
  ASSUME StoreTypeOK, StoreSane,
         unit' = unit, meter' = meter, delivered' = delivered,
         file' \in {None, file, oldWrite, AsDict(tracker)},
         oldWrite' \in {None, oldWrite, AsDict(tracker)}
  PROVE  (\A r \in Recoverable : SaneState(r))'
<1>1. \A f \in {None, file, oldWrite, AsDict(tracker)} :
        SaneState(FromStorage(f))'
  BY SaneStateKept, StoredSane DEF StoreSane, Recoverable
<1>2. PICK f \in {None, file, oldWrite, AsDict(tracker)},
           o \in {None, file, oldWrite, AsDict(tracker)} :
        f = file' /\ o = oldWrite'
  OBVIOUS
<1>3. Recoverable' = {FromStorage(None), FromStorage(f), FromStorage(o)}
  BY <1>2 DEF Recoverable
<1>4. QED
  BY <1>1, <1>3

LEMMA RecoverableDevice ==
  ASSUME StoreTypeOK, StoreSane, DeviceStep, UNCHANGED store
  PROVE  (\A r \in Recoverable : SaneState(r))'
<1>1. \A r \in Recoverable : r \in Tracker
  BY SeededType, RestoredType DEF Recoverable, StoreTypeOK
<1>2. \A r \in Recoverable : SaneState(r)'
  BY <1>1, SaneStateDevice DEF StoreSane, StoreTypeOK
<1>3. Recoverable' = Recoverable
  BY DEF Recoverable, store
<1>4. QED
  BY <1>2, <1>3

LEMMA BaseSane ==
  ASSUME StoreTypeOK, StoreSane
  PROVE  Base \in Tracker /\ SaneState(Base) /\ PendingCovered(Base)
<1>1. CASE restored
  BY <1>1, BaseType DEF Base, StoreSane
<1>2. CASE ~restored
  BY <1>2, BaseType, RestoredType
     DEF Base, StoreSane, Recoverable, PendingCovered, StoreTypeOK
<1>3. QED
  BY <1>1, <1>2

LEMMA StoreSaneInit == StoreInit => StoreSane
<1> SUFFICES ASSUME StoreInit PROVE StoreSane
  OBVIOUS
<1>1. Unpublished /\ sane
  BY DEF StoreInit
<1>2. SaneState(FromStorage(None))
  BY <1>1, SeededTracker
<1>3. SaneState(FromStorage(LegacyFile))
  <2> DEFINE l == FromStorage(LegacyFile)
  <2>1. /\ delivered = InitialRollovers * Wrap + meter
        /\ InitialRollovers * Wrap \in Nat
    BY <1>1, ProductNat DEF Unpublished
  <2>2. meter \in Raw /\ unit \in Serials
    BY <1>1 DEF Unpublished
  <2>3. LegacyFile # None
    BY <2>1, <2>2 DEF LegacyFile, Stored
  <2>4. /\ l.offset = InitialRollovers * Wrap /\ l.previous = meter
        /\ l.serial = unit /\ l.rollovers = InitialRollovers
    BY <2>3 DEF FromStorage, LegacyFile
  <2>5. ASSUME NEW c \in Int PROVE (InitialRollovers - InitialRollovers) * c = 0
    OBVIOUS
  <2>6. Slack(l) = 0
    BY <2>4, <2>5 DEF Slack
  <2> HIDE DEF l
  <2>7. /\ l.offset + meter = delivered /\ l.offset + l.previous = delivered
        /\ ~(meter < l.previous) /\ delivered \in Nat
    BY <2>1, <2>2, <2>4
  <2>8. SaneState(l)
    BY <2>4, <2>6, <2>7 DEF SaneState, OffsetCovered, ClaimDelivered,
                            FallCovered, Covered, Claim
  <2>9. QED
    BY <2>8 DEF l
<1>4. \A r \in Recoverable : SaneState(r)
  BY <1>2, <1>3 DEF Recoverable, StoreInit
<1>5. tracker \in Recoverable /\ tracker.pending = None
  <2>1. file \in Stored \cup {None}
    <3>1. InitialRollovers * Wrap \in Nat /\ meter \in Raw /\ unit \in Serials
      BY <1>1, ProductNat DEF Unpublished
    <3>2. LegacyFile \in Stored
      BY <3>1 DEF LegacyFile, Stored
    <3>3. QED
      BY <3>2 DEF StoreInit
  <2>2. QED
    BY <2>1, RestoredType DEF StoreInit, Recoverable
<1>6. QED
  BY <1>1, <1>4, <1>5 DEF StoreSane, PendingCovered

LEMMA StoreSaneStep ==
  ASSUME StoreTypeOK, StoreSane, [StoreNext]_storeVars
  PROVE  StoreSane'
<1>1. CASE DeviceStep /\ UNCHANGED store
  <2>1. SaneState(tracker)' /\ PendingCovered(tracker)'
    BY <1>1, SaneDevice DEF StoreTypeOK, StoreSane
  <2>2. sane'
    BY <1>1 DEF DeviceStep, Deliver, HardwareReset, entry
  <2>3. QED
    BY <1>1, <2>1, <2>2, RecoverableDevice DEF StoreSane
<1>2. ASSUME NEW serial \in {unit, None}, StorePollTruthful(serial)
      PROVE StoreSane'
  <2>1. /\ UNCHANGED <<device, file, oldWrite>> /\ sane'
        /\ truthful' = ~Sentinel(meter) /\ Track(Base, meter, serial)
        /\ meter \in Raw
    BY <1>2 DEF StorePollTruthful, PollTruthful, entry, StoreTypeOK, TypeOK
  <2>2. SaneState(tracker)' /\ PendingCovered(tracker)'
    BY <2>1, BaseSane, SanePoll DEF StoreTypeOK, StoreSane
  <2>3. (\A r \in Recoverable : SaneState(r))'
    BY <2>1, RecoverableKept DEF device
  <2>4. QED
    BY <2>1, <2>2, <2>3 DEF StoreSane
<1>3. ASSUME NEW raw \in Raw, NEW serial \in {unit, None},
             StorePollMisread(raw, serial)
      PROVE StoreSane'
  <2>1. /\ UNCHANGED <<device, file, oldWrite>> /\ sane'
        /\ raw < meter /\ Decreased(Base, raw) /\ truthful
        /\ ~InWrapWindow(Base, raw) /\ truthful' = FALSE
        /\ Track(Base, raw, serial)
    BY <1>3 DEF StorePollMisread, PollMisread, entry
  <2>2. SaneState(tracker)' /\ PendingCovered(tracker)'
    BY <2>1, BaseSane, SanePoll DEF StoreTypeOK, StoreSane
  <2>3. (\A r \in Recoverable : SaneState(r))'
    BY <2>1, RecoverableKept DEF device
  <2>4. QED
    BY <2>1, <2>2, <2>3 DEF StoreSane
<1>4. CASE Write \/ WriteOld \/ UNCHANGED storeVars
  <2>1. /\ tracker' = tracker /\ truthful' = truthful /\ sane' = sane
        /\ unit' = unit /\ meter' = meter /\ delivered' = delivered
        /\ file' \in {None, file, oldWrite, AsDict(tracker)}
        /\ oldWrite' \in {None, oldWrite, AsDict(tracker)}
    BY <1>4 DEF Write, WriteOld, storeVars, store, vars, device, entry
  <2>2. (\A r \in Recoverable : SaneState(r))'
    BY <2>1, RecoverableKept
  <2>3. SaneState(tracker)' /\ PendingCovered(tracker)'
    BY <2>1 DEF StoreSane, SaneState, OffsetCovered, ClaimDelivered,
                FallCovered, PendingCovered, Covered, Claim, Slack
  <2>4. QED
    BY <2>1, <2>2, <2>3 DEF StoreSane
<1>5. CASE Reload \/ Restart \/ Crash
  <2>1. /\ file' \in {file, oldWrite, AsDict(tracker)}
        /\ file' \in Stored \cup {None}
        /\ oldWrite' \in {None, oldWrite, AsDict(tracker)}
        /\ SetUp(file')
    <3>1. CASE Restart
      BY <3>1, RestartFile DEF Restart
    <3>2. CASE Reload \/ Crash
      BY <3>2 DEF Reload, Crash, StoreTypeOK
    <3>3. QED
      BY <1>5, <3>1, <3>2
  <2>2. PICK f \in {file, oldWrite, AsDict(tracker)} : f = file'
    BY <2>1
  <2>3. SaneState(FromStorage(f))
    BY StoredSane DEF StoreSane, Recoverable
  <2>4. sane' /\ SaneState(tracker)' /\ PendingCovered(tracker)'
    BY <2>1, <2>2, <2>3, SetUpSane
  <2>5. unit' = unit /\ meter' = meter /\ delivered' = delivered
    BY <2>1, <2>2, SetUpTracker
  <2>6. (\A r \in Recoverable : SaneState(r))'
    BY <2>1, <2>5, RecoverableKept
  <2>7. QED
    BY <2>4, <2>6 DEF StoreSane
<1>6. QED
  BY <1>1, <1>2, <1>3, <1>4, <1>5 DEF StoreNext

(* Whatever is lost with unsaved states and old files, energy is never     *)
(* counted twice: what the tracker claims stays within what was delivered, *)
(* up to the resets it took for wraps.                                     *)
THEOREM StoreNeverCountsTwice == StoreSpec => []NeverCountedTwice
<1>1. StoreSane => NeverCountedTwice
  BY DEF StoreSane, SaneState, ClaimDelivered, Covered, Claim, Slack,
         NeverCountedTwice
<1>2. QED
  BY <1>1, StoreTypeCorrect, StoreSaneInit, StoreSaneStep, PTL DEF StoreSpec

-----------------------------------------------------------------------------
(* ContinuousWhileIntact.  A poll starts from a tracker that stands for    *)
(* the published total, and never goes below it.                           *)
LEMMA PollIntact ==
  ASSUME StoreTypeOK, StoreSane, StoreIntact, intact,
         NEW raw \in Raw, NEW serial \in {unit, None},
         Track(Base, raw, serial), Save(raw, serial),
         UNCHANGED <<file, oldWrite, intact>>
  PROVE  StoreIntact' /\ (total # None => total' >= total)
<1>1. /\ Base \in Tracker /\ ~OtherUnit(Base, serial)
      /\ serial \in Serials \cup {None} /\ total \in Nat \cup {None}
  BY BaseSane DEF OtherUnit, SaneState, StoreTypeOK, TypeOK
<1>2. CASE Sentinel(raw)
  BY <1>1, <1>2 DEF Track, Save, StoreIntact, Base
<1>3. CASE ~Sentinel(raw)
  <2>1. /\ tracker' = Updated(Base, raw, serial)
        /\ total' = UpdateTotal(Base, raw, serial)
        /\ restored'
        /\ queued' = (queued \/ UpdateReason(Base, raw, serial) # "pending_reset")
    BY <1>3 DEF Track, Save
  <2>2. Base' = tracker'
    BY <2>1 DEF Base
  <2>3. /\ tracker'.previous \in Raw /\ total' = Claim(tracker')
        /\ total' \in Nat
    BY <1>1, <2>1, UpdatedPublished, UpdatedType DEF Claim
  <2>4. /\ FromStorage(file).offset = Base.offset
        /\ FromStorage(file).previous = Base.previous
        \/ queued
    BY DEF Base, StoreIntact
  <2>5. ASSUME ~queued'
        PROVE  /\ FromStorage(file').offset = tracker'.offset
               /\ FromStorage(file').previous = tracker'.previous
    <3>1. ~queued /\ UpdateReason(Base, raw, serial) = "pending_reset"
      BY <2>1, <2>5
    <3>2. Rebased(Base, serial) = Base
      BY <1>1 DEF Rebased
    <3>3. tracker' = [Base EXCEPT !.pending = raw]
      BY <2>1, <3>1, <3>2 DEF Updated, UpdateReason
    <3>4. tracker'.offset = Base.offset /\ tracker'.previous = Base.previous
      BY <1>1, <3>3 DEF Tracker
    <3>5. QED
      BY <2>4, <3>1, <3>4
  <2>6. StoreIntact'
    BY <2>1, <2>2, <2>3, <2>5 DEF StoreIntact, Claim
  <2>7. ASSUME total # None PROVE total' >= total
    <3>1. Base.previous # None /\ total = Base.offset + Base.previous
      BY <2>7 DEF StoreIntact, Claim
    <3>2. QED
      BY <1>1, <2>1, <3>1, UpdateMonotone
  <2>8. QED
    BY <2>6, <2>7
<1>4. QED
  BY <1>2, <1>3

(* Setting up from a file that stands for the published total.             *)
LEMMA SetUpIntact ==
  ASSUME NEW f \in Stored \cup {None}, SetUp(f), file' = f, oldWrite' = None,
         total # None => /\ FromStorage(f).previous # None
                         /\ total = Claim(FromStorage(f))
  PROVE  StoreIntact'
<1>1. /\ total' = total /\ ~queued'
      /\ restored' => tracker' = FromStorage(f)
  BY DEF SetUp
<1>2. Base' = FromStorage(f)
  BY <1>1 DEF Base
<1>3. QED
  BY <1>1, <1>2 DEF StoreIntact, Claim

(* What an entry that is set up finds while intact: the file, unless a     *)
(* write was queued and has been made.                                     *)
LEMMA FileIntact ==
  ASSUME StoreTypeOK, StoreIntact, intact, total # None
  PROVE  /\ ~queued => /\ FromStorage(file).previous # None
                       /\ total = Claim(FromStorage(file))
         /\ queued  => /\ FromStorage(AsDict(tracker)).previous # None
                       /\ total = Claim(FromStorage(AsDict(tracker)))
<1>1. CASE ~queued
  BY <1>1 DEF StoreIntact, Base, Claim
<1>2. CASE queued
  <2>1. tracker.previous # None /\ total = Claim(tracker)
    BY <1>2 DEF StoreIntact, Base
  <2>2. QED
    BY <1>2, <2>1, StoredAndRestored DEF StoreTypeOK, TypeOK, Claim
<1>3. QED
  BY <1>1, <1>2

LEMMA IntactInit == StoreInit => StoreIntact
BY DEF StoreInit, Unpublished, StoreIntact

LEMMA IntactStep ==
  ASSUME StoreTypeOK, StoreSane, StoreIntact, [StoreNext]_storeVars
  PROVE  StoreIntact' /\ (intact /\ total # None => total' >= total)
<1>1. total \in Nat \cup {None} /\ tracker \in Tracker
  BY DEF StoreTypeOK, TypeOK
<1>2. CASE ~intact
  <2>1. ~intact'
    BY <1>2 DEF StoreNext, StorePollTruthful, StorePollMisread, Write, WriteOld,
                Reload, Restart, Crash, storeVars, store
  <2>2. QED
    BY <1>2, <2>1 DEF StoreIntact
<1>3. ASSUME intact, UNCHANGED <<tracker, total, store>>
      PROVE  StoreIntact' /\ (total # None => total' >= total)
  BY <1>1, <1>3 DEF StoreIntact, Base, Claim, store
<1>4. ASSUME intact, DeviceStep, UNCHANGED store
      PROVE  StoreIntact' /\ (total # None => total' >= total)
  BY <1>3, <1>4 DEF DeviceStep, Deliver, HardwareReset
<1>5. ASSUME intact, NEW serial \in {unit, None}, StorePollTruthful(serial)
      PROVE  StoreIntact' /\ (total # None => total' >= total)
  <2>1. meter \in Raw /\ Track(Base, meter, serial) /\ Save(meter, serial)
    BY <1>5 DEF StorePollTruthful, PollTruthful, StoreTypeOK, TypeOK
  <2>2. QED
    BY <1>5, <2>1, PollIntact DEF StorePollTruthful
<1>6. ASSUME intact, NEW raw \in Raw, NEW serial \in {unit, None},
             StorePollMisread(raw, serial)
      PROVE  StoreIntact' /\ (total # None => total' >= total)
  BY <1>6, PollIntact DEF StorePollMisread, PollMisread
<1>7. ASSUME intact, Write
      PROVE  StoreIntact' /\ (total # None => total' >= total)
  <2>1. /\ tracker' = tracker /\ total' = total /\ file' = AsDict(tracker)
        /\ restored' = restored /\ oldWrite' = oldWrite /\ ~queued'
        /\ queued
    BY <1>7 DEF Write, vars
  <2>2. restored /\ oldWrite = None
    BY <1>7, <2>1 DEF StoreIntact
  <2>3. /\ FromStorage(AsDict(tracker)).offset = tracker.offset
        /\ FromStorage(AsDict(tracker)).previous = tracker.previous
    BY <1>1, StoredAndRestored
  <2>4. Base' = tracker /\ Base = tracker
    BY <2>1, <2>2 DEF Base
  <2>5. QED
    BY <1>1, <1>7, <2>1, <2>2, <2>3, <2>4 DEF StoreIntact, Claim
<1>8. CASE WriteOld
  BY <1>8 DEF WriteOld, StoreIntact
<1>9. ASSUME intact, Reload \/ Restart \/ Crash
      PROVE  StoreIntact' /\ (total # None => total' >= total)
  <2>1. total' = total
    BY <1>9 DEF Reload, Restart, Crash, SetUp
  <2>2. CASE Reload \/ Crash
    <3>1. ASSUME intact' PROVE StoreIntact'
      <4>1. ~queued /\ oldWrite' = None /\ SetUp(file) /\ file' = file
        BY <1>9, <2>2, <3>1 DEF Reload, Crash, StoreIntact
      <4>2. QED
        BY <1>9, <4>1, FileIntact, SetUpIntact DEF StoreTypeOK
    <3>2. QED
      BY <1>1, <2>1, <3>1 DEF StoreIntact
  <2>3. CASE Restart
    <3>1. /\ oldWrite = None /\ oldWrite' = None /\ SetUp(file')
          /\ file' \in Stored \cup {None}
      BY <1>9, <2>3, RestartFile DEF Restart, StoreIntact
    <3>2. file' = IF queued THEN AsDict(tracker) ELSE file
      BY <2>3, <3>1 DEF Restart, FinalWrites
    <3>3. PICK f \in Stored \cup {None} : f = file'
      BY <3>1
    <3>4. total # None => /\ FromStorage(f).previous # None
                          /\ total = Claim(FromStorage(f))
      BY <1>9, <3>2, <3>3, FileIntact
    <3>5. StoreIntact'
      BY <3>1, <3>3, <3>4, SetUpIntact
    <3>6. QED
      BY <1>1, <2>1, <3>5
  <2>4. QED
    BY <1>9, <2>2, <2>3
<1>10. CASE UNCHANGED storeVars
  BY <1>2, <1>3, <1>10 DEF storeVars, vars
<1>11. QED
  BY <1>2, <1>4, <1>5, <1>6, <1>7, <1>8, <1>9, <1>10, <1>1
     DEF StoreNext, WriteOld, vars

(* While every write reached the file in time, no reload, restart or crash *)
(* makes the published total decrease, pending resets included.            *)
THEOREM ContinuousThroughRestarts == StoreSpec => ContinuousWhileIntact
<1> DEFINE Step == intact /\ total # None => total' >= total
<1>1. StoreTypeOK /\ StoreSane /\ StoreIntact /\ [StoreNext]_storeVars
        => StoreIntact' /\ [Step]_storeVars
  BY IntactStep
<1>2. QED
  BY <1>1, IntactInit, StoreTypeCorrect, StoreSaneInit, StoreSaneStep, PTL
     DEF StoreSpec, ContinuousWhileIntact
=============================================================================
