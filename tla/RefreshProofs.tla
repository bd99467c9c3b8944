---------------------------- MODULE RefreshProofs ----------------------------
(***************************************************************************)
(* Proofs about the refreshes of an entry.  When they run: RefreshCycle's  *)
(* types, messages about an outage, and that an ample scan interval keeps  *)
(* the backoff from starving the polls; FleetTiming's spread of the setups *)
(* and polls of a fleet.  And what they read: ProfileSetup's profiles, for *)
(* every Rack PDU, and the entities that show them.                        *)
(***************************************************************************)
EXTENDS RefreshCycle, FleetTiming, ProfileSetup, FiniteSetTheorems,
        SequenceTheorems, TLAPS

LEMMA DelayBounds ==
  ASSUME NEW left \in Int \cup {None}, left # None => left >= -1
  PROVE  /\ FailureDelay(left) \in Nat
         /\ left = None \/ left <= 0 => FailureDelay(left) <= Base
         /\ left # None /\ left \in 1 .. Base => FailureDelay(left) <= Factor * Base
         /\ Factor * Base \in Nat /\ Base <= Factor * Base
<1> USE CycleAssumption
<1>1. ASSUME NEW a \in Nat, NEW b \in Nat, NEW c \in Nat, b <= c
      PROVE  a * b \in Nat /\ a * b <= a * c /\ a * 0 = 0
  <2>1. PICK d \in Nat : c = b + d
    BY <1>1, c - b \in Nat
  <2>2. a * c = a * b + a * d /\ a * d \in Nat /\ a * b \in Nat
    BY <2>1
  <2>3. QED
    BY <2>2
<1>2. Factor * 0 = 0 /\ Factor * Base \in Nat
  BY <1>1
<1>3. left \in Nat => Factor * left \in Nat
  BY <1>1
<1>4. left \in 1 .. Base => Factor * left <= Factor * Base
  BY <1>1
<1>5. Base <= Factor * Base
  <2>1. Factor - 1 \in Nat /\ (Factor - 1) * Base \in Nat
    BY <1>1
  <2>2. Factor * Base = Base + (Factor - 1) * Base
    OBVIOUS
  <2>3. QED
    BY <2>1, <2>2
<1>6. QED
  BY <1>2, <1>3, <1>4, <1>5 DEF FailureDelay

LEMMA FlagsStep == ASSUME FlagsOK, Next PROVE FlagsOK'
<1>1. ASSUME NEW cause \in {"scheduled", "requested"}, Refresh(cause),
             phase = "idle"
      PROVE  FlagsOK'
  BY <1>1 DEF Refresh, Skip, BeginPoll, RecordFailure, Reschedule, FlagsOK
<1>2. CASE ScheduledRefresh
  BY <1>1, <1>2 DEF ScheduledRefresh
<1>3. CASE RequestedRefresh
  BY <1>1, <1>3 DEF RequestedRefresh
<1>4. CASE RequestRefresh
  BY <1>1, <1>4 DEF RequestRefresh, FlagsOK
<1>5. CASE PollFails
  BY <1>5 DEF PollFails, RecordFailure, Reschedule, FlagsOK
<1>6. CASE PollSucceeds
  BY <1>6 DEF PollSucceeds, RecordRecovery, Reschedule, FlagsOK
<1>7. CASE Tick
  BY <1>7 DEF Tick, FlagsOK
<1>8. CASE Outage
  BY <1>8 DEF Outage, timers, FlagsOK
<1>9. QED
  BY <1>2, <1>3, <1>4, <1>5, <1>6, <1>7, <1>8 DEF Next, System

LEMMA TimesStep == ASSUME TimesOK, Next PROVE TimesOK'
<1> USE CycleAssumption
<1>1. RegisterFailure => backoff' \in Nat
  BY DelayBounds DEF TimesOK, RegisterFailure
<1>2. ASSUME NEW delays, NEW cause, Reschedule(delays, cause),
             delays \in {{Scan}, Scan - 1 .. Scan + 1}
      PROVE  wait' \in 0 .. Scan + 1 /\ cooldown' \in 0 .. Cooldown
  BY <1>2 DEF Reschedule
<1>3. ASSUME NEW cause, Refresh(cause) PROVE TimesOK'
  <2>1. CASE Skip(cause)
    BY <1>1, <1>2, <2>1 DEF Skip, TimesOK, Late
  <2>2. CASE BeginPoll(cause)
    BY <2>2 DEF BeginPoll, TimesOK, Late
  <2>3. QED
    BY <1>3, <2>1, <2>2 DEF Refresh
<1>4. CASE ScheduledRefresh
  BY <1>3, <1>4 DEF ScheduledRefresh
<1>5. CASE RequestedRefresh
  BY <1>3, <1>5 DEF RequestedRefresh
<1>6. CASE RequestRefresh
  BY <1>3, <1>6 DEF RequestRefresh, TimesOK, Late
<1>7. CASE PollFails
  BY <1>1, <1>2, <1>7 DEF PollFails, TimesOK, Late
<1>8. CASE PollSucceeds
  BY <1>2, <1>8 DEF PollSucceeds, ResetBackoff, TimesOK, Late
<1>9. CASE Tick
  BY <1>9 DEF Tick, Left, TimesOK, Late
<1>10. CASE Outage
  BY <1>10 DEF Outage, timers, TimesOK, Late
<1>11. QED
  BY <1>4, <1>5, <1>6, <1>7, <1>8, <1>9, <1>10 DEF Next, System

(* Every variable keeps its type, for every interval, delay and cooldown.  *)
THEOREM CycleTypeCorrect == Spec => []TypeOK
<1>1. Init => TypeOK
  <2>1. Init => TimesOK
    BY CycleAssumption DEF Init, TimesOK, Late
  <2>2. Init => FlagsOK
    BY DEF Init, FlagsOK
  <2>3. QED
    BY <2>1, <2>2 DEF TypeOK
<1>2. TypeOK /\ [Next]_vars => TypeOK'
  <2>1. CASE UNCHANGED vars
    BY <2>1 DEF vars, timers, episode, TypeOK, TimesOK, FlagsOK, Late
  <2>2. QED
    BY <2>1, FlagsStep, TimesStep DEF TypeOK
<1>3. QED
  BY <1>1, <1>2, PTL DEF Spec

-----------------------------------------------------------------------------
(* The two flags of the coordinator say the same: an outage is under way.  *)
EpisodeInv ==
  /\ available \in BOOLEAN
  /\ started = ~available
  /\ warned = ~available

LEMMA EpisodeStep ==
  ASSUME EpisodeInv, Next
  PROVE  /\ EpisodeInv'
         /\ message' = "warning"   <=> available /\ ~available'
         /\ message' = "recovered" <=> ~available /\ available'
<1>1. ASSUME NEW cause, Refresh(cause)
      PROVE  /\ EpisodeInv'
             /\ message' = "warning"   <=> available /\ ~available'
             /\ message' = "recovered" <=> ~available /\ available'
  <2>1. CASE Skip(cause)
    BY <2>1 DEF Skip, RecordFailure, EpisodeInv
  <2>2. CASE BeginPoll(cause)
    BY <2>2 DEF BeginPoll, EpisodeInv
  <2>3. QED
    BY <1>1, <2>1, <2>2 DEF Refresh
<1>2. CASE ScheduledRefresh
  BY <1>1, <1>2 DEF ScheduledRefresh
<1>3. CASE RequestedRefresh
  BY <1>1, <1>3 DEF RequestedRefresh
<1>4. CASE RequestRefresh
  BY <1>1, <1>4 DEF RequestRefresh, EpisodeInv
<1>5. CASE PollFails
  BY <1>5 DEF PollFails, RecordFailure, EpisodeInv
<1>6. CASE PollSucceeds
  BY <1>6 DEF PollSucceeds, RecordRecovery, EpisodeInv
<1>7. CASE Tick
  BY <1>7 DEF Tick, EpisodeInv
<1>8. CASE Outage
  BY <1>8 DEF Outage, EpisodeInv
<1>9. QED
  BY <1>2, <1>3, <1>4, <1>5, <1>6, <1>7, <1>8 DEF Next, System

(* Whatever the timers do, an outage gives exactly one warning, and its    *)
(* end exactly one recovery message.                                       *)
THEOREM OneMessagePerChange == Spec => MessagesFollowAvailability
<1>1. Init => EpisodeInv
  BY DEF Init, EpisodeInv
<1>2. EpisodeInv /\ [Next]_vars => EpisodeInv'
  BY EpisodeStep DEF EpisodeInv, vars, episode
<1>3. EpisodeInv /\ [Next]_vars
        => [ /\ message' = "warning"   <=> available /\ ~available'
             /\ message' = "recovered" <=> ~available /\ available' ]_vars
  BY EpisodeStep
<1>4. QED
  BY <1>1, <1>2, <1>3, PTL DEF Spec, MessagesFollowAvailability

-----------------------------------------------------------------------------
(* Between polls the backoff runs out before the next scheduled refresh;   *)
(* a request can be skipped only before the base delay has passed, and     *)
(* after it the cooldown outlasts the backoff.                             *)
TimeInv ==
  IF phase = "idle"
  THEN /\ sincePoll + wait <= Late
       /\ backoff # None /\ backoff > 0 =>
            /\ backoff <= wait
            /\ \/ backoff <= cooldown
               \/ backoff <= Base /\ sincePoll + backoff <= PollLimit + Base
  ELSE /\ sincePoll <= PollLimit
       /\ ShouldRun

LEMMA WithinLate ==
  ASSUME NEW since \in Nat, NEW next \in Scan - 1 .. Scan + 1
  PROVE  /\ since <= PollLimit + Base => since + next <= Late
         /\ since <= PollLimit => since + next <= Late
  BY CycleAssumption DEF Late

LEMMA WithinBase ==
  ASSUME NEW since \in Nat, since <= PollLimit, NEW left \in Nat, left <= Base
  PROVE  since + left <= PollLimit + Base
  BY CycleAssumption

LEMMA RefreshInTime ==
  ASSUME AmpleScan, TimesOK, TimeInv, phase = "idle",
         NEW cause \in {"scheduled", "requested"}, Refresh(cause),
         cause = "scheduled" => wait = 0,
         cause = "requested" => cooldown = 0
  PROVE  TimeInv'
<1> USE CycleAssumption
<1>1. CASE BeginPoll(cause)
  BY <1>1 DEF BeginPoll, TimeInv, ShouldRun
<1>2. CASE Skip(cause)
  <2>1. backoff \in Nat /\ backoff > 0
    BY <1>2 DEF Skip, ShouldRun, TimesOK
  <2>2. cause = "requested" /\ cooldown = 0
    BY <2>1 DEF TimeInv, TimesOK
  <2>3. backoff \in 1 .. Base /\ sincePoll + backoff <= PollLimit + Base
    BY <2>1, <2>2 DEF TimeInv, TimesOK
  <2>4. backoff' \in Nat /\ backoff' <= Factor * Base
    BY <1>2, <2>3, DelayBounds DEF Skip, RegisterFailure
  <2>5. wait' \in Scan - 1 .. Scan + 1 /\ cooldown' = Cooldown
    BY <1>2, <2>2 DEF Skip, Reschedule
  <2>6. Factor * Base \in Int
    BY DelayBounds, <2>3, <2>4
  <2>7. backoff' <= wait' /\ backoff' <= cooldown'
    BY <2>4, <2>5, <2>6 DEF AmpleScan
  <2>8. sincePoll' + wait' <= Late'
    <3>1. sincePoll' = sincePoll /\ sincePoll \in Nat
      BY <1>2 DEF Skip, TimesOK, Late
    <3>2. wait' \in Scan - 1 .. Scan + 1
      BY <2>5
    <3>3. sincePoll + wait' <= Late
      BY <2>3, <3>1, <3>2, WithinLate
    <3>4. QED
      BY <3>1, <3>3 DEF Late
  <2>9. phase' = "idle"
    BY <1>2 DEF Skip
  <2>10. QED
    BY <2>7, <2>8, <2>9 DEF TimeInv
<1>3. QED
  BY <1>1, <1>2 DEF Refresh

(* With an ample scan interval the UPS is polled again within Late.        *)
THEOREM NeverStarved == ASSUME AmpleScan PROVE Spec => []PolledInTime
<1> USE CycleAssumption
<1>1. Init => TimeInv
  BY DEF Init, TimeInv, Late
<1>2. TypeOK /\ TimeInv /\ [Next]_vars => TimeInv'
  <2> SUFFICES ASSUME TimesOK, TimeInv, [Next]_vars PROVE TimeInv'
    BY DEF TypeOK
  <2>1. CASE ScheduledRefresh
    BY <2>1, RefreshInTime DEF ScheduledRefresh
  <2>2. CASE RequestedRefresh
    BY <2>2, RefreshInTime DEF RequestedRefresh
  <2>3. CASE RequestRefresh
    <3>1. CASE cooldown > 0
      BY <2>3, <3>1 DEF RequestRefresh, TimeInv, Late
    <3>2. CASE ~(cooldown > 0)
      BY <2>3, <3>2, RefreshInTime DEF RequestRefresh, TimesOK
    <3>3. QED
      BY <3>1, <3>2
  <2>4. CASE PollFails
    <3>1. backoff' \in Nat /\ backoff' <= Base
      BY <2>4, DelayBounds DEF PollFails, RegisterFailure, TimeInv, ShouldRun,
                               TimesOK
    <3>2. Base <= Scan - 1
      <4>1. Factor * Base \in Nat /\ Base <= Factor * Base
        BY DelayBounds
      <4>2. QED
        BY <4>1 DEF AmpleScan
    <3>3. phase' = "idle"
      BY <2>4 DEF PollFails
    <3>4. sincePoll' \in Nat /\ sincePoll' <= PollLimit
      BY <2>4 DEF PollFails, TimeInv, TimesOK
    <3>5. wait' \in Scan - 1 .. Scan + 1
      BY <2>4 DEF PollFails, Reschedule
    <3>6. sincePoll' + wait' <= Late
      BY <3>4, <3>5, WithinLate
    <3>7. sincePoll' + backoff' <= PollLimit + Base
      BY <3>1, <3>4, WithinBase
    <3>8. backoff' <= wait'
      BY <3>1, <3>2, <3>5
    <3>9. QED
      BY <3>1, <3>3, <3>6, <3>7, <3>8 DEF TimeInv, Late
  <2>5. CASE PollSucceeds
    <3>1. phase' = "idle" /\ backoff' = None
      BY <2>5 DEF PollSucceeds, ResetBackoff
    <3>2. sincePoll' \in Nat /\ sincePoll' <= PollLimit
      BY <2>5 DEF PollSucceeds, TimeInv, TimesOK
    <3>3. wait' \in Scan - 1 .. Scan + 1
      BY <2>5 DEF PollSucceeds, Reschedule
    <3>4. sincePoll' + wait' <= Late
      BY <3>2, <3>3, WithinLate
    <3>5. QED
      BY <3>1, <3>4 DEF TimeInv, Late
  <2>6. CASE Tick
    <3>1. CASE phase = "idle"
      BY <2>6, <3>1 DEF Tick, Left, TimeInv, TimesOK, Late
    <3>2. CASE phase # "idle"
      BY <2>6, <3>2 DEF Tick, Left, TimeInv, TimesOK, ShouldRun, Late
    <3>3. QED
      BY <3>1, <3>2
  <2>7. CASE Outage
    BY <2>7 DEF Outage, timers, TimeInv, ShouldRun, Late
  <2>8. CASE UNCHANGED vars
    BY <2>8 DEF vars, timers, TimeInv, ShouldRun, Late
  <2>9. QED
    BY <2>1, <2>2, <2>3, <2>4, <2>5, <2>6, <2>7, <2>8 DEF Next, System
<1>3. TypeOK /\ TimeInv => PolledInTime
  BY DEF TypeOK, TimesOK, TimeInv, PolledInTime, Late
<1>4. QED
  BY <1>1, <1>2, <1>3, CycleTypeCorrect, PTL DEF Spec

-----------------------------------------------------------------------------
(* Entries that come later in the order have larger indices, below n.      *)
LEMMA SlotIndexNat ==
  ASSUME NEW ids \in SUBSET Int, IsFiniteSet(ids), NEW id \in Int
  PROVE  /\ IsFiniteSet({e \in ids : e < id})
         /\ SlotIndex(ids, id) \in Nat
<1>1. {e \in ids : e < id} \in SUBSET ids
  OBVIOUS
<1>2. QED
  BY <1>1, FS_Subset, FS_CardinalityType DEF SlotIndex

LEMMA SlotIndexIncreases ==
  ASSUME NEW ids \in SUBSET Int, IsFiniteSet(ids),
         NEW a \in ids, NEW b \in ids, a < b
  PROVE  SlotIndex(ids, a) + 1 <= SlotIndex(ids, b)
<1> DEFINE before == {e \in ids : e < a}
           upTo   == {e \in ids : e < b}
<1>1. IsFiniteSet(before) /\ Cardinality(before) \in Nat
  BY SlotIndexNat DEF SlotIndex
<1>2. IsFiniteSet(upTo) /\ Cardinality(upTo) \in Nat
  BY SlotIndexNat DEF SlotIndex
<1>3. IsFiniteSet(before \cup {a})
      /\ Cardinality(before \cup {a}) = Cardinality(before) + 1
  <2>1. a \notin before
    OBVIOUS
  <2>2. QED
    BY <1>1, <2>1, FS_AddElement
<1>4. before \cup {a} \in SUBSET upTo
  <2>1. \A e \in ids : e \in Int
    OBVIOUS
  <2>2. \A e \in ids : e < a => e < b
    BY <2>1
  <2>3. QED
    BY <2>2
<1>5. Cardinality(before \cup {a}) <= Cardinality(upTo)
  BY <1>2, <1>4, FS_Subset
<1>6. QED
  BY <1>1, <1>2, <1>3, <1>5 DEF SlotIndex

LEMMA SlotIndexBelow ==
  ASSUME NEW ids \in SUBSET Int, IsFiniteSet(ids), NEW id \in ids
  PROVE  SlotIndex(ids, id) + 1 <= Cardinality(ids)
<1> DEFINE before == {e \in ids : e < id}
<1>1. IsFiniteSet(before) /\ Cardinality(before) \in Nat
  BY SlotIndexNat DEF SlotIndex
<1>2. id \notin before /\ before \cup {id} \in SUBSET ids
  OBVIOUS
<1>3. Cardinality(before \cup {id}) = Cardinality(before) + 1
  BY <1>1, <1>2, FS_AddElement
<1>4. QED
  BY <1>1, <1>2, <1>3, FS_Subset, FS_CardinalityType DEF SlotIndex

LEMMA ProductMonotone ==
  ASSUME NEW i \in Nat, NEW j \in Nat, NEW w \in Nat, i + 1 <= j
  PROVE  i * w + w <= j * w
<1>1. PICK d \in Nat : j = i + 1 + d
  <2>1. j - i - 1 \in Nat /\ j = i + 1 + (j - i - 1)
    OBVIOUS
  <2>2. QED
    BY <2>1
<1>2. j * w = i * w + w + d * w /\ d * w \in Nat /\ i * w \in Nat
  BY <1>1
<1>3. QED
  BY <1>2

(* startup_stagger.py:17-20: "large fleets do not all perform SNMP         *)
(* metadata, Modbus probing, capability discovery, and first refresh at    *)
(* the same instant".  With one scan interval for all, setups begin one    *)
(* slot of the window apart, and so at least a second apart in a fleet of  *)
(* no more than sixty entries.                                             *)
THEOREM SetupsApart ==
  ASSUME NEW ids \in SUBSET Int, IsFiniteSet(ids), NEW scan \in Nat,
         NEW a \in ids, NEW b \in ids, a < b
  PROVE  LET n == Cardinality(ids) IN
         /\ StaggerDelay(ids, a, scan) + Window(n, scan)
              <= StaggerDelay(ids, b, scan)
         /\ n <= 60 => Window(n, scan) >= n
<1> DEFINE n == Cardinality(ids)
<1>1. /\ SlotIndex(ids, a) \in Nat /\ SlotIndex(ids, b) \in Nat
      /\ SlotIndex(ids, a) + 1 <= SlotIndex(ids, b)
  BY SlotIndexNat, SlotIndexIncreases
<1>2. n \in Nat /\ SlotIndex(ids, b) + 1 <= n
  BY SlotIndexBelow, FS_CardinalityType
<1>3. ~(n <= 1)
  BY <1>1, <1>2
<1>4. Window(n, scan) \in Nat
  BY <1>2 DEF Window, Smaller, Larger
<1>5. /\ StaggerDelay(ids, a, scan) = SlotIndex(ids, a) * Window(n, scan)
      /\ StaggerDelay(ids, b, scan) = SlotIndex(ids, b) * Window(n, scan)
  BY <1>3 DEF StaggerDelay
<1>6. StaggerDelay(ids, a, scan) + Window(n, scan) <= StaggerDelay(ids, b, scan)
  BY <1>1, <1>4, <1>5, ProductMonotone
<1>7. n <= 60 => Window(n, scan) >= n
  BY <1>2 DEF Window, Smaller, Larger
<1>8. QED
  BY <1>6, <1>7

(* "The delay spreads entry setup work across a bounded window": every     *)
(* setup begins before the window ends, at most a minute from the first,   *)
(* also that of an entry that is not in the list.                          *)
THEOREM SetupsWithinWindow ==
  ASSUME NEW ids \in SUBSET Int, IsFiniteSet(ids), NEW scan \in Nat,
         NEW id \in Int, Cardinality(ids) >= 1
  PROVE  LET n == Cardinality(ids) IN
         /\ 0 <= StaggerDelay(ids, id, scan)
         /\ StaggerDelay(ids, id, scan) + Window(n, scan) <= n * Window(n, scan)
         /\ Window(n, scan) <= 60
<1> DEFINE n == Cardinality(ids)
           w == Window(n, scan)
<1>1. n \in Nat
  BY FS_CardinalityType
<1>2. w \in Nat /\ w <= 60
  BY <1>1 DEF Window, Smaller, Larger
<1>3. CASE n <= 1 \/ id \notin ids
  <2>1. 0 * w + w <= n * w
    BY <1>1, <1>2, ProductMonotone
  <2>2. QED
    BY <1>2, <1>3, <2>1 DEF StaggerDelay
<1>4. CASE ~(n <= 1 \/ id \notin ids)
  <2>1. SlotIndex(ids, id) \in Nat /\ SlotIndex(ids, id) + 1 <= n
    BY <1>4, SlotIndexNat, SlotIndexBelow
  <2>2. /\ SlotIndex(ids, id) * w + w <= n * w
        /\ 0 <= SlotIndex(ids, id) * w
    BY <1>1, <1>2, <2>1, ProductMonotone
  <2>3. QED
    BY <1>2, <1>4, <2>2 DEF StaggerDelay
<1>5. QED
  BY <1>3, <1>4

(* scan_interval_guard.py:13-17: "Small deployments keep their configured  *)
(* value.  For larger fleets, enforce a floor that grows with entry        *)
(* count".  A larger fleet never scans faster, nor does a longer           *)
(* configured interval; and from nine to sixty entries the fleet begins at *)
(* most one scheduled poll in two seconds.                                 *)
THEOREM FleetPollRate ==
  ASSUME NEW c \in Nat \ {0}, NEW d \in Nat \ {0}, c <= d,
         NEW m \in Nat \ {0}, NEW n \in Nat \ {0}, m <= n
  PROVE  /\ c <= EffectiveScan(c, n)
         /\ EffectiveScan(c, m) <= EffectiveScan(d, n)
         /\ n <= 8 => EffectiveScan(c, n) = c
         /\ n \in 9 .. 60 => 2 * n <= EffectiveScan(c, n)
         /\ c <= 120 => EffectiveScan(c, n) <= 120
BY DEF EffectiveScan, Larger, Smaller

(* A fleet of up to sixty whose entries have one interval has begun all of *)
(* its setups before the first entry is due to poll again.                 *)
THEOREM SetupsBeforeSecondPoll ==
  ASSUME NEW c \in Nat \ {0}, NEW n \in 9 .. 60
  PROVE  Window(n, EffectiveScan(c, n)) <= EffectiveScan(c, n)
BY DEF Window, EffectiveScan, Larger, Smaller

-----------------------------------------------------------------------------
(* The tables.  A profile is sound if each register is of some words and   *)
(* has a key of its own, is listed by a block, and lies in every block     *)
(* that lists it.                                                          *)
KeysOf(registers) == {r.key : r \in registers}

OwnKeys(registers) == \A q, r \in registers : q.key = r.key => q = r

Shaped(registers, blocks) ==
  /\ \A r \in registers : r.at \in Nat /\ r.words \in {1, 2}
  /\ \A b \in blocks : b.start \in Nat /\ b.count \in Nat

Within(registers, blocks) ==
  \A r \in registers, b \in blocks :
    r.at \in b.listed =>
      b.start <= r.at /\ r.at + r.words <= b.start + b.count

Listed(registers, blocks) ==
  \A r \in registers : \E b \in blocks : r.at \in b.listed

Sound(registers, blocks) ==
  /\ Shaped(registers, blocks)
  /\ Within(registers, blocks)
  /\ Listed(registers, blocks)
  /\ OwnKeys(registers)

SmartUpsRegisters == SmartUpsStatus \cup SmartUpsSettings
SmtRegisters == SmtStatus \cup SmtBattery \cup SmtPower

LEMMA SmartUpsSound == Sound(SmartUpsRegisters, SmartUpsBlocks)
<1> USE DEF SmartUpsRegisters, SmartUpsStatus, SmartUpsSettings, Row, Register
<1>1. OwnKeys(SmartUpsRegisters)
  BY DEF OwnKeys
<1>2. Shaped(SmartUpsRegisters, SmartUpsBlocks)
  BY DEF Shaped, SmartUpsBlocks, Block
<1>3. Within(SmartUpsRegisters, SmartUpsBlocks)
  BY DEF Within, SmartUpsBlocks, Block
<1>4. Listed(SmartUpsRegisters, SmartUpsBlocks)
  <2>1. \A r \in SmartUpsRegisters : r.at \in (0..23) \cup (26..46) \cup {77}
    OBVIOUS
  <2>2. QED
    BY <2>1 DEF Listed, SmartUpsBlocks, Block
<1>5. QED
  BY <1>1, <1>2, <1>3, <1>4 DEF Sound

LEMMA SmtSound == Sound(SmtRegisters, SmtBlocks)
<1> USE DEF SmtRegisters, SmtStatus, SmtBattery, SmtPower, Row, Register
<1>1. OwnKeys(SmtRegisters)
  BY SMTT(60) DEF OwnKeys
<1>2. Shaped(SmtRegisters, SmtBlocks)
  BY DEF Shaped, SmtBlocks, Block
<1>3. Within(SmtRegisters, SmtBlocks)
  BY SMTT(60) DEF Within, SmtBlocks, Block
<1>4. Listed(SmtRegisters, SmtBlocks)
  <2>1. \A r \in SmtRegisters :
          r.at \in {0, 2, 18, 19, 20, 22, 25} \cup {595}
                     \cup {128} \cup (130..133) \cup (135..145) \cup (147..154)
    BY SMTT(60)
  <2>2. QED
    BY <2>1 DEF Listed, SmtBlocks, Block
<1>5. QED
  BY <1>1, <1>2, <1>3, <1>4 DEF Sound

LEMMA PduShape ==
  /\ PduRegisters = PduDevice \cup Row(667, Numbered("phase", 1, PhaseKeys))
  /\ DOMAIN PhaseKeys = 1..6
<1>1. {o \in 1..64 : o <= 0} = {} /\ {b \in 1..12 : b <= 0} = {}
  OBVIOUS
<1>2. {p \in DOMAIN PhaseAt : p <= 1} = {1} /\ PhaseAt[1] = 667
  BY DEF PhaseAt
<1>3. PhaseRegisters(1) = Row(667, Numbered("phase", 1, PhaseKeys))
  BY <1>2 DEF PhaseRegisters
<1>4. OutletRegisters(0) = {}
  BY <1>1 DEF OutletRegisters
<1>5. BankRegisters(0) = {}
  BY <1>1 DEF BankRegisters
<1>6. QED
  BY <1>3, <1>4, <1>5 DEF PduRegisters, BuildRegisters, PhaseKeys

LEMMA PduSound == Sound(PduRegisters, PduBlocks)
<1> DEFINE Phase == Row(667, Numbered("phase", 1, PhaseKeys))
<1>1. ASSUME NEW r \in Phase
      PROVE  \E i \in 1..6 : r.key = KeyOf("phase", 1, PhaseKeys[i])
                             /\ r.at = 666 + i /\ r.words = 1
                             /\ r = Register(KeyOf("phase", 1, PhaseKeys[i]), 666 + i, 1)
  BY PduShape DEF Row, Register, Numbered
<1>2. ASSUME NEW r \in PduDevice
      PROVE  /\ r.at \in (158..162) \cup (207..209) \cup {210, 212} 
             /\ r.words = IF r.at = 210 THEN 2 ELSE 1
  BY DEF PduDevice, Capabilities, Row, Register
<1>3. \A q, r \in PduDevice : q.key = r.key => q = r
  BY DEF PduDevice, Capabilities, Row, Register
<1>4. \A q, r \in Phase : q.key = r.key => q = r
  BY <1>1, PduShape, KeysAssumption
<1>5. \A q \in PduDevice, r \in Phase : q.key # r.key
  BY <1>1, PduShape, KeysAssumption
<1>6. OwnKeys(PduRegisters)
  BY <1>3, <1>4, <1>5, PduShape DEF OwnKeys
<1>7. \A r \in PduRegisters :
        /\ r.at \in (158..162) \cup (207..209) \cup {210, 212} \cup (667..672)
        /\ r.words = IF r.at = 210 THEN 2 ELSE 1
  BY <1>1, <1>2, PduShape
<1>8. QED
  BY <1>6, <1>7 DEF Sound, Shaped, Within, Listed, PduBlocks, Block

-----------------------------------------------------------------------------
(* A poll reads each register's own words, in a block as by itself.        *)
ProfileOf(f) ==
  CASE f = "smart_ups" -> SmartUpsRegisters
    [] f = "rack_pdu"  -> PduRegisters
    [] OTHER           -> SmtRegisters

LEMMA ProfileSound == Sound(Registers, Blocks) /\ Registers = ProfileOf(family)
BY SmartUpsSound, SmtSound, PduSound
   DEF Registers, Blocks, ProfileOf, SmartUpsRegisters, SmtRegisters

LEMMA PartOfWords ==
  ASSUME NEW start \in Nat, NEW count \in Nat,
         NEW at \in Nat, NEW words \in {1, 2},
         start <= at, at + words <= start + count
  PROVE  SubSeq(WordsOf(start, count), at - start + 1, at - start + words)
           = WordsOf(at, words)
<1> DEFINE m == at - start + 1
           n == at - start + words
           s == SubSeq(WordsOf(start, count), m, n)
<1>1. m \in Int /\ n \in Int /\ m <= n /\ n - m + 1 = words
  OBVIOUS
<1>2. \A i \in m .. n : WordsOf(start, count)[i] = start + i - 1
                        /\ start + i - 1 \in Nat
  <2>1. \A i \in m .. n : i \in 1 .. count
    OBVIOUS
  <2>2. \A i \in 1 .. count : WordsOf(start, count)[i] = start + i - 1
                               /\ start + i - 1 \in Nat
    BY DEF WordsOf
  <2> HIDE DEF m, n
  <2>3. QED
    BY <2>1, <2>2
<1>3. /\ s \in Seq(Nat) /\ Len(s) = words
      /\ \A i \in 1 .. words : s[i] = WordsOf(start, count)[m + i - 1]
  <2>1. \A i \in m .. n : WordsOf(start, count)[i] \in Nat
    BY <1>2
  <2> HIDE DEF m, n
  <2>2. QED
    BY <1>1, <2>1, SubSeqProperties
<1>4. \A i \in 1 .. words : s[i] = at + i - 1
  <2>1. ASSUME NEW i \in 1 .. words
        PROVE  m + i - 1 \in m .. n /\ start + (m + i - 1) - 1 = at + i - 1
    OBVIOUS
  <2> HIDE DEF s
  <2>2. QED
    BY <1>2, <1>3, <2>1
<1>5. s = [i \in 1 .. words |-> s[i]]
  BY <1>3, LenProperties
<1>6. QED
  BY <1>4, <1>5 DEF WordsOf

LEMMA SliceIsWords ==
  ASSUME NEW b, b.start \in Nat, b.count \in Nat,
         NEW at \in Nat, NEW words \in {1, 2},
         b.start <= at, at + words <= b.start + b.count
  PROVE  Slice(b, at, words) = WordsOf(at, words)
BY PartOfWords DEF Slice

LEMMA BlocksGiveRegisters == BlockData = RegisterData
<1> DEFINE Entry(r) == [key |-> r.key, words |-> WordsOf(r.at, r.words)]
<1>1. ASSUME NEW b \in Blocks, NEW r \in Registers, r.at \in b.listed
      PROVE  Slice(b, r.at, r.words) = WordsOf(r.at, r.words)
  BY <1>1, ProfileSound, SliceIsWords DEF Sound, Shaped, Within
<1>2. \A b \in Blocks :
        Decoded(b) = {Entry(r) : r \in {q \in Registers : q.at \in b.listed}}
  BY <1>1 DEF Decoded
<1>3. \A r \in Registers : \E b \in Blocks : r.at \in b.listed
  BY ProfileSound DEF Sound, Listed
<1>4. UNION {Decoded(b) : b \in Blocks} = {Entry(r) : r \in Registers}
  BY <1>2, <1>3
<1>5. QED
  BY <1>4 DEF BlockData, RegisterData

LEMMA AllComplete == \A b \in Blocks : Complete(b)
BY ProfileSound DEF Sound, Within, Complete

LEMMA RegisterDataIs ==
  /\ DOMAIN RegisterData = KeysOf(Registers)
  /\ \A r \in Registers : RegisterData[r.key] = WordsOf(r.at, r.words)
<1> DEFINE Entry(r) == [key |-> r.key, words |-> WordsOf(r.at, r.words)]
           Entries  == {Entry(r) : r \in Registers}
<1>1. RegisterData = [k \in {v.key : v \in Entries} |->
                        (CHOOSE v \in Entries : v.key = k).words]
  BY DEF RegisterData, AsData
<1>2. /\ \A r \in Registers : Entry(r) \in Entries /\ Entry(r).key = r.key
      /\ \A v \in Entries : \E r \in Registers :
           v.key = r.key /\ v.words = WordsOf(r.at, r.words)
  OBVIOUS
<1>3. \A q, r \in Registers : q.key = r.key => q = r
  BY ProfileSound DEF Sound, OwnKeys
<1> HIDE DEF Entry, Entries
<1>4. {v.key : v \in Entries} = KeysOf(Registers)
  BY <1>2 DEF KeysOf
<1>5. ASSUME NEW r \in Registers
      PROVE  /\ r.key \in KeysOf(Registers)
             /\ (CHOOSE v \in Entries : v.key = r.key).words = WordsOf(r.at, r.words)
  <2>1. \A v \in Entries : v.key = r.key => v.words = WordsOf(r.at, r.words)
    BY <1>2, <1>3
  <2>2. QED
    BY <1>2, <2>1 DEF KeysOf
<1>6. QED
  BY <1>1, <1>4, <1>5

(* The keys that the data of each family are made of.                      *)
LEMMA FamilyKeys ==
  /\ {"output_energy", "output_energy_rollover"} \cap KeysOf(SmartUpsRegisters) = {}
  /\ {"output_energy"} \cap KeysOf(PduRegisters) = {}
  /\ {"output_energy", "output_frequency"} \subseteq KeysOf(SmtRegisters)
  /\ Derived \cap KeysOf(SmtRegisters) = {}
<1>1. {"output_energy", "output_energy_rollover"} \cap KeysOf(SmartUpsRegisters) = {}
  BY DEF KeysOf, SmartUpsRegisters, SmartUpsStatus, SmartUpsSettings, Row, Register
<1>2. "output_energy" \notin KeysOf(PduRegisters)
  <2>1. \A r \in PduDevice : r.key # "output_energy"
    BY DEF PduDevice, Capabilities, Row, Register
  <2>2. \A r \in Row(667, Numbered("phase", 1, PhaseKeys)) : r.key # "output_energy"
    BY KeysAssumption, PduShape DEF Row, Numbered, Register
  <2>3. QED
    BY <2>1, <2>2, PduShape DEF KeysOf
<1>3. "output_energy" \in KeysOf(SmtRegisters)
  <2>1. Register("output_energy", 145, 2) \in SmtRegisters
    BY DEF SmtRegisters, SmtPower
  <2>2. QED
    BY <2>1 DEF KeysOf, Register
<1>4. "output_frequency" \in KeysOf(SmtRegisters)
  <2>1. Register("output_frequency", 144, 1) \in SmtRegisters
    BY SMTT(30) DEF SmtRegisters, SmtPower, Row, Register
  <2>2. QED
    BY <2>1 DEF KeysOf, Register
<1>5. Derived \cap KeysOf(SmtRegisters) = {}
  BY SMTT(60)
     DEF KeysOf, Derived, SmtRegisters, SmtStatus, SmtBattery, SmtPower, Row, Register
<1>6. QED
  BY <1>1, <1>2, <1>3, <1>4, <1>5

-----------------------------------------------------------------------------
(* What a poll gives, by blocks or one by one; it depends on the device    *)
(* only, so that the entities that were created stay those of the data.    *)
Polled == Tracked(Alias(RegisterData))

(* A SmartConnect that has no meter gives no energy.                       *)
Unmetered == family = "smartconnect_ups" /\ ~meter

LEMMA PolledKeys ==
  ASSUME family \in Families
  PROVE  /\ family \in {"smart_ups", "rack_pdu"} => Polled = RegisterData
         /\ family \in {"smt_ups", "smartconnect_ups"} =>
              /\ KeysOf(Registers) \ {"output_energy"} \subseteq DOMAIN Polled
              /\ DOMAIN Polled \subseteq KeysOf(Registers) \cup Derived
              /\ \A k \in KeysOf(Registers) \cap DOMAIN Polled :
                   Polled[k] = RegisterData[k]
              /\ "output_energy" \in DOMAIN Polled <=> ~Unmetered
              /\ "output_energy_rollover" \in DOMAIN Polled <=> ~Unmetered
              /\ family = "smt_ups" => "input_frequency" \in DOMAIN Polled
<1> DEFINE d == RegisterData
           a == Alias(d)
<1>1. DOMAIN d = KeysOf(Registers)
  BY RegisterDataIs
<1>2. CASE family = "smart_ups"
  <2>1. Alias(d) = d
    BY <1>2 DEF Alias
  <2>2. "output_energy" \notin DOMAIN d
    BY <1>1, <1>2, ProfileSound, FamilyKeys DEF ProfileOf
  <2>3. QED
    BY <1>2, <2>1, <2>2 DEF Polled, Tracked
<1>3. CASE family = "rack_pdu"
  <2>1. Alias(d) = d
    BY <1>3 DEF Alias
  <2>2. "output_energy" \notin DOMAIN d
    BY <1>1, <1>3, ProfileSound, FamilyKeys DEF ProfileOf
  <2>3. QED
    BY <1>3, <2>1, <2>2 DEF Polled, Tracked
<1>4. CASE family \in {"smt_ups", "smartconnect_ups"}
  <2>1. /\ {"output_energy", "output_frequency"} \subseteq DOMAIN d
        /\ Derived \cap DOMAIN d = {}
    BY <1>1, <1>4, ProfileSound, FamilyKeys DEF ProfileOf
  <2> HIDE DEF d
  <2>2. /\ DOMAIN a = DOMAIN d \cup (IF family = "smt_ups" THEN {"input_frequency"} ELSE {})
        /\ \A k \in DOMAIN d : a[k] = d[k]
    BY <2>1 DEF Alias, Derived
  <2> HIDE DEF a
  <2>3. Polled = Tracked(a)
    BY DEF Polled, a, d
  <2>4. CASE Unmetered
    <3>1. DOMAIN Polled = DOMAIN a \ {"output_energy"}
          /\ \A k \in DOMAIN Polled : Polled[k] = a[k]
      BY <2>1, <2>2, <2>3, <2>4 DEF Tracked, Unmetered
    <3>2. QED
      BY <1>1, <1>4, <2>1, <2>2, <2>4, <3>1 DEF Derived, d, Unmetered
  <2>5. CASE ~Unmetered
    <3>1. DOMAIN Polled = DOMAIN a \cup {"output_energy_rollover"}
          /\ \A k \in DOMAIN a : Polled[k] = a[k]
      BY <2>1, <2>2, <2>3, <2>5 DEF Tracked, Unmetered
    <3>2. QED
      BY <1>1, <1>4, <2>1, <2>2, <2>5, <3>1 DEF Derived, d
  <2>6. QED
    BY <2>4, <2>5
<1>5. QED
  BY <1>2, <1>3, <1>4, SetupAssumption

LEMMA PolledIsProfile ==
  ASSUME family \in Families
  PROVE  /\ \A r \in Registers :
              IF r.key = "output_energy" /\ family = "smartconnect_ups" /\ ~meter
              THEN r.key \notin DOMAIN Polled
              ELSE r.key \in DOMAIN Polled /\ Polled[r.key] = WordsOf(r.at, r.words)
         /\ DOMAIN Polled \subseteq {r.key : r \in Registers} \cup Derived
<1>1. \A r \in Registers : r.key \in KeysOf(Registers)
  BY DEF KeysOf
<1>2. DOMAIN RegisterData = KeysOf(Registers)
      /\ \A r \in Registers : RegisterData[r.key] = WordsOf(r.at, r.words)
  BY RegisterDataIs
<1>3. {r.key : r \in Registers} = KeysOf(Registers)
  BY DEF KeysOf
<1>4. CASE family \in {"smart_ups", "rack_pdu"}
  BY <1>1, <1>2, <1>3, <1>4, PolledKeys
<1>5. CASE family \in {"smt_ups", "smartconnect_ups"}
  <2>1. \A r \in Registers :
          IF r.key = "output_energy" /\ Unmetered
          THEN r.key \notin DOMAIN Polled
          ELSE r.key \in DOMAIN Polled /\ Polled[r.key] = WordsOf(r.at, r.words)
    BY <1>1, <1>2, <1>5, PolledKeys
  <2>2. QED
    BY <1>3, <1>5, <2>1, PolledKeys DEF Unmetered
<1>6. QED
  BY <1>4, <1>5, SetupAssumption

LEMMA PollGives == Poll => data' = Polled /\ (answered' => byBlocks')
                           /\ answered' \in BOOLEAN /\ byBlocks' \in BOOLEAN
BY BlocksGiveRegisters, AllComplete DEF Poll, Polled

-----------------------------------------------------------------------------
(* The sensors.                                                            *)
Shown ==
  {s \in Described :
     "output_energy" \in DOMAIN Polled \/ s.shows # "output_energy_rollover"}

LEMMA SensorShapes ==
  /\ \A S : \A s \in Plain(S) : /\ s.key \in S /\ s.shows = s.key
                                /\ DOMAIN s = {"key", "shows"}
  /\ \A S, w : \A s \in Showing(w, S) : s.shows = w /\ DOMAIN s = {"key", "shows"}
  /\ \A k, w : /\ Of(k, w).key = k /\ Of(k, w).shows = w
               /\ DOMAIN Of(k, w) = {"key", "shows"}
BY DEF Plain, Showing, Of

LEMMA RowKeys ==
  ASSUME NEW at, NEW keys, NEW registers, Row(at, keys) \subseteq registers
  PROVE  \A i \in DOMAIN keys : keys[i] \in KeysOf(registers)
<1>1. ASSUME NEW i \in DOMAIN keys
      PROVE  keys[i] \in KeysOf(registers)
  <2>1. Register(keys[i], at + i - 1, 1) \in registers
    BY DEF Row
  <2>2. QED
    BY <2>1 DEF KeysOf, Register
<1>2. QED
  BY <1>1

LEMMA SmtKeys ==
  /\ {"ups_status_bf", "simple_signaling_status_bf", "battery_system_error_bf",
      "battery_lifetime_status_bf", "ups_status_change_cause"}
       \subseteq KeysOf(SmtRegisters)
  /\ {"runtime_remaining", "battery_state_of_charge", "battery_voltage",
      "battery_voltage_negative", "battery_replacement_date_days",
      "battery_temperature", "battery_installation_date_days"}
       \subseteq KeysOf(SmtRegisters)
  /\ {"output_energy", "output_load_percent", "output_load_percent_l2",
      "output_apparent_power_percent", "output_apparent_power_percent_l2",
      "output_current", "output_current_l2", "output_voltage",
      "output_voltage_l2", "output_frequency"} \subseteq KeysOf(SmtRegisters)
  /\ {"bypass_voltage", "bypass_frequency", "input_voltage",
      "input_voltage_l2", "input_voltage_l3", "input_efficiency"}
       \subseteq KeysOf(SmtRegisters)
<1>1. \A r \in SmtRegisters : r.key \in KeysOf(SmtRegisters)
  BY DEF KeysOf
<1>2. /\ Register("ups_status_bf", 0, 2) \in SmtRegisters
      /\ Register("runtime_remaining", 128, 2) \in SmtRegisters
      /\ Register("output_energy", 145, 2) \in SmtRegisters
  BY DEF SmtRegisters, SmtStatus, SmtBattery, SmtPower
<1>3. {"ups_status_bf", "runtime_remaining", "output_energy"}
        \subseteq KeysOf(SmtRegisters)
  BY <1>1, <1>2 DEF Register
<1>4. {"simple_signaling_status_bf", "battery_system_error_bf",
       "battery_lifetime_status_bf", "ups_status_change_cause"}
        \subseteq KeysOf(SmtRegisters)
  <2>1. SmtStatus \subseteq SmtRegisters
    BY DEF SmtRegisters
  <2>2. QED
    BY <2>1, RowKeys DEF SmtStatus
<1>5. {"battery_state_of_charge", "battery_voltage",
       "battery_voltage_negative", "battery_replacement_date_days",
       "battery_temperature", "battery_installation_date_days"}
        \subseteq KeysOf(SmtRegisters)
  <2>1. SmtBattery \subseteq SmtRegisters
    BY DEF SmtRegisters
  <2>2. QED
    BY <2>1, RowKeys DEF SmtBattery
<1>6. /\ {"output_load_percent", "output_load_percent_l2",
          "output_apparent_power_percent", "output_apparent_power_percent_l2",
          "output_current", "output_current_l2", "output_voltage",
          "output_voltage_l2", "output_frequency"} \subseteq KeysOf(SmtRegisters)
      /\ {"bypass_voltage", "bypass_frequency", "input_voltage",
          "input_voltage_l2", "input_voltage_l3", "input_efficiency"}
           \subseteq KeysOf(SmtRegisters)
  <2>1. SmtPower \subseteq SmtRegisters
    BY DEF SmtRegisters
  <2>2. QED
    BY <2>1, RowKeys DEF SmtPower
<1>7. QED
  BY <1>3, <1>4, <1>5, <1>6

LEMMA SmtShows ==
  /\ \A s \in SmtSensors :
       /\ s.shows \in KeysOf(SmtRegisters) \cup Derived
       /\ s.shows = "input_frequency" => s.key = "input_frequency"
       /\ DOMAIN s = {"key", "shows"}
  /\ \A s \in SmtStatusSensors \cup SmtBatterySensors \cup DateEntity :
       /\ s.shows \in KeysOf(SmtRegisters) \ {"output_energy"}
       /\ DOMAIN s = {"key", "shows"}
<1>1. \A s \in SmtSensors :
        /\ s.shows \in KeysOf(SmtRegisters) \cup Derived
        /\ s.shows = "input_frequency" => s.key = "input_frequency"
        /\ DOMAIN s = {"key", "shows"}
  BY SmtKeys, SensorShapes DEF SmtSensors, Derived
<1>2. \A s \in SmtStatusSensors :
        /\ s.shows \in KeysOf(SmtRegisters) \ {"output_energy"}
        /\ DOMAIN s = {"key", "shows"}
  BY SmtKeys, SensorShapes DEF SmtStatusSensors
<1>3. \A s \in SmtBatterySensors :
        /\ s.shows \in KeysOf(SmtRegisters) \ {"output_energy"}
        /\ DOMAIN s = {"key", "shows"}
  BY SmtKeys, SensorShapes DEF SmtBatterySensors
<1>4. \A s \in DateEntity :
        /\ s.shows \in KeysOf(SmtRegisters) \ {"output_energy"}
        /\ DOMAIN s = {"key", "shows"}
  BY SmtKeys, SensorShapes DEF DateEntity
<1>5. QED
  BY <1>1, <1>2, <1>3, <1>4

LEMMA SmartUpsShows ==
  \A s \in SmartUpsSensors \cup SmartUpsBinarySensors :
    s.shows \in KeysOf(SmartUpsRegisters) /\ DOMAIN s = {"key", "shows"}
<1>1. {"status_word_1", "status_word_2", "status_word_3",
       "battery_state_of_charge", "battery_voltage", "runtime_remaining",
       "ups_internal_temperature", "bad_battery_packs", "total_battery_packs",
       "load_amps", "load_percent", "input_voltage", "max_input_voltage",
       "min_input_voltage", "actual_output_voltage", "nominal_output_voltage"}
        \subseteq KeysOf(SmartUpsRegisters)
  <2>1. SmartUpsStatus \subseteq SmartUpsRegisters
    BY DEF SmartUpsRegisters
  <2>2. QED
    BY <2>1, RowKeys DEF SmartUpsStatus
<1>2. {"input_frequency", "lower_transfer_point", "upper_transfer_point",
       "shutdown_delay", "low_battery_duration", "turn_on_delay"}
        \subseteq KeysOf(SmartUpsRegisters)
  <2>1. SmartUpsSettings \subseteq SmartUpsRegisters
    BY DEF SmartUpsRegisters
  <2>2. QED
    BY <2>1, RowKeys DEF SmartUpsSettings
<1>3. \A s \in SmartUpsSensors :
        s.shows \in KeysOf(SmartUpsRegisters) /\ DOMAIN s = {"key", "shows"}
  BY <1>1, <1>2, SensorShapes DEF SmartUpsSensors
<1>4. \A s \in SmartUpsBinarySensors :
        s.shows \in KeysOf(SmartUpsRegisters) /\ DOMAIN s = {"key", "shows"}
  BY <1>1, SensorShapes DEF SmartUpsBinarySensors
<1>5. QED
  BY <1>3, <1>4

-----------------------------------------------------------------------------
(* What a PDU shows of itself.                                             *)
LEMMA PduShapes ==
  /\ \A s \in PduDeviceSensors :
       s.shows \notin Derived /\ DOMAIN s = {"key", "shows"}
  /\ \A phases, outlets, banks :
       \A s \in PduNumberedSensors(phases, outlets, banks) :
         DOMAIN s = {"key", "shows"}
<1>1. \A s \in PduDeviceSensors :
        s.shows \notin Derived /\ DOMAIN s = {"key", "shows"}
  BY SensorShapes DEF PduDeviceSensors, Derived
<1>2. QED
  BY <1>1, SensorShapes DEF PduNumberedSensors

LEMMA FewerSensors ==
  ASSUME NEW p \in Nat, NEW o \in Nat, NEW n \in Nat,
         NEW ps \in Nat, NEW os \in Nat, NEW ns \in Nat,
         p <= ps, o <= os, n <= ns
  PROVE  PduNumberedSensors(p, o, n) \subseteq PduNumberedSensors(ps, os, ns)
<1>1. 1..p \subseteq 1..ps /\ 1..o \subseteq 1..os /\ 1..n \subseteq 1..ns
  OBVIOUS
<1>2. \A S, T : S \subseteq T => Plain(S) \subseteq Plain(T)
  BY DEF Plain
<1> DEFINE Keys(a, b, c) ==
             {KeyOf("phase", i, k) : i \in a, k \in ToSet(PhaseKeys)}
             \cup {KeyOf("outlet", i, k) :
                     i \in b, k \in {"current", "power", "energy", "alarm_state"}}
             \cup {KeyOf("bank", i, k) : i \in c, k \in {"current", "state"}}
<1>3. Keys(1..p, 1..o, 1..n) \subseteq Keys(1..ps, 1..os, 1..ns)
  BY <1>1
<1>4. QED
  BY <1>2, <1>3 DEF PduNumberedSensors

LEMMA CapabilityRead ==
  ASSUME pdu \in Pdus, DOMAIN caps \subseteq ToSet(Capabilities),
         \A c \in DOMAIN caps : caps[c] = pdu[c]
  PROVE  /\ NumberedSensors \subseteq SensorsOf(pdu)
         /\ DOMAIN caps = ToSet(Capabilities) => NumberedSensors = SensorsOf(pdu)
<1>1. {"num_phases", "num_metered_outlets", "num_banks"} \subseteq ToSet(Capabilities)
  BY DEF ToSet, Capabilities
<1>2. \A c \in ToSet(Capabilities) : pdu[c] \in Nat
  BY SetupAssumption
<1>3. /\ Capability("num_phases", 1) \in Nat
      /\ Capability("num_phases", 1) <= pdu["num_phases"]
      /\ Capability("num_metered_outlets", 0) \in Nat
      /\ Capability("num_metered_outlets", 0) <= pdu["num_metered_outlets"]
      /\ Capability("num_banks", 0) \in Nat
      /\ Capability("num_banks", 0) <= pdu["num_banks"]
  BY <1>1, <1>2, SetupAssumption DEF Capability
<1>4. NumberedSensors \subseteq SensorsOf(pdu)
  <2>1. /\ pdu["num_phases"] \in Nat /\ pdu["num_metered_outlets"] \in Nat
        /\ pdu["num_banks"] \in Nat
    BY <1>1, <1>2
  <2> DEFINE p == Capability("num_phases", 1)
             o == Capability("num_metered_outlets", 0)
             n == Capability("num_banks", 0)
             ps == pdu["num_phases"]
             os == pdu["num_metered_outlets"]
             ns == pdu["num_banks"]
  <2>2. p \in Nat /\ o \in Nat /\ n \in Nat /\ p <= ps /\ o <= os /\ n <= ns
    BY <1>3
  <2> HIDE DEF p, o, n, ps, os, ns
  <2>3. PduNumberedSensors(p, o, n) \subseteq PduNumberedSensors(ps, os, ns)
    <3>1. ps \in Nat /\ os \in Nat /\ ns \in Nat
      BY <2>1 DEF ps, os, ns
    <3>2. QED
      BY <2>2, <3>1, FewerSensors
  <2>4. QED
    BY <2>3 DEF NumberedSensors, SensorsOf, p, o, n, ps, os, ns
<1>5. DOMAIN caps = ToSet(Capabilities) => NumberedSensors = SensorsOf(pdu)
  BY <1>1 DEF NumberedSensors, SensorsOf, Capability
<1>6. QED
  BY <1>4, <1>5

LEMMA DescribedShapes == \A s \in Described : DOMAIN s = {"key", "shows"}
<1>1. \A s \in NumberedSensors : DOMAIN s = {"key", "shows"}
  BY PduShapes DEF NumberedSensors
<1>2. QED
  BY <1>1, SmtShows, SmartUpsShows, PduShapes DEF Described, SmartConnectSensors

LEMMA AskedCapabilities ==
  /\ ToSet(Capabilities) = {Capabilities[i] : i \in 1..5}
  /\ \A n \in 0..5 :
       ToSet(SubSeq(Capabilities, 1, n)) = {Capabilities[i] : i \in 1..n}
<1> DEFINE all == {Capabilities[i] : i \in 1..5}
<1>1. ToSet(Capabilities) = all
  BY DEF ToSet, Capabilities
<1>2. ASSUME NEW n \in 0..5
      PROVE  ToSet(SubSeq(Capabilities, 1, n)) = {Capabilities[i] : i \in 1..n}
  <2>1. \A i \in 1..n : Capabilities[i] \in all
    OBVIOUS
  <2> HIDE DEF all
  <2>2. /\ SubSeq(Capabilities, 1, n) \in Seq(all)
        /\ Len(SubSeq(Capabilities, 1, n)) = n
        /\ \A i \in 1..n : SubSeq(Capabilities, 1, n)[i] = Capabilities[i]
    BY <2>1, SubSeqProperties
  <2>3. DOMAIN SubSeq(Capabilities, 1, n) = 1..n
    BY <2>2, LenProperties
  <2>4. QED
    BY <2>2, <2>3 DEF ToSet
<1>3. QED
  BY <1>1, <1>2

LEMMA OneMoreAsked ==
  ASSUME NEW n \in 0..4
  PROVE  ToSet(SubSeq(Capabilities, 1, n + 1))
           = ToSet(SubSeq(Capabilities, 1, n)) \cup {Capabilities[n + 1]}
<1>1. 1..n + 1 = 1..n \cup {n + 1}
  OBVIOUS
<1>2. QED
  BY <1>1, AskedCapabilities

-----------------------------------------------------------------------------
(* The invariant: a poll's data are those of the device and the entities   *)
(* those that it has, whatever was answered.                               *)
SetupInv ==
  /\ SetupTypeOK
  /\ answered => byBlocks
  /\ stage \in {"entities", "loaded"} => data = Polled
  /\ stage = "loaded" => entities = Shown

LEMMA SetupEstablished == SetupInit => SetupInv
BY SetupAssumption
   DEF SetupInit, SetupInv, SetupTypeOK, NoFunction, Capabilities

LEMMA ShownTypes == \A s \in Shown : DOMAIN s = {"key", "shows"}
BY DescribedShapes DEF Shown

LEMMA SameDevice ==
  ASSUME UNCHANGED device
  PROVE  Polled' = Polled /\ (UNCHANGED caps => Shown' = Shown)
<1>1. Polled' = Polled
  BY DEF device, Polled, Tracked, Alias, RegisterData, AsData, Registers, WordsOf
<1>2. ASSUME UNCHANGED caps PROVE Described' = Described
  BY <1>2 DEF device, Described, NumberedSensors, Capability
<1>3. QED
  BY <1>1, <1>2 DEF Shown

LEMMA SetupPreserved == SetupInv /\ [SetupNext]_setupVars => SetupInv'
<1> SUFFICES ASSUME SetupInv, [SetupNext]_setupVars PROVE SetupInv'
  OBVIOUS
<1> USE DEF SetupInv, SetupTypeOK
<1>1. CASE DiscoverCapability
  <2>1. Len(Capabilities) = 5
    BY DEF Capabilities
  <2>2. PICK read \in SUBSET {Capabilities[asked + 1]} :
          caps' = [k \in DOMAIN caps \cup read |-> pdu[k]]
    BY <1>1 DEF DiscoverCapability
  <2>3. /\ asked \in 0..4 /\ asked' = asked + 1
        /\ stage' \in {"discover", "refresh"}
        /\ UNCHANGED <<device, data, entities, answered, byBlocks>>
    BY <1>1, <2>1 DEF DiscoverCapability
  <2>4. DOMAIN caps' \subseteq ToSet(SubSeq(Capabilities, 1, asked'))
    BY <2>2, <2>3, OneMoreAsked
  <2>5. \A c \in DOMAIN caps' : caps'[c] = pdu'[c]
    BY <2>2, <2>3 DEF device
  <2>6. QED
    BY <2>1, <2>3, <2>4, <2>5 DEF device
<1>2. CASE FirstRefresh
  BY <1>2, PollGives, SameDevice DEF FirstRefresh, device
<1>3. CASE LaterRefresh
  BY <1>3, PollGives, SameDevice DEF LaterRefresh, device
<1>4. CASE CreateEntities
  <2>1. entities' = Shown /\ UNCHANGED <<device, asked, caps, data, answered, byBlocks>>
        /\ stage = "entities" /\ stage' = "loaded"
    BY <1>4 DEF CreateEntities, Shown
  <2>2. QED
    BY <2>1, SameDevice, ShownTypes DEF device
<1>5. CASE UNCHANGED setupVars
  BY <1>5, SameDevice DEF setupVars, device
<1>6. QED
  BY <1>1, <1>2, <1>3, <1>4, <1>5 DEF SetupNext

LEMMA SetupAlways == SetupSpec => []SetupInv
BY SetupEstablished, SetupPreserved, PTL DEF SetupSpec

(* ProfileSetup's types, for every set of PDUs: only asked registers are   *)
(* known, with the values that the device has (async_discover_capabilities).*)
THEOREM SetupTypeCorrect == SetupSpec => []SetupTypeOK
BY SetupAlways, PTL DEF SetupInv

(* Every poll of every family gives each register of the profile its own   *)
(* words, whether its blocks were answered or not (modbus_poller.py:206).  *)
THEOREM PollsReadProfile == SetupSpec => []PollReadsProfile
<1>1. SetupInv => PollReadsProfile
  BY PolledIsProfile DEF SetupInv, SetupTypeOK, PollReadsProfile
<1>2. QED
  BY <1>1, SetupAlways, PTL

(* No answered block makes a poll fall back to the registers one by one.   *)
THEOREM BlocksAlwaysSuffice == SetupSpec => []BlocksSuffice
<1>1. SetupInv => BlocksSuffice
  BY DEF SetupInv, BlocksSuffice
<1>2. QED
  BY <1>1, SetupAlways, PTL

(* Every entity of a loaded UPS has a key that its polls give, but the     *)
(* energy of a SmartConnect without a meter (sensor.py:64-71).             *)
THEOREM EntitiesAlwaysServed == SetupSpec => []EntitiesServed
<1>1. ASSUME SetupInv, stage = "loaded", family # "rack_pdu", NEW e \in entities
      PROVE  \/ e.shows \in DOMAIN data
             \/ e.shows = "output_energy" /\ family = "smartconnect_ups" /\ ~meter
  <2>1. family \in Families /\ data = Polled /\ e \in Shown
    BY <1>1 DEF SetupInv, SetupTypeOK
  <2>2. CASE family = "smart_ups"
    <3>1. e.shows \in KeysOf(SmartUpsRegisters)
      BY <2>1, <2>2, SmartUpsShows DEF Shown, Described
    <3>2. DOMAIN data = KeysOf(SmartUpsRegisters)
      BY <2>1, <2>2, PolledKeys, RegisterDataIs, ProfileSound DEF ProfileOf
    <3>3. QED
      BY <3>1, <3>2
  <2>3. CASE family = "smt_ups"
    <3>1. e.shows \in KeysOf(SmtRegisters) \cup Derived
      BY <2>1, <2>3, SmtShows DEF Shown, Described
    <3>2. KeysOf(SmtRegisters) \cup Derived \subseteq DOMAIN data
      BY <2>1, <2>3, PolledKeys, ProfileSound DEF ProfileOf, Unmetered, Derived
    <3>3. QED
      BY <3>1, <3>2
  <2>4. CASE family = "smartconnect_ups"
    <3>1. e.shows \in KeysOf(SmtRegisters) \cup {"output_energy_rollover"}
      BY <2>1, <2>4, SmtShows
         DEF Shown, Described, SmartConnectSensors, SmartConnectUnsupported, Derived
    <3>2. e.shows = "output_energy_rollover" => "output_energy" \in DOMAIN Polled
      BY <2>1 DEF Shown
    <3>3. /\ KeysOf(SmtRegisters) \ {"output_energy"} \subseteq DOMAIN data
          /\ "output_energy" \in DOMAIN data <=> ~Unmetered
          /\ "output_energy_rollover" \in DOMAIN data <=> ~Unmetered
      BY <2>1, <2>4, PolledKeys, ProfileSound DEF ProfileOf
    <3>4. QED
      BY <2>1, <2>4, <3>1, <3>2, <3>3 DEF Unmetered
  <2>5. QED
    BY <1>1, <2>1, <2>2, <2>3, <2>4, SetupAssumption
<1>2. SetupInv => EntitiesServed
  BY <1>1 DEF EntitiesServed
<1>3. QED
  BY <1>2, SetupAlways, PTL

(* Whatever phases, outlets and banks a Rack PDU has, and whichever of the *)
(* capabilities could be read, it gets no sensor of a part that it does    *)
(* not have, and all if they could (registers_rack_pdu.py:419-602).        *)
THEOREM SensorsAlwaysOfDevice == SetupSpec => []SensorsOfDevice
<1>1. ASSUME SetupInv, stage = "loaded", family = "rack_pdu"
      PROVE  /\ entities \ PduDeviceSensors \subseteq SensorsOf(pdu)
             /\ DOMAIN caps = ToSet(Capabilities) => SensorsOf(pdu) \subseteq entities
             /\ PduDeviceSensors \subseteq entities
  <2>1. /\ pdu \in Pdus /\ entities = Shown
        /\ asked \in 0..5
        /\ DOMAIN caps \subseteq ToSet(SubSeq(Capabilities, 1, asked))
        /\ \A c \in DOMAIN caps : caps[c] = pdu[c]
    BY <1>1 DEF SetupInv, SetupTypeOK, Capabilities
  <2>2. DOMAIN caps \subseteq ToSet(Capabilities)
    BY <2>1, AskedCapabilities
  <2>3. /\ NumberedSensors \subseteq SensorsOf(pdu)
        /\ DOMAIN caps = ToSet(Capabilities) => NumberedSensors = SensorsOf(pdu)
    BY <2>1, <2>2, CapabilityRead
  <2>4. Described = PduDeviceSensors \cup NumberedSensors
    BY <1>1 DEF Described
  <2>5. \A s \in PduDeviceSensors \cup SensorsOf(pdu) :
          s.shows # "output_energy_rollover"
    BY <2>1, PduShapes, KeysAssumption DEF Derived
  <2>6. entities = PduDeviceSensors \cup NumberedSensors
    BY <2>1, <2>3, <2>4, <2>5 DEF Shown
  <2>7. QED
    BY <2>3, <2>6
<1>2. SetupInv => SensorsOfDevice
  BY <1>1 DEF SensorsOfDevice
<1>3. QED
  BY <1>2, SetupAlways, PTL
=============================================================================
