-------------------------- MODULE ModbusPollerProofs --------------------------
(***************************************************************************)
(* Theorems about ModbusPoller, for every profile of registers and blocks, *)
(* every device and any number of network faults.                          *)
(***************************************************************************)
EXTENDS ModbusPoller, ModbusTransportProofs, TLAPS

-----------------------------------------------------------------------------
(* The device is what it is, and the transport in the middle of a poll.    *)
DeviceOK ==
  /\ answers \in [Keys -> {"ok", "short", "error"}]
  /\ replies \in [1 .. Len(Blocks) -> {"ok", "short", "error"}]

(* In one-request mode no connection outlives its request, so that what is *)
(* left after a poll is a connection of a session that was to be kept.     *)
ConnectionOK ==
  /\ t.mode = OneRequest => t.sock = "closed"
  /\ stage # "idle" => outcome = "none"
  /\ ConnectionLeft

(* What a pass over the blocks or the registers has read so far was read   *)
(* in one mode, unless the transport was promoted during the pass, which   *)
(* makes the poll drop what it has.                                        *)
InOneMode == \A k \in Keys : data[k] \in {None, t.mode}

ModesOK ==
  /\ stage = "connect" =>
       next = 1 /\ failures = 0 /\ errors = {} /\ data = NoData
  /\ stage \in {"blocks", "registers"} =>
       /\ before # t.mode => t.mode = OneRequest
       /\ before = t.mode => InOneMode
  /\ stage \in {"blocks_redone", "blocks_last", "registers_last"} =>
       t.mode = OneRequest /\ InOneMode
  /\ stage = "close" \/ outcome = "result" => InOneMode

(* Every key a pass has gone over has a value or is an error; in a pass    *)
(* over the registers it may also be one that the device is mute about.    *)
Seen(k) == data[k] # None \/ k \in errors
Asked(k) == Seen(k) \/ k \in Mute

SeenOK ==
  /\ stage \in BlockReads =>
       \A i \in 1 .. next - 1 : \A k \in ToSet(Blocks[i]) : Seen(k)
  /\ stage \in SingleReads => \A j \in 1 .. next - 1 : Asked(Registers[j])
  /\ stage = "close" \/ outcome = "result" =>
       Missing \subseteq errors \cup Mute \/ failures >= AbortAfter

(* The individual reads are given up over that many errors.                *)
FailuresOK ==
  stage \in SingleReads \/ stage = "close" \/ outcome = "result" =>
    \A j \in next - failures .. next - 1 :
      j \in 1 .. Len(Registers) /\ Registers[j] \in errors

(* As long as the network does not disturb the poll, every answer is the   *)
(* one the device gives: a block that it serves is never an error, and     *)
(* the failures of the individual reads are registers that it rejects.     *)
AnswersOK ==
  ~disturbed =>
    /\ (\A i \in DOMAIN replies : replies[i] = "ok") =>
         /\ stage \notin SingleReads /\ errors = {}
         /\ stage = "close" \/ outcome = "result" => Missing = {}
    /\ stage \in SingleReads =>
         /\ \A j \in 1 .. next - 1 :
              answers[Registers[j]] = "ok" => data[Registers[j]] # None
         /\ failures <= next - 1
         /\ \A j \in next - failures .. next - 1 :
              answers[Registers[j]] = "error"
    /\ stage = "close" \/ outcome = "result" =>
         Served \cap Missing = {} \/ RejectedRun

PollerInv ==
  /\ TypeOK
  /\ DeviceOK
  /\ ConnectionOK
  /\ ModesOK
  /\ SeenOK
  /\ FailuresOK
  /\ AnswersOK

LEMMA BlocksAreSequences == Blocks \in Seq(Seq(Keys) \ {<<>>})
BY PollerAssumption

LEMMA BlockKeys ==
  ASSUME NEW i \in 1 .. Len(Blocks)
  PROVE  ToSet(Blocks[i]) \subseteq Keys /\ Blocks[i][1] \in ToSet(Blocks[i])
<1> DEFINE block == Blocks[i]
<1>1. block \in Seq(Keys) /\ block # <<>>
  BY BlocksAreSequences
<1>2. DOMAIN block = 1 .. Len(block) /\ Len(block) \in Nat /\ Len(block) # 0
  BY <1>1
<1>3. \A j \in DOMAIN block : block[j] \in Keys
  BY <1>1
<1>4. 1 \in DOMAIN block
  BY <1>2
<1>5. QED
  BY <1>3, <1>4 DEF ToSet

LEMMA KeysInBlocks ==
  ASSUME NEW k \in Keys
  PROVE  \E i \in 1 .. Len(Blocks) : k \in ToSet(Blocks[i])
<1>1. Keys = UNION {ToSet(Blocks[i]) : i \in DOMAIN Blocks}
  BY PollerAssumption
<1>2. DOMAIN Blocks = 1 .. Len(Blocks)
  BY BlocksAreSequences
<1>3. QED
  BY <1>1, <1>2

LEMMA RegisterKeys ==
  /\ Registers \in Seq(Nat) /\ Len(Registers) \in Nat
  /\ \A j \in 1 .. Len(Registers) : Registers[j] \in Keys
  /\ \A k \in Keys : \E j \in 1 .. Len(Registers) : k = Registers[j]
<1>1. Registers \in Seq(Nat)
  BY PollerAssumption
<1>2. DOMAIN Registers = 1 .. Len(Registers) /\ Len(Registers) \in Nat
  BY <1>1
<1>3. QED
  BY <1>1, <1>2 DEF Keys, ToSet

LEMMA Bounds ==
  /\ AbortAfter \in Nat /\ AbortAfter > 0 /\ MaxFaults \in Nat
  /\ Len(Blocks) \in Nat
  /\ None # Session /\ None # OneRequest /\ Session # OneRequest
BY PollerAssumption, BlocksAreSequences DEF Session, OneRequest

(* A step of a poll that it does not call disturbed had no fault.          *)
LEMMA Undisturbed ==
  ASSUME NEW u, Leaves(u), t \in Transport, u \in Transport,
         u.faults <= t.faults, disturbed \in BOOLEAN
  PROVE  /\ t' = u /\ disturbed' \in BOOLEAN
         /\ disturbed => disturbed'
         /\ ~disturbed' => ~disturbed /\ u.faults = t.faults
         /\ u.faults # t.faults => disturbed'
<1>1. u.faults \in Nat /\ t.faults \in Nat
  BY DEF Transport
<1>2. CASE u.faults < t.faults
  <2>1. t' = u /\ disturbed' = TRUE
    BY <1>2, Zenon DEF Leaves
  <2>2. u.faults # t.faults
    BY <1>1, <1>2
  <2>3. QED
    BY <2>1, <2>2
<1>3. CASE ~(u.faults < t.faults)
  <2>1. t' = u /\ disturbed' = disturbed /\ u.faults = t.faults
    BY <1>1, <1>3 DEF Leaves
  <2>2. QED
    BY <2>1
<1>4. QED
  BY <1>2, <1>3

LEMMA PollerInit == Init => PollerInv
<1> SUFFICES ASSUME Init PROVE PollerInv
  OBVIOUS
<1>1. PICK m \in {Session, OneRequest}, c \in BOOLEAN :
        t = NewTransport(m, c, MaxFaults)
  BY DEF Init
<1>2. t \in Transport /\ t.mode = m /\ t.sock = "closed" /\ t.faults = MaxFaults
  <2>1. MaxFaults \in Nat /\ 0 \in 0 .. RecreateAfter - 1
    BY Bounds, NoFailures
  <2>2. QED
    BY <1>1, <2>1 DEF NewTransport, Transport
<1>3. /\ keep \in BOOLEAN /\ answers \in [Keys -> {"ok", "short", "error"}]
      /\ replies \in [1 .. Len(Blocks) -> {"ok", "short", "error"}]
      /\ stage = "idle" /\ next = 1 /\ failures = 0 /\ keepOpen = FALSE
      /\ before = m /\ data = NoData /\ errors = {} /\ outcome = "none"
      /\ disturbed = FALSE
  BY <1>2 DEF Init, Replies
<1>4. TypeOK
  <2>1. data \in [Keys -> {Session, OneRequest, None}]
    BY <1>3 DEF NoData
  <2>2. stage \notin BlockReads /\ stage \notin SingleReads
    BY <1>3 DEF BlockReads, SingleReads
  <2>3. next \in Nat \ {0} /\ failures \in 0 .. AbortAfter
    BY <1>3, Bounds
  <2>4. QED
    BY <1>2, <1>3, <2>1, <2>2, <2>3 DEF TypeOK
<1>5. DeviceOK /\ ConnectionOK /\ ModesOK
  BY <1>2, <1>3 DEF DeviceOK, ConnectionOK, ConnectionLeft, ModesOK
<1>6. SeenOK /\ FailuresOK /\ AnswersOK
  BY <1>3 DEF SeenOK, FailuresOK, AnswersOK, BlockReads, SingleReads
<1>7. QED
  BY <1>4, <1>5, <1>6 DEF PollerInv

(* What happens between two polls leaves everything but the transport.     *)
LEMMA OutsideStep ==
  ASSUME PollerInv, t' \in Transport, t'.mode = t.mode,
         UNCHANGED <<device, poll, outcome>>, keep' \in BOOLEAN,
         t'.sock = t.sock \/ (t'.sock # "closed" /\ t.sock # "closed")
  PROVE  PollerInv'
<1> USE DEF PollerInv, device, poll
<1>1. TypeOK'
  BY DEF TypeOK
<1>2. DeviceOK'
  BY DEF DeviceOK
<1>3. ConnectionOK'
  BY DEF ConnectionOK, ConnectionLeft
<1>4. ModesOK'
  BY DEF ModesOK, InOneMode
<1>5. SeenOK'
  BY DEF SeenOK, Seen, Asked, Missing, Mute
<1>6. AnswersOK'
  BY DEF AnswersOK, Missing, RejectedRun, Served
<1>7. FailuresOK'
  BY DEF FailuresOK
<1>8. QED
  BY <1>1, <1>2, <1>3, <1>4, <1>5, <1>6, <1>7

LEMMA StartPollStep == PollerInv /\ StartPoll => PollerInv'
<1> SUFFICES ASSUME PollerInv, StartPoll PROVE PollerInv'
  OBVIOUS
<1> USE DEF PollerInv
<1>1. /\ stage' = "connect" /\ next' = 1 /\ failures' = 0 /\ outcome' = "none"
      /\ data' = NoData /\ errors' = {} /\ keepOpen' = EffectiveKeep
      /\ t' = t /\ keep' = keep /\ answers' = answers /\ replies' = replies
      /\ before' = before /\ disturbed' = FALSE
  BY DEF StartPoll, Redo, device
<1>2. TypeOK'
  <2>1. keepOpen' \in BOOLEAN
    BY <1>1 DEF TypeOK, EffectiveKeep
  <2>2. data' \in [Keys -> {Session, OneRequest, None}]
    BY <1>1 DEF NoData
  <2>3. stage' \notin BlockReads /\ stage' \notin SingleReads
    BY <1>1 DEF BlockReads, SingleReads
  <2>4. next' \in Nat \ {0} /\ failures' \in 0 .. AbortAfter
    BY <1>1, Bounds
  <2>5. QED
    BY <1>1, <2>1, <2>2, <2>3, <2>4 DEF TypeOK
<1>3. DeviceOK' /\ ConnectionOK' /\ ModesOK'
  BY <1>1 DEF DeviceOK, ConnectionOK, ConnectionLeft, ModesOK
<1>4. SeenOK' /\ FailuresOK' /\ AnswersOK'
  BY <1>1 DEF SeenOK, FailuresOK, AnswersOK, BlockReads, SingleReads
<1>5. QED
  BY <1>1, <1>2, <1>3, <1>4

LEMMA ConnectStep == PollerInv /\ Connect => PollerInv'
<1> SUFFICES ASSUME PollerInv, Connect PROVE PollerInv'
  OBVIOUS
<1> USE DEF PollerInv
<1>1. PICK c \in EnsureConnections(t, EffectiveKeep) :
        /\ Leaves(c.t)
        /\ IF c.ok
           THEN stage' = "blocks" /\ before' = c.t.mode /\ UNCHANGED outcome
           ELSE stage' = "idle" /\ outcome' = "unreachable" /\ UNCHANGED before
  BY DEF Connect
<1>2. t \in Transport /\ EffectiveKeep \in BOOLEAN
  BY DEF TypeOK, EffectiveKeep
<1>3. /\ c.t \in Transport /\ c.ok \in BOOLEAN
      /\ c.t.mode = t.mode /\ c.t.faults <= t.faults
      /\ t.mode = OneRequest => c.t = t
      /\ ~c.ok => c.t.sock = "closed"
  BY <1>2, EnsureEnds
<1>4. /\ t' \in Transport /\ t'.mode = t.mode
      /\ disturbed' \in BOOLEAN /\ (disturbed => disturbed')
      /\ t.mode = OneRequest => t'.sock = t.sock
      /\ \/ stage' = "blocks" /\ before' = t'.mode /\ outcome' = "none"
         \/ /\ stage' = "idle" /\ outcome' = "unreachable" /\ before' = before
            /\ t'.sock = "closed"
  <2>1. outcome = "none"
    BY DEF Connect, ConnectionOK
  <2>2. QED
    BY <1>1, <1>2, <1>3, <2>1, Undisturbed DEF TypeOK
<1>5. /\ stage = "connect" /\ keep' = keep /\ next' = next
      /\ answers' = answers /\ replies' = replies
      /\ failures' = failures /\ keepOpen' = keepOpen /\ data' = data
      /\ errors' = errors
  BY DEF Connect, device
<1>6. next = 1 /\ failures = 0 /\ errors = {} /\ data = NoData
  BY <1>5 DEF ModesOK
<1>7. TypeOK'
  <2>1. t'.mode \in {Session, OneRequest}
    BY <1>4 DEF Transport
  <2>2. /\ stage' \in BlockReads => next' <= Len(Blocks) + 1
        /\ stage' \notin SingleReads
    BY <1>4, <1>5, <1>6, Bounds DEF SingleReads
  <2>3. stage' \in {"idle", "connect", "close"} \cup BlockReads \cup SingleReads
    BY <1>4 DEF BlockReads
  <2>4. QED
    BY <1>4, <1>5, <2>1, <2>2, <2>3 DEF TypeOK
<1>8. DeviceOK' /\ ConnectionOK'
  BY <1>4, <1>5 DEF DeviceOK, ConnectionOK, ConnectionLeft
<1>9. ModesOK'
  BY <1>4, <1>5, <1>6 DEF ModesOK, InOneMode, NoData
<1>10. FailuresOK'
  BY <1>4, <1>5, <1>6 DEF FailuresOK, SingleReads
<1>11. SeenOK'
  BY <1>4, <1>5, <1>6 DEF SeenOK, BlockReads, SingleReads
<1>12. AnswersOK'
  BY <1>4, <1>5, <1>6 DEF AnswersOK, BlockReads, SingleReads
<1>13. QED
  BY <1>7, <1>8, <1>9, <1>10, <1>11, <1>12

LEMMA ReadBlockStep == PollerInv /\ ReadBlock => PollerInv'
<1> SUFFICES ASSUME PollerInv, ReadBlock PROVE PollerInv'
  OBVIOUS
<1> USE DEF PollerInv
<1> DEFINE block == Blocks[next]
<1>1. PICK r \in ReadsWithReconnect(t, replies[next]) :
        LET got == Decoded(block, r.reply)
        IN  /\ Leaves(r.t)
            /\ data' = [k \in Keys |-> IF k \in got THEN r.t.mode ELSE data[k]]
            /\ errors' = errors \cup Failed(block, got)
  BY DEF ReadBlock
<1> DEFINE got == Decoded(block, r.reply)
<1>2. /\ stage \in BlockReads /\ next <= Len(Blocks) /\ next' = next + 1
      /\ keep' = keep /\ answers' = answers /\ replies' = replies
      /\ stage' = stage /\ failures' = failures /\ keepOpen' = keepOpen
      /\ before' = before /\ outcome' = outcome
  BY DEF ReadBlock, device
<1>3. /\ stage # "idle" /\ stage # "connect" /\ stage # "close"
      /\ stage \notin SingleReads /\ outcome = "none"
  BY <1>2 DEF BlockReads, SingleReads, ConnectionOK
<1>4. /\ next \in 1 .. Len(Blocks) /\ next \in Nat
      /\ replies[next] \in {"ok", "short", "error"}
      /\ replies[next] \notin Failures
  <2>1. next \in 1 .. Len(Blocks)
    BY <1>2, Bounds DEF TypeOK
  <2>2. QED
    BY <2>1, Bounds DEF DeviceOK, Failures
<1>5. /\ r.t \in Transport /\ r.t.mode \in {t.mode, OneRequest}
      /\ r.t.faults <= t.faults
      /\ r.t.mode = OneRequest => r.t.sock = "closed"
      /\ r.t.faults = t.faults => r.reply = replies[next]
  BY <1>4, RetryEnds DEF TypeOK
<1>6. /\ r.t.mode \in {Session, OneRequest} /\ r.t.mode # None
      /\ t.mode \in {Session, OneRequest}
  BY <1>5, Bounds DEF Transport, TypeOK
<1>7. /\ t' = r.t /\ disturbed' \in BOOLEAN
      /\ ~disturbed' => ~disturbed /\ r.t.faults = t.faults
  BY <1>1, <1>5, Undisturbed DEF TypeOK
<1>8. got \subseteq ToSet(block) /\ ToSet(block) \subseteq Keys
  BY <1>4, BlockKeys DEF Decoded
<1>9. /\ data' = [k \in Keys |-> IF k \in got THEN r.t.mode ELSE data[k]]
      /\ errors' = errors \cup (ToSet(block) \ got)
  BY <1>1 DEF Failed
<1>10. r.reply = "ok" => got = ToSet(block)
  BY DEF Decoded
<1> HIDE DEF got, block
<1>11. /\ \A k \in Keys : Seen(k) => Seen(k)'
       /\ \A k \in ToSet(block) : Seen(k)'
  BY <1>6, <1>8, <1>9 DEF Seen
<1>12. TypeOK'
  <2>1. next' \in Nat \ {0} /\ next' <= Len(Blocks) + 1
    BY <1>2, <1>4, Bounds
  <2>2. data' \in [Keys -> {Session, OneRequest, None}]
    BY <1>6, <1>9 DEF TypeOK
  <2>3. errors' \in SUBSET Keys
    BY <1>8, <1>9 DEF TypeOK
  <2>4. t' \in Transport
    BY <1>5, <1>7
  <2>5. QED
    BY <1>2, <1>3, <1>7, <2>1, <2>2, <2>3, <2>4 DEF TypeOK
<1>13. DeviceOK' /\ ConnectionOK'
  BY <1>2, <1>3, <1>5, <1>7 DEF DeviceOK, ConnectionOK, ConnectionLeft
<1>14. ModesOK'
  <2>1. t'.mode = r.t.mode /\ t'.mode \in {t.mode, OneRequest}
    BY <1>5, <1>7
  <2>2. InOneMode /\ t'.mode = t.mode => InOneMode'
    BY <1>9, <2>1 DEF InOneMode
  <2>3. stage = "blocks" => (before' # t'.mode => t'.mode = OneRequest)
    BY <1>2, <1>3, <2>1 DEF ModesOK
  <2>4. stage = "blocks" /\ before' = t'.mode => InOneMode'
    BY <1>2, <2>1, <2>2 DEF ModesOK
  <2>5. stage \in {"blocks_redone", "blocks_last"} =>
          t'.mode = OneRequest /\ InOneMode'
    BY <2>1, <2>2 DEF ModesOK
  <2>6. QED
    BY <1>2, <1>3, <2>3, <2>4, <2>5 DEF ModesOK, SingleReads, BlockReads
<1>15. SeenOK'
  <2>1. ASSUME NEW i \in 1 .. next' - 1, NEW k \in ToSet(Blocks[i])
        PROVE  Seen(k)'
    <3>1. CASE i = next
      BY <1>11, <2>1, <3>1 DEF block
    <3>2. CASE i # next
      <4>1. i \in 1 .. next - 1 /\ i \in 1 .. Len(Blocks)
        BY <1>2, <1>4, <2>1, <3>2, Bounds
      <4>2. k \in Keys /\ Seen(k)
        BY <1>2, <2>1, <4>1, BlockKeys DEF SeenOK
      <4>3. QED
        BY <1>11, <4>2
    <3>3. QED
      BY <3>1, <3>2
  <2>2. stage' # "close" /\ outcome' # "result" /\ stage' \notin SingleReads
    BY <1>2, <1>3
  <2>3. (stage \in BlockReads =>
           \A i \in 1 .. next - 1 : \A k \in ToSet(Blocks[i]) : Seen(k))'
    BY <2>1
  <2>4. QED
    BY <2>2, <2>3 DEF SeenOK
<1>16. AnswersOK'
  <2> SUFFICES ASSUME ~disturbed',
                      \A i \in DOMAIN replies : replies[i] = "ok"
               PROVE  errors' = {}
    BY <1>2, <1>3 DEF AnswersOK
  <2>1. ~disturbed /\ r.reply = replies[next]
    BY <1>5, <1>7
  <2>2. replies[next] = "ok"
    BY <1>4 DEF DeviceOK
  <2>3. errors = {}
    BY <2>1 DEF AnswersOK
  <2>4. QED
    BY <1>2, <1>9, <1>10, <2>1, <2>2, <2>3
<1>17. FailuresOK'
  BY <1>2, <1>3 DEF FailuresOK
<1>18. QED
  BY <1>12, <1>13, <1>14, <1>15, <1>16, <1>17

LEMMA BlocksDoneStep == PollerInv /\ BlocksDone => PollerInv'
<1> SUFFICES ASSUME PollerInv, BlocksDone PROVE PollerInv'
  OBVIOUS
<1> USE DEF PollerInv
<1>1. /\ stage \in BlockReads /\ next > Len(Blocks)
      /\ t' = t /\ keep' = keep /\ answers' = answers /\ replies' = replies
      /\ keepOpen' = keepOpen /\ outcome' = outcome /\ disturbed' = disturbed
  BY DEF BlocksDone, device
<1>2. stage \notin SingleReads /\ outcome = "none"
  BY <1>1 DEF BlockReads, SingleReads, ConnectionOK
<1>3. \A k \in Keys : Seen(k)
  <2> SUFFICES ASSUME NEW k \in Keys PROVE Seen(k)
    OBVIOUS
  <2>1. PICK i \in 1 .. Len(Blocks) : k \in ToSet(Blocks[i])
    BY KeysInBlocks
  <2>2. i \in 1 .. next - 1
    BY <1>1, Bounds DEF TypeOK
  <2>3. QED
    BY <1>1, <2>1, <2>2 DEF SeenOK
<1>4. next' = 1 /\ failures' = 0
  BY DEF BlocksDone, Go
<1>5. next' \in Nat \ {0} /\ next' <= Len(Blocks) + 1
      /\ next' <= Len(Registers) + 1 /\ failures' \in 0 .. AbortAfter
  BY <1>4, Bounds, RegisterKeys
<1>6. 1 .. next' - 1 = {} /\ ~(failures' >= AbortAfter)
  BY <1>4, Bounds
<1>7. DeviceOK' /\ FailuresOK'
  <2>1. next' - failures' .. next' - 1 = {}
    BY <1>4
  <2>2. QED
    BY <1>1, <2>1 DEF DeviceOK, FailuresOK
<1>8. NoData \in [Keys -> {Session, OneRequest, None}]
      /\ \A k \in Keys : NoData[k] = None
  BY DEF NoData
<1>9. CASE /\ PromotedDuringBlocks /\ stage' = "blocks_redone"
           /\ data' = NoData /\ errors' = {} /\ before' = before
  <2>1. TypeOK'
    BY <1>1, <1>5, <1>8, <1>9 DEF TypeOK, BlockReads, SingleReads
  <2>2. ConnectionOK'
    BY <1>1, <1>2, <1>9 DEF ConnectionOK, ConnectionLeft
  <2>3. ModesOK'
    <3>1. t'.mode = OneRequest
      BY <1>1, <1>9 DEF ModesOK, PromotedDuringBlocks
    <3>2. InOneMode'
      BY <1>8, <1>9 DEF InOneMode
    <3>3. QED
      BY <1>1, <1>2, <1>9, <3>1, <3>2 DEF ModesOK
  <2>4. SeenOK'
    BY <1>1, <1>2, <1>6, <1>9 DEF SeenOK, SingleReads
  <2>5. AnswersOK'
    BY <1>1, <1>2, <1>4, <1>9 DEF AnswersOK, SingleReads
  <2>6. QED
    BY <1>7, <2>1, <2>2, <2>3, <2>4, <2>5
<1>10. CASE /\ ~PromotedDuringBlocks /\ errors = {} /\ stage' = "close"
            /\ data' = data /\ errors' = errors /\ before' = before
  <2>1. TypeOK'
    BY <1>1, <1>5, <1>10 DEF TypeOK, BlockReads, SingleReads
  <2>2. ConnectionOK'
    BY <1>1, <1>2, <1>10 DEF ConnectionOK, ConnectionLeft
  <2>3. ModesOK'
    <3>1. InOneMode
      BY <1>1, <1>10 DEF ModesOK, PromotedDuringBlocks, BlockReads
    <3>2. InOneMode'
      BY <1>1, <1>10, <3>1 DEF InOneMode
    <3>3. QED
      BY <1>1, <1>2, <1>10, <3>2 DEF ModesOK
  <2>4. Missing' = {}
    BY <1>3, <1>10 DEF Missing, Seen
  <2>5. SeenOK'
    BY <1>10, <2>4 DEF SeenOK, BlockReads, SingleReads
  <2>6. AnswersOK'
    BY <1>4, <1>10, <2>4 DEF AnswersOK, SingleReads
  <2>7. QED
    BY <1>7, <2>1, <2>2, <2>3, <2>5, <2>6
<1>11. CASE /\ ~PromotedDuringBlocks /\ errors # {}
            /\ stage = "blocks_last" /\ stage' = "registers_last"
            /\ data' = data /\ errors' = errors /\ before' = before
  <2>1. TypeOK'
    BY <1>1, <1>5, <1>11 DEF TypeOK, BlockReads, SingleReads
  <2>2. ConnectionOK'
    BY <1>1, <1>2, <1>11 DEF ConnectionOK, ConnectionLeft
  <2>3. ModesOK'
    BY <1>1, <1>2, <1>11 DEF ModesOK, InOneMode
  <2>4. SeenOK'
    BY <1>1, <1>2, <1>6, <1>11 DEF SeenOK, BlockReads
  <2>5. AnswersOK'
    <3>1. ~(~disturbed /\ \A i \in DOMAIN replies : replies[i] = "ok")
      BY <1>11 DEF AnswersOK
    <3>2. \A j \in next' - failures' .. next' - 1 : FALSE
      BY <1>4
    <3>3. failures' <= next' - 1
      BY <1>4
    <3>4. QED
      BY <1>1, <1>2, <1>6, <1>11, <3>1, <3>2, <3>3 DEF AnswersOK
  <2>6. QED
    BY <1>7, <2>1, <2>2, <2>3, <2>4, <2>5
<1>12. CASE /\ ~PromotedDuringBlocks /\ errors # {}
            /\ stage # "blocks_last" /\ stage' = "registers"
            /\ data' = data /\ errors' = {} /\ before' = t.mode
  <2>1. TypeOK'
    <3>1. before' \in {Session, OneRequest}
      BY <1>12 DEF TypeOK, Transport
    <3>2. QED
      BY <1>1, <1>5, <1>12, <3>1 DEF TypeOK, BlockReads, SingleReads
  <2>2. ConnectionOK'
    BY <1>1, <1>2, <1>12 DEF ConnectionOK, ConnectionLeft
  <2>3. ModesOK'
    <3>1. InOneMode
      BY <1>1, <1>12 DEF ModesOK, PromotedDuringBlocks, BlockReads
    <3>2. InOneMode'
      BY <1>1, <1>12, <3>1 DEF InOneMode
    <3>3. QED
      BY <1>1, <1>2, <1>12, <3>2 DEF ModesOK
  <2>4. SeenOK'
    BY <1>1, <1>2, <1>6, <1>12 DEF SeenOK, BlockReads
  <2>5. AnswersOK'
    <3>1. ~(~disturbed /\ \A i \in DOMAIN replies : replies[i] = "ok")
      BY <1>12 DEF AnswersOK
    <3>2. \A j \in next' - failures' .. next' - 1 : FALSE
      BY <1>4
    <3>3. failures' <= next' - 1
      BY <1>4
    <3>4. QED
      BY <1>1, <1>2, <1>6, <1>12, <3>1, <3>2, <3>3 DEF AnswersOK
  <2>6. QED
    BY <1>7, <2>1, <2>2, <2>3, <2>4, <2>5
<1>13. QED
  BY <1>9, <1>10, <1>11, <1>12 DEF BlocksDone, Go, Redo

LEMMA ReadRegisterStep == PollerInv /\ ReadRegister => PollerInv'
<1> SUFFICES ASSUME PollerInv, ReadRegister PROVE PollerInv'
  OBVIOUS
<1> USE DEF PollerInv
<1> DEFINE key == Registers[next]
           answer == answers[key]
<1>1. PICK r \in ReadsWithReconnect(t, answer) :
        /\ Leaves(r.t)
        /\ failures' = Count(r.reply \notin {"ok", "short"})
        /\ data' = IF r.reply = "ok" THEN [data EXCEPT ![key] = r.t.mode]
                   ELSE data
        /\ errors' = IF r.reply \in {"ok", "short"} THEN errors
                     ELSE errors \cup {key}
  BY DEF ReadRegister
<1>2. /\ stage \in SingleReads /\ next <= Len(Registers)
      /\ failures < AbortAfter
      /\ keep' = keep /\ answers' = answers /\ replies' = replies
      /\ next' = next + 1 /\ stage' = stage /\ keepOpen' = keepOpen
      /\ before' = before /\ outcome' = outcome
  BY DEF ReadRegister, device
<1>3. /\ stage # "idle" /\ stage # "connect" /\ stage # "close"
      /\ stage \notin BlockReads /\ outcome = "none"
  BY <1>2 DEF BlockReads, SingleReads, ConnectionOK
<1>4. /\ next \in 1 .. Len(Registers) /\ next \in Nat /\ key \in Keys
      /\ failures \in Nat /\ failures + 1 <= AbortAfter
      /\ Len(Registers) \in Nat
  BY <1>2, Bounds, RegisterKeys DEF TypeOK
<1>5. answer \in {"ok", "short", "error"} /\ answer \notin Failures
  BY <1>4 DEF DeviceOK, Failures
<1>6. /\ r.t \in Transport /\ r.t.mode \in {t.mode, OneRequest}
      /\ r.t.faults <= t.faults
      /\ r.t.mode = OneRequest => r.t.sock = "closed"
      /\ r.t.faults = t.faults => r.reply = answer
      /\ r.reply \in {answer, "error"} \cup Failures
  <2> HIDE DEF answer
  <2>1. QED
    BY <1>5, RetryEnds DEF TypeOK
<1>7. /\ r.t.mode \in {Session, OneRequest} /\ r.t.mode # None
      /\ t.mode \in {Session, OneRequest}
  BY <1>6, Bounds DEF Transport, TypeOK
<1>8. /\ t' = r.t /\ disturbed' \in BOOLEAN
      /\ ~disturbed' => ~disturbed /\ r.t.faults = t.faults
  BY <1>1, <1>6, Undisturbed DEF TypeOK
<1>9. /\ r.reply = answer => r.reply = answers[key]
      /\ r.reply = "short" => key \in Mute
      /\ Mute' = Mute
  BY <1>2, <1>4, <1>6 DEF Failures, Mute
<1> HIDE DEF key, answer
<1>10. \/ /\ r.reply = "ok" /\ failures' = 0 /\ errors' = errors
          /\ data' = [data EXCEPT ![key] = r.t.mode]
       \/ /\ r.reply = "short" /\ failures' = 0 /\ errors' = errors
          /\ data' = data
       \/ /\ r.reply \notin {"ok", "short"} /\ failures' = failures + 1
          /\ errors' = errors \cup {key} /\ data' = data
  BY <1>1 DEF Count
<1>11. /\ \A k \in Keys : Asked(k) => Asked(k)'
       /\ data'[key] # None \/ key \in errors' \/ key \in Mute
       /\ \A k \in Keys : data[k] # None => data'[k] # None
  <2>1. /\ data \in [Keys -> {Session, OneRequest, None}]
        /\ data' = [data EXCEPT ![key] = r.t.mode] \/ data' = data
        /\ errors \subseteq errors'
    BY <1>10 DEF TypeOK
  <2>2. /\ data'[key] = r.t.mode \/ data' = data
        /\ \A k \in Keys : data'[k] \in {data[k], r.t.mode}
    BY <1>4, <2>1
  <2>3. \A k \in Keys : data[k] # None => data'[k] # None
    BY <1>7, <2>2
  <2>4. data'[key] # None \/ key \in errors' \/ key \in Mute
    BY <1>4, <1>7, <1>9, <1>10, <2>1
  <2>5. QED
    BY <1>9, <2>1, <2>3, <2>4 DEF Asked, Seen
<1>12. TypeOK'
  <2>1. next' \in Nat \ {0} /\ next' <= Len(Registers) + 1
    BY <1>2, <1>4
  <2>2. data' \in [Keys -> {Session, OneRequest, None}]
    BY <1>4, <1>7, <1>10 DEF TypeOK
  <2>3. errors' \in SUBSET Keys
    BY <1>4, <1>10 DEF TypeOK
  <2>4. t' \in Transport
    BY <1>6, <1>8
  <2>5. failures' \in 0 .. AbortAfter
    BY <1>4, <1>10, Bounds
  <2>6. QED
    BY <1>2, <1>3, <1>8, <2>1, <2>2, <2>3, <2>4, <2>5 DEF TypeOK
<1>13. DeviceOK' /\ ConnectionOK'
  BY <1>2, <1>3, <1>6, <1>8 DEF DeviceOK, ConnectionOK, ConnectionLeft
<1>14. ModesOK'
  <2>1. t'.mode = r.t.mode /\ t'.mode \in {t.mode, OneRequest}
    BY <1>6, <1>8
  <2>2. InOneMode /\ t'.mode = t.mode => InOneMode'
    BY <1>4, <1>10, <2>1 DEF InOneMode, TypeOK
  <2>3. stage = "registers" => (before' # t'.mode => t'.mode = OneRequest)
    BY <1>2, <1>3, <2>1 DEF ModesOK
  <2>4. stage = "registers" /\ before' = t'.mode => InOneMode'
    BY <1>2, <2>1, <2>2 DEF ModesOK
  <2>5. stage = "registers_last" => t'.mode = OneRequest /\ InOneMode'
    BY <2>1, <2>2 DEF ModesOK
  <2>6. QED
    BY <1>2, <1>3, <2>3, <2>4, <2>5 DEF ModesOK, SingleReads, BlockReads
<1>15. SeenOK'
  <2>1. ASSUME NEW j \in 1 .. next' - 1
        PROVE  Asked(Registers[j])'
    <3>1. CASE j = next
      BY <1>9, <1>11, <3>1 DEF key, Asked, Seen
    <3>2. CASE j # next
      <4>1. j \in 1 .. next - 1 /\ j \in 1 .. Len(Registers)
        BY <1>2, <1>4, <2>1, <3>2
      <4>2. Registers[j] \in Keys /\ Asked(Registers[j])
        BY <1>2, <4>1, RegisterKeys DEF SeenOK
      <4>3. QED
        BY <1>11, <4>2
    <3>3. QED
      BY <3>1, <3>2
  <2>2. stage' # "close" /\ outcome' # "result" /\ stage' \notin BlockReads
    BY <1>2, <1>3
  <2>3. (stage \in SingleReads => \A j \in 1 .. next - 1 : Asked(Registers[j]))'
    BY <2>1
  <2>4. QED
    BY <2>2, <2>3 DEF SeenOK
<1>16. AnswersOK'
  <2> SUFFICES
        ASSUME ~disturbed'
        PROVE  /\ ~\A i \in DOMAIN replies : replies[i] = "ok"
               /\ \A j \in 1 .. next' - 1 :
                    answers[Registers[j]] = "ok" => data'[Registers[j]] # None
               /\ failures' <= next' - 1
               /\ \A j \in next' - failures' .. next' - 1 :
                    answers[Registers[j]] = "error"
    BY <1>2, <1>3 DEF AnswersOK
  <2>1. ~disturbed /\ r.reply = answers[key]
    BY <1>6, <1>8, <1>9
  <2>2. /\ ~\A i \in DOMAIN replies : replies[i] = "ok"
        /\ \A j \in 1 .. next - 1 :
             answers[Registers[j]] = "ok" => data[Registers[j]] # None
        /\ failures <= next - 1
        /\ \A j \in next - failures .. next - 1 :
             answers[Registers[j]] = "error"
    BY <1>2, <2>1 DEF AnswersOK
  <2>3. ASSUME NEW j \in 1 .. next' - 1, answers[Registers[j]] = "ok"
        PROVE  data'[Registers[j]] # None
    <3>1. CASE j = next
      <4>1. data' = [data EXCEPT ![key] = r.t.mode] /\ Registers[j] = key
        BY <1>10, <2>1, <2>3, <3>1 DEF key
      <4>2. QED
        BY <1>4, <1>7, <4>1 DEF TypeOK
    <3>2. CASE j # next
      <4>1. j \in 1 .. next - 1 /\ j \in 1 .. Len(Registers)
        BY <1>2, <1>4, <2>3, <3>2
      <4>2. Registers[j] \in Keys /\ data[Registers[j]] # None
        BY <2>2, <2>3, <4>1, RegisterKeys
      <4>3. QED
        BY <1>11, <4>2
    <3>3. QED
      BY <3>1, <3>2
  <2>4. failures' <= next' - 1
    BY <1>2, <1>4, <1>10, <2>2
  <2>5. ASSUME NEW j \in next' - failures' .. next' - 1
        PROVE  answers[Registers[j]] = "error"
    <3>1. failures' = failures + 1 /\ answers[key] = "error"
      <4>1. failures' # 0
        BY <1>2, <1>4, <2>5
      <4>2. QED
        BY <1>4, <1>10, <2>1, <4>1 DEF DeviceOK
    <3>2. j = next \/ j \in next - failures .. next - 1
      BY <1>2, <1>4, <2>5, <3>1
    <3>3. QED
      BY <2>2, <3>1, <3>2 DEF key
  <2>6. QED
    BY <2>2, <2>3, <2>4, <2>5
<1>17. FailuresOK'
  <2> SUFFICES ASSUME NEW j \in next' - failures' .. next' - 1
               PROVE  j \in 1 .. Len(Registers) /\ Registers[j] \in errors'
    BY DEF FailuresOK
  <2>1. failures' = failures + 1 /\ errors' = errors \cup {key}
    BY <1>2, <1>4, <1>10
  <2>2. j = next \/ j \in next - failures .. next - 1
    BY <1>2, <1>4, <2>1
  <2>3. QED
    BY <1>2, <1>4, <2>1, <2>2 DEF FailuresOK, key
<1>18. QED
  BY <1>12, <1>13, <1>14, <1>15, <1>16, <1>17

LEMMA RegistersDoneStep == PollerInv /\ RegistersDone => PollerInv'
<1> SUFFICES ASSUME PollerInv, RegistersDone PROVE PollerInv'
  OBVIOUS
<1> USE DEF PollerInv
<1>1. /\ stage \in SingleReads
      /\ next > Len(Registers) \/ failures >= AbortAfter
      /\ t' = t /\ keep' = keep /\ answers' = answers /\ replies' = replies
      /\ keepOpen' = keepOpen /\ outcome' = outcome /\ before' = before
      /\ disturbed' = disturbed
  BY DEF RegistersDone, device
<1>2. stage \in SingleReads /\ stage \notin BlockReads /\ outcome = "none"
  BY DEF BlockReads, SingleReads, ConnectionOK, RegistersDone
<1>3. DeviceOK'
  BY <1>1 DEF DeviceOK
<1>4. CASE /\ stage = "registers" /\ t.mode # before /\ stage' = "blocks_last"
           /\ next' = 1 /\ failures' = 0 /\ data' = NoData /\ errors' = {}
  <2>1. TypeOK'
    <3>1. data' \in [Keys -> {Session, OneRequest, None}]
      BY <1>4 DEF NoData
    <3>2. /\ next' \in Nat \ {0} /\ next' <= Len(Blocks) + 1
          /\ failures' \in 0 .. AbortAfter
      BY <1>4, Bounds
    <3>3. QED
      BY <1>1, <1>4, <3>1, <3>2 DEF TypeOK, BlockReads, SingleReads
  <2>2. ConnectionOK'
    BY <1>1, <1>2, <1>4 DEF ConnectionOK, ConnectionLeft
  <2>3. ModesOK'
    <3>1. t'.mode = OneRequest
      BY <1>1, <1>4 DEF ModesOK
    <3>2. InOneMode'
      BY <1>4 DEF InOneMode, NoData
    <3>3. QED
      BY <1>1, <1>2, <1>4, <3>1, <3>2 DEF ModesOK
  <2>4. SeenOK'
    BY <1>1, <1>2, <1>4 DEF SeenOK, SingleReads
  <2>5. AnswersOK'
    BY <1>1, <1>2, <1>4 DEF AnswersOK, SingleReads
  <2>6. FailuresOK'
    BY <1>1, <1>2, <1>4 DEF FailuresOK, SingleReads
  <2>7. QED
    BY <1>3, <2>1, <2>2, <2>3, <2>4, <2>5, <2>6
<1>5. CASE /\ ~(stage = "registers" /\ t.mode # before) /\ stage' = "close"
           /\ next' = next /\ failures' = failures
           /\ data' = data /\ errors' = errors
  <2>1. TypeOK'
    BY <1>1, <1>5 DEF TypeOK, BlockReads, SingleReads
  <2>2. ConnectionOK'
    BY <1>1, <1>2, <1>5 DEF ConnectionOK, ConnectionLeft
  <2>3. ModesOK'
    <3>1. InOneMode
      BY <1>2, <1>5 DEF ModesOK, SingleReads
    <3>2. InOneMode'
      BY <1>1, <1>5, <3>1 DEF InOneMode
    <3>3. QED
      BY <1>1, <1>2, <1>5, <3>2 DEF ModesOK
  <2>4. next > Len(Registers) => 1 .. Len(Registers) \subseteq 1 .. next - 1
    BY RegisterKeys DEF TypeOK
  <2>5. SeenOK'
    <3>1. CASE failures >= AbortAfter
      BY <1>2, <1>5, <3>1 DEF SeenOK, BlockReads, SingleReads
    <3>2. CASE next > Len(Registers)
      <4>1. \A k \in Keys : Asked(k)
        BY <1>2, <2>4, <3>2, RegisterKeys DEF SeenOK
      <4>2. Missing' \subseteq errors' \cup Mute'
        BY <1>1, <1>5, <4>1 DEF Missing, Mute, Asked, Seen
      <4>3. QED
        BY <1>2, <1>5, <4>2 DEF SeenOK, BlockReads, SingleReads
    <3>3. QED
      BY <1>1, <3>1, <3>2
  <2>6. ASSUME ~disturbed
        PROVE  Served \cap Missing = {} \/ RejectedRun
    <3>1. /\ \A j \in 1 .. next - 1 :
               answers[Registers[j]] = "ok" => data[Registers[j]] # None
          /\ failures <= next - 1
          /\ \A j \in next - failures .. next - 1 :
               answers[Registers[j]] = "error"
      BY <1>2, <2>6 DEF AnswersOK
    <3>2. CASE next > Len(Registers)
      BY <2>4, <3>1, <3>2, RegisterKeys DEF Missing, Served
    <3>3. CASE failures >= AbortAfter
      <4>1. /\ failures = AbortAfter /\ next \in Nat /\ AbortAfter \in Nat
            /\ next <= Len(Registers) + 1 /\ Len(Registers) \in Nat
        BY <1>2, <3>3, Bounds, RegisterKeys DEF TypeOK
      <4> DEFINE i == next - AbortAfter
      <4>2. i \in 1 .. Len(Registers) + 1 - AbortAfter
        BY <3>1, <4>1
      <4>3. i + AbortAfter - 1 = next - 1 /\ i = next - failures
        BY <4>1
      <4>4. \A j \in i .. i + AbortAfter - 1 : answers[Registers[j]] = "error"
        BY <3>1, <4>3
      <4> HIDE DEF i
      <4>5. QED
        BY <4>2, <4>4 DEF RejectedRun
    <3>4. QED
      BY <1>1, <3>2, <3>3
  <2>7. AnswersOK'
    <3>1. /\ Missing' = Missing /\ RejectedRun' = RejectedRun
          /\ Served' = Served
      BY <1>1, <1>5 DEF Missing, RejectedRun, Served
    <3>2. ~(~disturbed /\ \A i \in DOMAIN replies : replies[i] = "ok")
      BY <1>2 DEF AnswersOK
    <3>3. QED
      BY <1>1, <1>5, <2>6, <3>1, <3>2 DEF AnswersOK, SingleReads
  <2>8. FailuresOK'
    BY <1>2, <1>5 DEF FailuresOK
  <2>9. QED
    BY <1>3, <2>1, <2>2, <2>3, <2>5, <2>7, <2>8
<1>6. QED
  BY <1>4, <1>5 DEF RegistersDone, Go, Redo

LEMMA ClosePollStep == PollerInv /\ ClosePoll => PollerInv'
<1> SUFFICES ASSUME PollerInv, ClosePoll PROVE PollerInv'
  OBVIOUS
<1> USE DEF PollerInv
<1>1. /\ stage = "close" /\ stage' = "idle" /\ outcome' = "result"
      /\ t' = IF keepOpen THEN t ELSE [Close(t) EXCEPT !.lastIo = "never"]
      /\ keep' = keep /\ answers' = answers /\ replies' = replies
      /\ next' = next /\ failures' = failures /\ keepOpen' = keepOpen
      /\ before' = before /\ data' = data /\ errors' = errors
      /\ disturbed' = disturbed
  BY DEF ClosePoll, device
<1>2. /\ t' \in Transport /\ t'.mode = t.mode
      /\ (keepOpen /\ t'.sock = t.sock) \/ t'.sock = "closed"
  <2>1. t \in Transport
    BY DEF TypeOK
  <2>2. QED
    BY <1>1, <2>1 DEF Close, Transport
<1>3. TypeOK'
  BY <1>1, <1>2 DEF TypeOK, BlockReads, SingleReads
<1>4. DeviceOK'
  BY <1>1 DEF DeviceOK
<1>5. ConnectionOK'
  <2>1. t'.mode \in {Session, OneRequest}
    BY <1>2 DEF Transport
  <2>2. t'.sock # "closed" => keepOpen' /\ t'.mode = Session
    BY <1>1, <1>2, <2>1 DEF ConnectionOK
  <2>3. QED
    BY <1>1, <2>2 DEF ConnectionOK, ConnectionLeft
<1>6. ModesOK'
  BY <1>1, <1>2 DEF ModesOK, InOneMode
<1>7. SeenOK'
  BY <1>1 DEF SeenOK, Missing, Mute, BlockReads, SingleReads
<1>8. AnswersOK'
  BY <1>1, <1>2 DEF AnswersOK, Missing, RejectedRun, Served, SingleReads
<1>9. FailuresOK'
  BY <1>1 DEF FailuresOK
<1>10. QED
  BY <1>3, <1>4, <1>5, <1>6, <1>7, <1>8, <1>9

LEMMA PollerStep == PollerInv /\ [Next]_vars => PollerInv'
<1> SUFFICES ASSUME PollerInv, [Next]_vars PROVE PollerInv'
  OBVIOUS
<1>1. t \in Transport /\ keep \in BOOLEAN
  BY DEF PollerInv, TypeOK
<1>2. CASE StartPoll
  BY <1>2, StartPollStep
<1>3. CASE PollStep
  BY <1>3, ConnectStep, ReadBlockStep, BlocksDoneStep, ReadRegisterStep,
     RegistersDoneStep, ClosePollStep DEF PollStep
<1>4. CASE Reconfigure
  BY <1>1, <1>4, OutsideStep DEF Reconfigure
<1>5. CASE Idle
  <2>1. t' \in Transport /\ t'.mode = t.mode /\ t'.sock = t.sock
    BY <1>1, <1>5 DEF Idle, Transport
  <2>2. QED
    BY <1>1, <1>5, <2>1, OutsideStep DEF Idle
<1>6. CASE Drop
  <2>1. /\ t' \in Transport /\ t'.mode = t.mode
        /\ t'.sock # "closed" /\ t.sock # "closed"
    BY <1>1, <1>6 DEF Drop, Transport
  <2>2. QED
    BY <1>1, <1>6, <2>1, OutsideStep DEF Drop
<1>7. CASE UNCHANGED vars
  BY <1>1, <1>7, OutsideStep DEF vars
<1>8. QED
  BY <1>2, <1>3, <1>4, <1>5, <1>6, <1>7 DEF Next

LEMMA PollerInvariant == Spec => []PollerInv
BY PollerInit, PollerStep, PTL DEF Spec

-----------------------------------------------------------------------------
(* The steps that a poll has left at most: its reads, and one more to end  *)
(* each pass.  A pass over the registers is repeated, after one more over  *)
(* the blocks, only if it began in session mode.                           *)
BothPasses == Len(Blocks) + Len(Registers)

StepsFrom(at, n, mode) ==
  CASE at = "idle" -> 0
    [] at = "connect" -> 2 * BothPasses + 6
    [] at = "blocks" -> 2 * BothPasses + 6 - n
    [] at = "registers" /\ mode = Session ->
         BothPasses + Len(Registers) + 5 - n
    [] at = "registers" /\ mode # Session -> Len(Registers) + 3 - n
    [] at \in {"blocks_redone", "blocks_last"} -> BothPasses + 4 - n
    [] at = "registers_last" -> Len(Registers) + 3 - n
    [] at = "close" -> 1

StepsLeft == StepsFrom(stage, next, before)

PollAdvances ==
  [][ stage # "idle" =>
        StepsLeft' < StepsLeft \/ UNCHANGED <<t, device, poll, outcome>> ]_vars

LEMMA StepsAt ==
  ASSUME NEW n \in Nat, NEW mode
  PROVE  /\ StepsFrom("idle", n, mode) = 0
         /\ StepsFrom("connect", n, mode) = 2 * BothPasses + 6
         /\ StepsFrom("blocks", n, mode) = 2 * BothPasses + 6 - n
         /\ mode = Session =>
              StepsFrom("registers", n, mode) =
                BothPasses + Len(Registers) + 5 - n
         /\ mode # Session =>
              StepsFrom("registers", n, mode) = Len(Registers) + 3 - n
         /\ StepsFrom("blocks_redone", n, mode) = BothPasses + 4 - n
         /\ StepsFrom("blocks_last", n, mode) = BothPasses + 4 - n
         /\ StepsFrom("registers_last", n, mode) = Len(Registers) + 3 - n
         /\ StepsFrom("close", n, mode) = 1
BY DEF StepsFrom

LEMMA ReadsCounted ==
  BothPasses \in Nat /\ BothPasses = Len(Blocks) + Len(Registers)
BY Bounds DEF BothPasses

LEMMA StepsBounded ==
  PollerInv => StepsLeft \in 0 .. 2 * BothPasses + 6
BY ReadsCounted, StepsAt, Bounds DEF PollerInv, TypeOK, StepsLeft,
   BlockReads, SingleReads

LEMMA ReadsAdvance ==
  PollerInv /\ (ReadBlock \/ ReadRegister) => StepsLeft' < StepsLeft
<1> SUFFICES ASSUME PollerInv, ReadBlock \/ ReadRegister
             PROVE  StepsLeft' < StepsLeft
  OBVIOUS
<1>1. /\ stage \in BlockReads \cup SingleReads
      /\ stage' = stage /\ before' = before /\ next' = next + 1
  BY DEF ReadBlock, ReadRegister
<1>2. next \in Nat
  BY DEF PollerInv, TypeOK
<1>3. QED
  BY <1>1, <1>2, ReadsCounted, StepsAt, Bounds DEF StepsLeft,
     BlockReads, SingleReads

LEMMA BlocksDoneAdvances == PollerInv /\ BlocksDone => StepsLeft' < StepsLeft
<1> SUFFICES ASSUME PollerInv, BlocksDone PROVE StepsLeft' < StepsLeft
  OBVIOUS
<1>1. /\ stage \in BlockReads /\ next \in Nat /\ next <= Len(Blocks) + 1
      /\ Len(Blocks) \in Nat /\ Len(Registers) \in Nat
  BY Bounds DEF BlocksDone, PollerInv, TypeOK
<1>2. next' = 1
  BY DEF BlocksDone, Go
<1>3. CASE PromotedDuringBlocks
  <2>1. stage = "blocks" /\ stage' = "blocks_redone"
    BY <1>3 DEF BlocksDone, PromotedDuringBlocks, Go
  <2>2. QED
    BY <1>1, <1>2, <2>1, ReadsCounted, StepsAt DEF StepsLeft
<1>4. CASE ~PromotedDuringBlocks /\ errors = {}
  <2>1. stage' = "close"
    BY <1>4 DEF BlocksDone, Go
  <2>2. StepsLeft' = 1
    BY <1>2, <2>1, StepsAt DEF StepsLeft
  <2>3. StepsLeft \in {2 * BothPasses + 6 - next, BothPasses + 4 - next}
    BY <1>1, StepsAt DEF StepsLeft, BlockReads
  <2>4. QED
    BY <1>1, <2>2, <2>3, ReadsCounted
<1>5. CASE /\ ~PromotedDuringBlocks /\ errors # {}
           /\ stage = "blocks_last"
  <2>1. stage' = "registers_last"
    BY <1>5 DEF BlocksDone, Go
  <2>2. QED
    BY <1>1, <1>2, <1>5, <2>1, ReadsCounted, StepsAt DEF StepsLeft
<1>6. CASE /\ ~PromotedDuringBlocks /\ errors # {}
           /\ stage # "blocks_last"
  <2>1. stage' = "registers" /\ before' = t.mode
    BY <1>6 DEF BlocksDone, Go
  <2>2. stage = "blocks_redone" => before' # Session
    BY <2>1 DEF PollerInv, ModesOK, Session, OneRequest
  <2>3. stage \in {"blocks", "blocks_redone"}
    BY <1>1, <1>6 DEF BlockReads
  <2>4. QED
    BY <1>1, <1>2, <2>1, <2>2, <2>3, ReadsCounted, StepsAt
       DEF StepsLeft
<1>7. QED
  BY <1>3, <1>4, <1>5, <1>6

LEMMA RegistersDoneAdvances ==
  PollerInv /\ RegistersDone => StepsLeft' < StepsLeft
<1> SUFFICES ASSUME PollerInv, RegistersDone PROVE StepsLeft' < StepsLeft
  OBVIOUS
<1>1. /\ stage \in SingleReads /\ next \in Nat /\ next <= Len(Registers) + 1
      /\ Len(Blocks) \in Nat /\ Len(Registers) \in Nat
  BY Bounds DEF RegistersDone, PollerInv, TypeOK
<1>2. CASE stage = "registers" /\ t.mode # before
  <2>1. stage' = "blocks_last" /\ next' = 1
    BY <1>2 DEF RegistersDone, Go
  <2>2. before = Session
    BY <1>2 DEF PollerInv, TypeOK, ModesOK
  <2>3. QED
    BY <1>1, <1>2, <2>1, <2>2, ReadsCounted, StepsAt DEF StepsLeft
<1>3. CASE ~(stage = "registers" /\ t.mode # before)
  <2>1. stage' = "close" /\ next' \in Nat
    BY <1>1, <1>3 DEF RegistersDone
  <2>2. StepsLeft' = 1
    BY <2>1, StepsAt DEF StepsLeft
  <2>3. \/ StepsLeft = BothPasses + Len(Registers) + 5 - next
        \/ StepsLeft = Len(Registers) + 3 - next
    BY <1>1, StepsAt DEF StepsLeft, SingleReads
  <2>4. QED
    BY <1>1, <2>2, <2>3, ReadsCounted
<1>4. QED
  BY <1>2, <1>3

LEMMA ConnectAdvances == PollerInv /\ Connect => StepsLeft' < StepsLeft
<1> SUFFICES ASSUME PollerInv, Connect PROVE StepsLeft' < StepsLeft
  OBVIOUS
<1>1. /\ stage = "connect" /\ stage' \in {"blocks", "idle"}
      /\ next = 1 /\ next' = 1
  BY DEF Connect, PollerInv, ModesOK
<1>2. QED
  BY <1>1, ReadsCounted, StepsAt DEF StepsLeft

LEMMA PollStepAdvances == PollerInv /\ PollStep => StepsLeft' < StepsLeft
<1> SUFFICES ASSUME PollerInv, PollStep PROVE StepsLeft' < StepsLeft
  OBVIOUS
<1>1. CASE ClosePoll
  <2>1. stage = "close" /\ stage' = "idle" /\ next \in Nat /\ next' \in Nat
    BY <1>1 DEF ClosePoll, PollerInv, TypeOK
  <2>2. QED
    BY <2>1, StepsAt DEF StepsLeft
<1>2. QED
  BY <1>1, ConnectAdvances, ReadsAdvance, BlocksDoneAdvances,
     RegistersDoneAdvances DEF PollStep

-----------------------------------------------------------------------------
(* The state of a poll is always well formed: the passes stay within the   *)
(* profile's lists, and the individual reads within AbortAfter failures.   *)
THEOREM PollerTypeCorrect == Spec => []TypeOK
BY PollerInvariant, PTL DEF PollerInv

(* A key of any profile is in the result or among its errors, unless the   *)
(* individual reads were given up or the device answers that key, read     *)
(* alone, with too few words.  No key is lost in any other way: not by a   *)
(* short block, a lost request, or a pass that a promotion makes void.     *)
THEOREM MissingKeysReported == Spec => []MissingReported
<1>1. PollerInv => MissingReported
  BY DEF PollerInv, SeenOK, MissingReported
<1>2. QED
  BY <1>1, PollerInvariant, PTL

(* Whatever connections fail and whenever the transport is promoted, a     *)
(* poll of any profile ends after at most two passes over its blocks and   *)
(* two over its registers: every step brings it closer to its end, and     *)
(* what happens elsewhere does not set it back.                            *)
THEOREM PollBounded ==
  Spec => /\ [](StepsLeft <= 2 * BothPasses + 6)
          /\ PollAdvances
<1>1. PollerInv => StepsLeft <= 2 * BothPasses + 6
  BY StepsBounded, Bounds
<1>2. ASSUME PollerInv, Next, stage # "idle"
      PROVE  \/ StepsLeft' < StepsLeft
             \/ UNCHANGED <<t, device, poll, outcome>>
  <2>1. CASE StartPoll \/ Idle \/ Drop
    BY <1>2, <2>1 DEF StartPoll, Idle, Drop
  <2>2. CASE Reconfigure
    BY <2>2 DEF Reconfigure
  <2>3. CASE PollStep
    BY <1>2, <2>3, PollStepAdvances
  <2>4. QED
    BY <1>2, <2>1, <2>2, <2>3 DEF Next
<1>3. PollerInv /\ [Next]_vars =>
        [ stage # "idle" =>
            \/ StepsLeft' < StepsLeft
            \/ UNCHANGED <<t, device, poll, outcome>> ]_vars
  BY <1>2
<1>4. QED
  BY <1>1, <1>3, PollerInvariant, PTL DEF Spec, PollAdvances

(* No poll, however it ends, leaves a connection that it was not to keep,  *)
(* nor any connection in one-request mode.                                 *)
THEOREM ConnectionLeftAsIntended == Spec => []ConnectionLeft
<1>1. PollerInv => ConnectionLeft
  BY DEF PollerInv, ConnectionOK
<1>2. QED
  BY <1>1, PollerInvariant, PTL

(* In a poll that the network does not disturb a device of any kind is     *)
(* read in full through its blocks, or one by one up to AbortAfter         *)
(* registers in a row that it rejects, whatever became of the kept         *)
(* connection and whatever happened to earlier polls.                      *)
THEOREM DeviceServedInFull == Spec => []DeviceServed
<1>1. PollerInv => DeviceServed
  BY DEF PollerInv, AnswersOK, DeviceServed
<1>2. QED
  BY <1>1, PollerInvariant, PTL

-----------------------------------------------------------------------------
(* ModbusPoller implements DevicePoll.                                     *)
LEMMA RegistersDistinct ==
  \A i, j \in 1 .. Len(Registers) : Registers[i] = Registers[j] => i = j
<1>1. IsInjective(Registers) /\ DOMAIN Registers = 1 .. Len(Registers)
  BY PollerAssumption
<1>2. QED
  BY <1>1 DEF IsInjective

(* The individual reads are given up over AbortAfter keys in errors.       *)
LEMMA GivenUpOverErrors ==
  ASSUME PollerInv, stage = "close", failures >= AbortAfter
  PROVE  Polls!AtLeast(AbortAfter, errors)
<1> DEFINE key == [n \in 1 .. AbortAfter |->
                     Registers[next - 1 - AbortAfter + n]]
<1>1. failures = AbortAfter /\ next \in Nat /\ AbortAfter \in Nat
  BY Bounds DEF PollerInv, TypeOK
<1>2. ASSUME NEW n \in 1 .. AbortAfter
      PROVE  /\ next - 1 - AbortAfter + n \in 1 .. Len(Registers)
             /\ key[n] \in errors
  <2>1. next - 1 - AbortAfter + n \in next - failures .. next - 1
    BY <1>1
  <2>2. QED
    BY <2>1 DEF PollerInv, FailuresOK
<1>3. key \in [1 .. AbortAfter -> errors]
  BY <1>2
<1>4. ASSUME NEW m \in 1 .. AbortAfter, NEW n \in 1 .. AbortAfter,
             key[m] = key[n]
      PROVE  m = n
  <2>1. next - 1 - AbortAfter + m = next - 1 - AbortAfter + n
    BY <1>2, <1>4, RegistersDistinct
  <2>2. QED
    BY <1>1, <2>1
<1> HIDE DEF key
<1>5. QED
  BY <1>3, <1>4 DEF Polls!AtLeast

(* What a complete result of an undisturbed poll has.                      *)
LEMMA GivenPresent ==
  ASSUME PollerInv, stage = "close", ~disturbed
  PROVE  Given \cap Missing = {}
BY DEF PollerInv, AnswersOK, Given

LEMMA InitRefined == Init => Polls!Init
<1> SUFFICES ASSUME Init PROVE Polls!Init
  OBVIOUS
<1>1. PICK m \in {Session, OneRequest}, c \in BOOLEAN :
        t = NewTransport(m, c, MaxFaults)
  BY DEF Init
<1>2. t.mode = m /\ t.constrained = c /\ t.sock = "closed"
  BY <1>1 DEF NewTransport
<1>3. {Given, Mute} \subseteq SUBSET Keys
  BY DEF Given, Mute, Served
<1>4. QED
  BY <1>2, <1>3 DEF Init, NoData, Polls!Init, Polls!NoResult

LEMMA StartRefined == PollerInv /\ StartPoll => Polls!Begin
<1> SUFFICES ASSUME PollerInv, StartPoll PROVE Polls!Begin
  OBVIOUS
<1>1. /\ stage = "idle" /\ stage' = "connect" /\ outcome' = "none"
      /\ disturbed' = FALSE /\ keepOpen' = EffectiveKeep
      /\ t' = t /\ answers' = answers /\ replies' = replies
  BY DEF StartPoll, device
<1>2. keepOpen' \in BOOLEAN /\ (keepOpen' => t.mode = Session)
  BY <1>1 DEF EffectiveKeep, PollerInv, TypeOK
<1>3. Given' = Given /\ Mute' = Mute
  BY <1>1 DEF Given, RejectedRun, Served, Mute
<1>4. QED
  BY <1>1, <1>2, <1>3 DEF Polls!Begin, Polls!NoResult, Polls!device, NoData

(* A step in the middle of a poll that the coordinator does not see.       *)
LEMMA WorkRefined ==
  ASSUME stage # "idle", stage' # "idle", outcome = "none", outcome' = "none",
         disturbed' \in BOOLEAN, disturbed => disturbed',
         \/ t'.mode = t.mode
         \/ /\ t.mode = Session /\ t'.mode = OneRequest
            /\ t.sock = "dead" \/ t.constrained \/ disturbed',
         t'.constrained \in BOOLEAN, keepOpen' = keepOpen,
         answers' = answers, replies' = replies
  PROVE  Polls!Work
<1>1. Given' = Given /\ Mute' = Mute
  BY DEF Given, RejectedRun, Served, Mute
<1>2. (t.constrained \/ t.sock = "dead")' \in BOOLEAN
  OBVIOUS
<1>3. Polls!Promote \/ UNCHANGED t.mode
  BY DEF Polls!Promote
<1>4. QED
  BY <1>1, <1>2, <1>3 DEF Polls!Work, Polls!result, Polls!device

LEMMA ConnectRefined == PollerInv /\ Connect => Polls!Work \/ Polls!Fail
<1> SUFFICES ASSUME PollerInv, Connect PROVE Polls!Work \/ Polls!Fail
  OBVIOUS
<1>1. PICK c \in EnsureConnections(t, EffectiveKeep) :
        /\ Leaves(c.t)
        /\ IF c.ok
           THEN stage' = "blocks" /\ before' = c.t.mode /\ UNCHANGED outcome
           ELSE stage' = "idle" /\ outcome' = "unreachable" /\ UNCHANGED before
  BY DEF Connect
<1>2. /\ t \in Transport /\ EffectiveKeep \in BOOLEAN /\ disturbed \in BOOLEAN
      /\ stage = "connect" /\ outcome = "none"
  BY DEF PollerInv, TypeOK, EffectiveKeep, Connect, ConnectionOK
<1>3. /\ c.t \in Transport /\ c.ok \in BOOLEAN
      /\ c.t.mode = t.mode /\ c.t.faults <= t.faults
      /\ ~c.ok => c.t.sock = "closed" /\ c.t.faults < t.faults
  BY <1>2, EnsureEnds
<1>4. /\ t' = c.t /\ disturbed' \in BOOLEAN /\ (disturbed => disturbed')
      /\ c.t.faults # t.faults => disturbed'
  BY <1>1, <1>2, <1>3, Undisturbed
<1>5. keepOpen' = keepOpen /\ answers' = answers /\ replies' = replies
  BY DEF Connect, device
<1>6. t'.constrained \in BOOLEAN
  BY <1>3, <1>4 DEF Transport
<1>7. CASE c.ok
  <2>1. stage' = "blocks" /\ outcome' = "none"
    BY <1>1, <1>2, <1>7
  <2>2. QED
    BY <1>2, <1>3, <1>4, <1>5, <1>6, <2>1, WorkRefined
<1>8. CASE ~c.ok
  <2>1. stage' = "idle" /\ outcome' = "unreachable" /\ t'.sock = "closed"
    BY <1>1, <1>3, <1>4, <1>8
  <2>2. c.t.faults # t.faults
    BY <1>2, <1>3, <1>8 DEF Transport
  <2>3. Given' = Given /\ Mute' = Mute
    BY <1>5 DEF Given, RejectedRun, Served, Mute
  <2>4. QED
    BY <1>2, <1>3, <1>4, <1>5, <1>6, <2>1, <2>2, <2>3
       DEF Polls!Fail, Polls!NoResult, Polls!device, NoData
<1>9. QED
  BY <1>3, <1>7, <1>8

(* A read of a block or of a register.                                     *)
LEMMA ReadRefined ==
  ASSUME PollerInv, stage # "idle", stage' = stage, outcome' = outcome,
         keepOpen' = keepOpen, answers' = answers, replies' = replies,
         NEW answer, answer \notin Failures,
         NEW r \in ReadsWithReconnect(t, answer), Leaves(r.t)
  PROVE  Polls!Work
<1>1. t \in Transport /\ disturbed \in BOOLEAN /\ outcome = "none"
  BY DEF PollerInv, TypeOK, ConnectionOK
<1>2. /\ r.t \in Transport /\ r.t.mode \in {t.mode, OneRequest}
      /\ r.t.faults <= t.faults
      /\ r.t.mode # t.mode /\ r.t.faults = t.faults =>
           t.sock = "dead" \/ t.constrained
  BY <1>1, RetryEnds
<1>3. /\ t' = r.t /\ disturbed' \in BOOLEAN /\ (disturbed => disturbed')
      /\ r.t.faults # t.faults => disturbed'
  BY <1>1, <1>2, Undisturbed
<1>4. t'.constrained \in BOOLEAN /\ t.mode \in {Session, OneRequest}
  BY <1>1, <1>2, <1>3 DEF Transport
<1>5. QED
  BY <1>1, <1>2, <1>3, <1>4, WorkRefined

LEMMA CloseRefined == PollerInv /\ ClosePoll => Polls!Deliver
<1> SUFFICES ASSUME PollerInv, ClosePoll PROVE Polls!Deliver
  OBVIOUS
<1>1. /\ stage = "close" /\ stage' = "idle" /\ outcome' = "result"
      /\ t' = IF keepOpen THEN t ELSE [Close(t) EXCEPT !.lastIo = "never"]
      /\ answers' = answers /\ replies' = replies /\ keepOpen' = keepOpen
      /\ data' = data /\ errors' = errors /\ disturbed' = disturbed
  BY DEF ClosePoll, device
<1>2. /\ t \in Transport /\ keepOpen \in BOOLEAN /\ errors \in SUBSET Keys
      /\ disturbed \in BOOLEAN /\ data \in [Keys -> {Session, OneRequest, None}]
  BY DEF PollerInv, TypeOK
<1>3. /\ t'.mode = t.mode /\ t'.constrained \in BOOLEAN
      /\ t'.sock # "closed" => keepOpen /\ t'.sock = t.sock
  BY <1>1, <1>2 DEF Close, Transport
<1>4. t'.sock # "closed" => keepOpen /\ t.mode = Session
  BY <1>1, <1>2, <1>3 DEF PollerInv, ConnectionOK, Transport
<1>5. data \in [Keys -> {t.mode, None}]
  BY <1>1, <1>2 DEF PollerInv, ModesOK, InOneMode
<1>6. Missing \subseteq errors \cup Mute \/ Polls!AtLeast(AbortAfter, errors)
  BY <1>1, GivenUpOverErrors DEF PollerInv, SeenOK
<1>7. disturbed \/ Given \cap Missing = {}
  BY <1>1, GivenPresent
<1>8. Given' = Given /\ Mute' = Mute
  BY <1>1 DEF Given, RejectedRun, Served, Mute
<1>9. Polls!Without(data) = Missing
  BY DEF Polls!Without, Missing
<1>10. QED
  BY <1>1, <1>2, <1>3, <1>4, <1>5, <1>6, <1>7, <1>8, <1>9
     DEF Polls!Deliver, Polls!device

LEMMA DropRefined == PollerInv /\ Drop => Polls!Drop
<1> SUFFICES ASSUME PollerInv, Drop PROVE Polls!Drop
  OBVIOUS
<1>1. /\ stage = "idle" /\ t.sock # "closed"
      /\ t' = [t EXCEPT !.sock = "dead"]
      /\ UNCHANGED <<device, poll, outcome>>
  BY DEF Drop
<1>2. t'.sock = "dead" /\ t'.mode = t.mode
  BY <1>1 DEF PollerInv, TypeOK, Transport
<1>3. Given' = Given /\ Mute' = Mute
  BY <1>1 DEF Given, RejectedRun, Served, Mute, device
<1>4. QED
  BY <1>1, <1>2, <1>3 DEF Polls!Drop, Polls!result, Polls!device, poll

(* What happens elsewhere, or only between the passes of a poll.           *)
LEMMA StutterRefined ==
  ASSUME t'.mode = t.mode, t'.constrained = t.constrained, t'.sock = t.sock,
         UNCHANGED <<device, keepOpen, disturbed, outcome>>,
         (stage # "idle") <=> (stage' # "idle"),
         outcome = "result" => data' = data /\ errors' = errors
  PROVE  UNCHANGED Polls!vars
<1>1. Given' = Given /\ Mute' = Mute
  BY DEF Given, RejectedRun, Served, Mute, device
<1>2. QED
  BY <1>1 DEF Polls!vars, Polls!result, Polls!device

LEMMA StepRefined == PollerInv /\ [Next]_vars => [Polls!Next]_(Polls!vars)
<1> SUFFICES ASSUME PollerInv, [Next]_vars
             PROVE  Polls!Next \/ UNCHANGED Polls!vars
  OBVIOUS
<1>1. CASE StartPoll
  BY <1>1, StartRefined DEF Polls!Next
<1>2. CASE Connect
  BY <1>2, ConnectRefined DEF Polls!Next
<1>3. CASE ReadBlock
  <2>1. PICK r \in ReadsWithReconnect(t, replies[next]) : Leaves(r.t)
    BY <1>3 DEF ReadBlock
  <2>2. replies[next] \notin Failures
    <3>1. next \in 1 .. Len(Blocks)
      BY <1>3, Bounds DEF ReadBlock, PollerInv, TypeOK
    <3>2. QED
      BY <3>1 DEF PollerInv, DeviceOK, Failures
  <2>3. /\ stage # "idle" /\ stage' = stage /\ outcome' = outcome
        /\ keepOpen' = keepOpen /\ answers' = answers /\ replies' = replies
    BY <1>3 DEF ReadBlock, BlockReads, device
  <2>4. QED
    BY <2>1, <2>2, <2>3, ReadRefined DEF Polls!Next
<1>4. CASE ReadRegister
  <2> DEFINE answer == answers[Registers[next]]
  <2>1. PICK r \in ReadsWithReconnect(t, answer) : Leaves(r.t)
    BY <1>4 DEF ReadRegister
  <2>2. answer \notin Failures
    <3>1. Registers[next] \in Keys
      BY <1>4, RegisterKeys DEF ReadRegister, PollerInv, TypeOK
    <3>2. QED
      BY <3>1 DEF PollerInv, DeviceOK, Failures
  <2>3. /\ stage # "idle" /\ stage' = stage /\ outcome' = outcome
        /\ keepOpen' = keepOpen /\ answers' = answers /\ replies' = replies
    BY <1>4 DEF ReadRegister, SingleReads, device
  <2> HIDE DEF answer
  <2>4. QED
    BY <2>1, <2>2, <2>3, ReadRefined DEF Polls!Next
<1>5. CASE BlocksDone \/ RegistersDone
  <2>1. /\ stage # "idle" /\ stage' # "idle" /\ t' = t
        /\ UNCHANGED <<device, keepOpen, disturbed, outcome>>
    BY <1>5 DEF BlocksDone, RegistersDone, BlockReads, SingleReads, Go
  <2>2. outcome = "none"
    BY <2>1 DEF PollerInv, ConnectionOK
  <2>3. QED
    BY <2>1, <2>2, StutterRefined
<1>6. CASE ClosePoll
  BY <1>6, CloseRefined DEF Polls!Next
<1>7. CASE Reconfigure
  BY <1>7, StutterRefined DEF Reconfigure, poll
<1>8. CASE Idle
  <2>1. /\ t'.mode = t.mode /\ t'.constrained = t.constrained
        /\ t'.sock = t.sock
    BY <1>8 DEF Idle, PollerInv, TypeOK, Transport
  <2>2. QED
    BY <1>8, <2>1, StutterRefined DEF Idle, poll
<1>9. CASE Drop
  BY <1>9, DropRefined DEF Polls!Next
<1>10. CASE UNCHANGED vars
  BY <1>10, StutterRefined DEF vars, poll
<1>11. QED
  BY <1>1, <1>2, <1>3, <1>4, <1>5, <1>6, <1>7, <1>8, <1>9, <1>10
     DEF Next, PollStep

(* Each poll, whatever its connections go through, is a poll of DevicePoll *)
(* to the coordinator: one result of one mode, with every missing key      *)
(* reported that the device is not mute about, or AbortAfter errors;       *)
(* complete, and never unreachable, unless the network disturbed that very *)
(* poll; and a transport that is promoted only when the device or the      *)
(* network failed a connection.                                            *)
THEOREM PollRefined == Spec => PollAsPromised
<1>1. Init => Polls!Init
  BY InitRefined
<1>2. PollerInv /\ [Next]_vars => [Polls!Next]_(Polls!vars)
  BY StepRefined
<1>3. QED
  BY <1>1, <1>2, PollerInvariant, PTL DEF Spec, PollAsPromised, Polls!Spec
=============================================================================
