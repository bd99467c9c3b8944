----------------------------- MODULE ModbusPoller -----------------------------
(***************************************************************************)
(* One entry's poll: block reads, the individual fallback, the promotion   *)
(* to one request per connection in the middle of a poll, and the state of *)
(* the connection it leaves behind.                                        *)
(*                                                                         *)
(* A value is the mode in which it was read.  The device (external) may    *)
(* answer each block, and each register that is read alone, in full, with  *)
(* too few words or with an error; it may allow one request per connection *)
(* only, and drops a connection that is left idle.                         *)
(***************************************************************************)
EXTENDS ModbusTransport, FiniteSets, Sequences, SequencesExt

CONSTANTS
  Registers,    \* the keys of the register list, in its order
  Blocks,       \* the blocks, sequences of keys, in their order
  AbortAfter,   \* consecutive failures that end the individual reads (5)
  MaxFaults,    \* bound: faults of the network
  MaxShort,     \* bound: blocks and registers answered with too few words
  None

Keys == ToSet(Registers)

(* Every register has a key of its own and the blocks hold all of them,    *)
(* which is what ProfileSetup checks of the tables of each family.         *)
ASSUME PollerAssumption ==
  /\ Registers \in Seq(Nat) /\ IsInjective(Registers)
  /\ Blocks \in Seq(Seq(Keys) \ {<<>>})
  /\ Keys = UNION {ToSet(Blocks[i]) : i \in DOMAIN Blocks}
  /\ AbortAfter \in Nat \ {0}
  /\ {MaxFaults, MaxShort} \subseteq Nat
  /\ None \notin {Session, OneRequest}

VARIABLES
  t,          \* the transport
  keep,       \* the connection is to be kept: preference and sole entry
  answers,    \* its answer to each register when read alone (external)
  replies,    \* its reply to each block (external)
  stage,      \* which reads the poll is at, or "idle"
  next,       \* the next block or register of the stage
  failures,   \* consecutive failures of the individual reads
  keepOpen,   \* the poll's keep_connection_open, evaluated before the lock
  before,     \* the mode before the block or the individual reads
  data,       \* the values read: the mode they were read in, or None
  errors,     \* the keys in errors
  disturbed,  \* history: a fault of the network since the poll began
  outcome     \* of the last poll: "none", "result" or "unreachable"

device == <<answers, replies>>
poll   == <<stage, next, failures, keepOpen, before, data, errors, disturbed>>
vars   == <<t, keep, device, poll, outcome>>

BlockReads   == {"blocks", "blocks_redone", "blocks_last"}
SingleReads  == {"registers", "registers_last"}
NoData       == [k \in Keys |-> None]

(* "short": fewer words than the block or the type of the register needs.  *)
(* (A text is decoded from any words, so only an empty reply is short.)    *)
Replies == {"ok", "short", "error"}

Served == {k \in Keys : answers[k] = "ok"}
Mute   == {k \in Keys : answers[k] = "short"}
ShortBlocks == {i \in DOMAIN replies : replies[i] = "short"}

Init ==
  /\ t \in {NewTransport(m, c, MaxFaults) :
             m \in {Session, OneRequest}, c \in BOOLEAN}
  /\ keep \in BOOLEAN
  /\ answers \in [Keys -> Replies]
  /\ replies \in [1 .. Len(Blocks) -> Replies]
  /\ Cardinality(Mute) + Cardinality(ShortBlocks) <= MaxShort
  /\ stage = "idle"
  /\ next = 1
  /\ failures = 0
  /\ keepOpen = FALSE
  /\ before = t.mode
  /\ data = NoData
  /\ errors = {}
  /\ disturbed = FALSE
  /\ outcome = "none"

-----------------------------------------------------------------------------
(* Variants of the definitions below that a plausible bug would give.      *)
RedoKeepsData == /\ data' = data
                 /\ errors' = {}
CountKept(failed) == IF failed THEN failures + 1 ELSE failures
FailedOnly(block, got) == IF got = {} THEN ToSet(block) ELSE {}
PromotedDuringPoll == t.mode # before

Redo == data' = NoData /\ errors' = {}

(* What an operation of the transport leaves behind.                       *)
Leaves(u) ==
  /\ t' = u
  /\ disturbed' = (disturbed \/ u.faults < t.faults)

(* The effective_keep_connection_open of the coordinator.                  *)
EffectiveKeep == keep /\ t.mode = Session

StartPoll ==
  /\ stage = "idle"
  /\ stage' = "connect"
  /\ keepOpen' = EffectiveKeep
  /\ Redo
  /\ next' = 1
  /\ failures' = 0
  /\ disturbed' = FALSE
  /\ outcome' = "none"
  /\ UNCHANGED <<t, keep, device, before>>

Connect ==
  /\ stage = "connect"
  /\ \E c \in EnsureConnections(t, EffectiveKeep) :
       /\ Leaves(c.t)
       /\ IF c.ok
          THEN stage' = "blocks" /\ before' = c.t.mode /\ UNCHANGED outcome
          ELSE stage' = "idle" /\ outcome' = "unreachable" /\ UNCHANGED before
  /\ UNCHANGED <<keep, device, next, failures, keepOpen, data, errors>>

-----------------------------------------------------------------------------
(* _try_block_reads(), one block at a time.                                *)

Decoded(block, reply) ==
  IF reply = "ok" THEN ToSet(block)
  ELSE IF reply = "short" THEN {block[1]}
  ELSE {}

Failed(block, got) == ToSet(block) \ got

ReadBlock ==
  /\ stage \in BlockReads
  /\ next <= Len(Blocks)
  /\ \E r \in ReadsWithReconnect(t, replies[next]) :
       LET got == Decoded(Blocks[next], r.reply)
       IN  /\ Leaves(r.t)
           /\ data' = [k \in Keys |-> IF k \in got THEN r.t.mode ELSE data[k]]
           /\ errors' = errors \cup Failed(Blocks[next], got)
  /\ next' = next + 1
  /\ UNCHANGED <<keep, device, stage, failures, keepOpen, before, outcome>>

(* What async_poll() does after a pass over the blocks: read them again if *)
(* the transport was promoted, fall back to the registers if one failed.   *)
Go(to) == stage' = to /\ next' = 1 /\ failures' = 0

PromotedDuringBlocks == stage = "blocks" /\ t.mode # before

BlocksDone ==
  /\ stage \in BlockReads
  /\ next > Len(Blocks)
  /\ IF PromotedDuringBlocks
     THEN Go("blocks_redone") /\ Redo /\ UNCHANGED before
     ELSE IF errors = {}
     THEN Go("close") /\ UNCHANGED <<data, errors, before>>
     ELSE IF stage = "blocks_last"
     THEN Go("registers_last") /\ UNCHANGED <<data, errors, before>>
     ELSE /\ Go("registers")
          /\ errors' = {}
          /\ before' = t.mode
          /\ UNCHANGED data
  /\ UNCHANGED <<t, keep, device, keepOpen, disturbed, outcome>>

-----------------------------------------------------------------------------
(* _try_individual_reads(), one register at a time.  A short reply is no   *)
(* error, and decode_register() makes no value of it: the key is then left *)
(* as it is, and the failures before it are forgotten.                     *)

Count(failed) == IF failed THEN failures + 1 ELSE 0

ReadRegister ==
  /\ stage \in SingleReads
  /\ next <= Len(Registers)
  /\ failures < AbortAfter
  /\ LET key == Registers[next]
     IN  \E r \in ReadsWithReconnect(t, answers[key]) :
           /\ Leaves(r.t)
           /\ failures' = Count(r.reply \notin {"ok", "short"})
           /\ data' = IF r.reply = "ok" THEN [data EXCEPT ![key] = r.t.mode]
                      ELSE data
           /\ errors' = IF r.reply \in {"ok", "short"} THEN errors
                        ELSE errors \cup {key}
  /\ next' = next + 1
  /\ UNCHANGED <<keep, device, stage, keepOpen, before, outcome>>

RegistersDone ==
  /\ stage \in SingleReads
  /\ next > Len(Registers) \/ failures >= AbortAfter
  /\ IF stage = "registers" /\ t.mode # before
     THEN Go("blocks_last") /\ Redo
     ELSE stage' = "close" /\ UNCHANGED <<next, failures, data, errors>>
  /\ UNCHANGED <<t, keep, device, keepOpen, before, disturbed, outcome>>

ClosePoll ==
  /\ stage = "close"
  /\ stage' = "idle"
  /\ outcome' = "result"
  /\ t' = IF keepOpen THEN t ELSE [Close(t) EXCEPT !.lastIo = "never"]
  /\ UNCHANGED <<keep, device, next, failures, keepOpen, before, data, errors,
                 disturbed>>

-----------------------------------------------------------------------------
(* Outside the poll: the preference or the number of entries changes, time *)
(* passes on a kept connection, and the server drops it.                   *)

Reconfigure ==
  /\ keep' = ~keep
  /\ UNCHANGED <<t, device, poll, outcome>>

Idle ==
  /\ stage = "idle"
  /\ t.lastIo = "recent"
  /\ t' = [t EXCEPT !.lastIo = "idle"]
  /\ UNCHANGED <<keep, device, poll, outcome>>

Drop ==
  /\ stage = "idle"
  /\ t.sock \in {"fresh", "used"}
  /\ t' = [t EXCEPT !.sock = "dead"]
  /\ UNCHANGED <<keep, device, poll, outcome>>

PollStep ==
  \/ Connect
  \/ ReadBlock
  \/ BlocksDone
  \/ ReadRegister
  \/ RegistersDone
  \/ ClosePoll

Next == StartPoll \/ PollStep \/ Reconfigure \/ Idle \/ Drop

(* The steps of a poll follow one another: every request returns.          *)
Spec == Init /\ [][Next]_vars /\ WF_vars(PollStep)

-----------------------------------------------------------------------------
TypeOK ==
  /\ t \in Transport
  /\ keep \in BOOLEAN
  /\ stage \in {"idle", "connect", "close"} \cup BlockReads \cup SingleReads
  /\ next \in Nat \ {0}
  /\ stage \in BlockReads => next <= Len(Blocks) + 1
  /\ stage \in SingleReads => next <= Len(Registers) + 1
  /\ failures \in 0 .. AbortAfter
  /\ keepOpen \in BOOLEAN
  /\ before \in {Session, OneRequest}
  /\ data \in [Keys -> {Session, OneRequest, None}]
  /\ errors \in SUBSET Keys
  /\ disturbed \in BOOLEAN
  /\ outcome \in {"none", "result", "unreachable"}

Missing == {k \in Keys : data[k] = None}

(* A key without a value is reported, unless the reads were given up or    *)
(* the device answered it with too few words, which loses it silently.     *)
MissingReported ==
  outcome = "result" =>
    Missing \subseteq errors \cup Mute \/ failures >= AbortAfter

(* A poll leaves its connection open only if it was to be kept when it     *)
(* began, and never in one-request mode.                                   *)
ConnectionLeft ==
  stage = "idle" /\ outcome # "none" /\ t.sock # "closed" =>
    keepOpen /\ t.mode = Session

(* README.md:96 and CHANGELOG.md:395-397: in a poll without network faults *)
(* a device that answers the blocks is read in full, and from one that     *)
(* does not every register it serves is read, whatever earlier polls met,  *)
(* and also by the very poll that finds out that the device serves one     *)
(* request per connection or has dropped the kept one.  Only AbortAfter    *)
(* registers in a row that it rejects end the reads.                       *)
RejectedRun ==
  \E i \in 1 .. Len(Registers) + 1 - AbortAfter :
    \A j \in i .. i + AbortAfter - 1 : answers[Registers[j]] = "error"

DeviceServed ==
  outcome = "result" /\ ~disturbed =>
    /\ (\A i \in DOMAIN replies : replies[i] = "ok") => Missing = {}
    /\ Served \cap Missing = {} \/ RejectedRun

(* Seen by the coordinator a poll is one of DevicePoll: what it reads is   *)
(* replaced as a whole when the transport is promoted, it is unreachable   *)
(* only through a fault of the network and complete without one, and the   *)
(* transport is promoted only when a connection has failed.                *)
Given ==
  IF \A i \in DOMAIN replies : replies[i] = "ok" THEN Keys
  ELSE IF RejectedRun THEN {}
  ELSE Served

Polls == INSTANCE DevicePoll WITH
  mode     <- t.mode,
  broken   <- t.constrained \/ t.sock = "dead",
  expected <- Given,
  mute     <- Mute,
  polling  <- stage # "idle",
  kept     <- keepOpen,
  left     <- stage = "idle" /\ t.sock # "closed",
  values   <- IF outcome = "result" THEN data ELSE NoData,
  errors   <- IF outcome = "result" THEN errors ELSE {}

PollAsPromised == Polls!Spec

(* Every poll comes to an end.                                             *)
PollEnds == []<>(stage = "idle")
=============================================================================
