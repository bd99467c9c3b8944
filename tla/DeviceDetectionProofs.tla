------------------------ MODULE DeviceDetectionProofs ------------------------
(***************************************************************************)
(* Theorems about DeviceDetection, for every device that Answers allows,   *)
(* every state of the transport it starts from, and any number of          *)
(* detections one after another.                                           *)
(***************************************************************************)
EXTENDS DeviceDetection, ModbusTransportProofs, TLAPS

(* A unit of the family, which stays the same.                             *)
DeviceOK == family \in Concrete /\ answers \in Answers(family)

(* A connection that the device has dropped was dropped before; with a     *)
(* session no probe has failed, since that would have ended it; and in     *)
(* one-request mode no connection outlives its probe.                      *)
ConnectionOK ==
  /\ t.sock = "dead" => disturbed
  /\ stage \in {"probe", "retry"} =>
       /\ t.mode = Session => /\ t.proven
                              /\ \A p \in Probes : probes[p] # "failure"
       /\ t.mode = OneRequest /\ probe > 1 => t.sock = "closed"
  /\ stage = "retry" => t.mode = OneRequest

StageOK ==
  /\ stage = "connect" => probe = 1
  /\ stage = "retry" => probe > 1
  /\ stage = "idle" => probe \in {1, Len(SchemaProbes) + 1}
  /\ detected = IF Finished THEN Classify(probes) ELSE None

(* How often the probe of number i has been made again by now, if it       *)
(* always failed: once after itself and once after each probe behind it.   *)
Repetitions(i) ==
  IF stage # "retry" THEN probe - i
  ELSE IF again > i THEN probe - i
  ELSE probe - 1 - i

(* An outcome is what the device answers or a failure, and a failure that  *)
(* is not the device's answer has cost a network fault for each of its     *)
(* repetitions.                                                            *)
OutcomeOK(i) ==
  LET p == SchemaProbes[i] IN
  /\ i < probe  => probes[p] \in {answers[p], "failure"}
  /\ i >= probe => probes[p] = None
  /\ probes[p] = "failure" /\ answers[p] # "failure" =>
       Repetitions(i) <= MaxFaults - t.faults

DetectionInv ==
  /\ TypeOK
  /\ DeviceOK
  /\ ConnectionOK
  /\ StageOK
  /\ t.faults <= MaxFaults
  /\ \A i \in DOMAIN SchemaProbes : OutcomeOK(i)
-----------------------------------------------------------------------------
LEMMA TheProbes ==
  /\ Len(SchemaProbes) = 5 /\ DOMAIN SchemaProbes = 1 .. 5
  /\ \A i \in 1 .. 5 : SchemaProbes[i] \in Probes
  /\ \A p \in Probes : \E i \in 1 .. 5 : p = SchemaProbes[i]
  /\ \A i, j \in 1 .. 5 : SchemaProbes[i] = SchemaProbes[j] => i = j
<1>1. Len(SchemaProbes) = 5 /\ DOMAIN SchemaProbes = 1 .. 5
  BY DEF SchemaProbes
<1>2. \A i, j \in 1 .. 5 : SchemaProbes[i] = SchemaProbes[j] => i = j
  BY DEF SchemaProbes
<1>3. QED
  BY <1>1, <1>2 DEF Probes

LEMMA AnswersType ==
  ASSUME NEW f, NEW a \in Answers(f)
  PROVE  a \in [Probes -> Outcomes]
BY DEF Answers

LEMMA AnswerIsOutcome ==
  ASSUME DeviceOK, NEW p \in Probes
  PROVE  /\ answers[p] \in Outcomes /\ answers[p] \notin Failures
         /\ answers[p] # None
<1>1. answers[p] \in Outcomes
  BY AnswersType DEF DeviceOK
<1>2. QED
  BY <1>1 DEF Outcomes, Responses, Failures, None

(* What one probe leaves, whether it is the first or a repetition.         *)
LEMMA ProbeEnds ==
  ASSUME DeviceOK, t \in Transport, t.mode = Session => t.proven,
         NEW p \in Probes, NEW o \in ProbeOutcomes(p)
  PROVE  /\ o.t \in Transport /\ o.t.faults <= t.faults
         /\ o.outcome \in {answers[p], "failure"}
         /\ o.t.sock # "dead"
         /\ o.t.mode = OneRequest => o.t.sock = "closed"
         /\ o.t.mode = Session => t.mode = Session /\ o.t.proven
         /\ o.outcome = "failure" => o.t.mode = OneRequest
         /\ t.mode = Session /\ o.t.mode = OneRequest => o.outcome = "failure"
         /\ o.outcome # answers[p] /\ o.t.faults = t.faults =>
              t.sock = "dead" \/ (t.sock = "used" /\ t.constrained)
<1>1. PICK r \in Requests(t, answers[p]) :
        o = LET outcome == IF r.reply \in Failures THEN "failure" ELSE r.reply
                after   == IF outcome = "failure" THEN Close(r.t)
                           ELSE AfterRequest(t.mode, r.t)
            IN  [t |-> AfterProbe(after, outcome), outcome |-> outcome]
  BY DEF ProbeOutcomes
<1> DEFINE outcome == IF r.reply \in Failures THEN "failure" ELSE r.reply
           after   == IF outcome = "failure" THEN Close(r.t)
                      ELSE AfterRequest(t.mode, r.t)
<1>2. o.t = AfterProbe(after, outcome) /\ o.outcome = outcome
  BY <1>1
<1>3. /\ r.t \in Transport /\ r.t.mode = t.mode
      /\ r.t.proven = t.proven
      /\ r.t.faults <= t.faults /\ r.t.sock \in {"closed", "used"}
      /\ r.reply \in {answers[p]} \cup Failures
      /\ r.t.faults = t.faults /\ r.reply # answers[p] =>
           t.sock = "dead" \/ (t.sock = "used" /\ t.constrained)
  BY AnswerIsOutcome, RequestsEnds
<1>4. /\ after \in Transport /\ after.mode = t.mode
      /\ after.proven = r.t.proven /\ after.faults = r.t.faults
      /\ after.sock \in {"closed", "used"}
      /\ outcome = "failure" \/ t.mode = OneRequest => after.sock = "closed"
  BY <1>3, CloseType DEF AfterRequest
<1>5. /\ outcome \in {answers[p], "failure"}
      /\ outcome # answers[p] => r.reply # answers[p]
  BY <1>3, AnswerIsOutcome
<1>6. t.mode \in {Session, OneRequest} /\ Session # OneRequest
  BY DEF Transport, Session, OneRequest
<1> HIDE DEF outcome, after
<1>7. t.mode = Session => after.proven
  BY <1>3, <1>4
<1>8. CASE outcome = "failure"
  <2>1. o.t = Promote(after)
    BY <1>2, <1>8 DEF AfterProbe
  <2>2. /\ Promote(after) \in Transport /\ Promote(after).mode = OneRequest
        /\ Promote(after).sock = "closed"
        /\ Promote(after).faults = after.faults
    BY <1>4, <1>6, <1>7, <1>8 DEF Promote, Transport
  <2>3. QED
    BY <1>2, <1>3, <1>4, <1>5, <1>6, <1>8, <2>1, <2>2
<1>9. CASE outcome # "failure"
  <2>1. \/ o.t = after
        \/ t.mode = Session /\ o.t = [after EXCEPT !.proven = TRUE]
    BY <1>2, <1>4, <1>9 DEF AfterProbe
  <2>2. /\ o.t \in Transport /\ o.t.mode = after.mode
        /\ o.t.sock = after.sock /\ o.t.faults = after.faults
        /\ after.proven => o.t.proven
    BY <1>4, <2>1 DEF Transport
  <2>3. QED
    BY <1>2, <1>3, <1>4, <1>5, <1>6, <1>7, <1>9, <2>2
<1>10. QED
  BY <1>8, <1>9

LEMMA DetectionBounds ==
  ASSUME TypeOK, t' \in Transport, t'.faults <= t.faults, t.faults <= MaxFaults
  PROVE  /\ t'.faults <= MaxFaults
         /\ t.faults \in Nat /\ t'.faults \in Nat /\ MaxFaults \in Nat
         /\ MaxFaults - t.faults <= MaxFaults - t'.faults
         /\ t'.faults # t.faults =>
              MaxFaults - t.faults + 1 <= MaxFaults - t'.faults
<1>1. t.faults \in Nat /\ t'.faults \in Nat /\ MaxFaults \in Nat
  BY DetectionAssumption DEF TypeOK, Transport
<1>2. QED
  BY <1>1

LEMMA DetectionInit == Init => DetectionInv
<1> SUFFICES ASSUME Init PROVE DetectionInv
  OBVIOUS
<1>1. /\ t \in Transport /\ t.faults = MaxFaults
      /\ MaxFaults \in Nat /\ MaxFaults <= MaxFaults
  <2>1. {0, RecreateAfter - 1} \subseteq 0 .. RecreateAfter - 1
    BY RecreateAfterPositive
  <2>2. MaxFaults \in Nat
    BY DetectionAssumption
  <2>3. t \in [sock : {"closed", "fresh", "used", "dead"},
              mode : {Session, OneRequest}, proven : BOOLEAN,
              failures : {0, RecreateAfter - 1},
              lastIo : {"never", "recent", "idle"}, recreated : {FALSE},
              constrained : BOOLEAN, faults : {MaxFaults}]
    BY DEF Init, Transports
  <2> DEFINE F == {0, RecreateAfter - 1}
  <2> HIDE DEF F
  <2>4. /\ t.failures \in F /\ t.faults = MaxFaults
        /\ t = [sock |-> t.sock, mode |-> t.mode, proven |-> t.proven,
                failures |-> t.failures, lastIo |-> t.lastIo,
                recreated |-> t.recreated, constrained |-> t.constrained,
                faults |-> t.faults]
        /\ t.sock \in {"closed", "fresh", "used", "dead"}
        /\ t.mode \in {Session, OneRequest} /\ t.proven \in BOOLEAN
        /\ t.lastIo \in {"never", "recent", "idle"}
        /\ t.recreated \in BOOLEAN /\ t.constrained \in BOOLEAN
    BY <2>3 DEF F
  <2>5. t.failures \in 0 .. RecreateAfter - 1
    BY <2>1, <2>4 DEF F
  <2>6. QED
    BY <2>2, <2>4, <2>5 DEF Transport
<1>2. /\ keep \in BOOLEAN /\ family \in Concrete /\ answers \in Answers(family)
      /\ disturbed = (t.sock = "dead") /\ stage = "idle" /\ probe = 1
      /\ again = 1 /\ probes = NoOutcome /\ detected = None
  BY DEF Init
<1>3. TypeOK
  BY <1>1, <1>2, TheProbes DEF TypeOK, NoOutcome
<1>4. DeviceOK /\ ConnectionOK
  BY <1>2 DEF DeviceOK, ConnectionOK
<1>5. StageOK
  BY <1>2, TheProbes DEF StageOK, Finished
<1>6. \A i \in DOMAIN SchemaProbes : OutcomeOK(i)
  BY <1>2, TheProbes DEF OutcomeOK, NoOutcome, None
<1>7. QED
  BY <1>1, <1>3, <1>4, <1>5, <1>6 DEF DetectionInv

LEMMA StartStep == DetectionInv /\ Start => DetectionInv'
<1> SUFFICES ASSUME DetectionInv, Start PROVE DetectionInv'
  OBVIOUS
<1> USE DEF DetectionInv
<1>1. /\ stage' = "connect" /\ probe' = 1 /\ again' = 1 /\ probes' = NoOutcome
      /\ detected' = None /\ t' = t /\ keep' = keep /\ family' = family
      /\ answers' = answers /\ disturbed' = disturbed
  BY DEF Start, device
<1>2. TypeOK'
  BY <1>1, TheProbes DEF TypeOK, NoOutcome
<1>3. DeviceOK' /\ ConnectionOK' /\ StageOK'
  BY <1>1 DEF DeviceOK, ConnectionOK, StageOK, Finished
<1>4. (\A i \in DOMAIN SchemaProbes : OutcomeOK(i))'
  BY <1>1, TheProbes DEF OutcomeOK, NoOutcome, None
<1>5. QED
  BY <1>1, <1>2, <1>3, <1>4

LEMMA ConnectStep == DetectionInv /\ Connect => DetectionInv'
<1> SUFFICES ASSUME DetectionInv, Connect PROVE DetectionInv'
  OBVIOUS
<1> USE DEF DetectionInv
<1> DEFINE kept == keep /\ t.mode = Session
<1>1. PICK c \in EnsureConnections(t, kept) :
        /\ t' = c.t
        /\ stage' = IF c.ok THEN "probe" ELSE "idle"
        /\ Disturbs(c.t)
  BY DEF Connect
<1>2. /\ stage = "connect" /\ keep' = keep /\ family' = family
      /\ answers' = answers /\ probe' = probe /\ again' = again
      /\ probes' = probes /\ detected' = detected
  BY DEF Connect, device
<1>3. probe = 1 /\ detected = None
  BY <1>2 DEF StageOK, Finished
<1>4. t \in Transport /\ kept \in BOOLEAN
  BY DEF TypeOK
<1> HIDE DEF kept
<1>5. /\ c.t \in Transport /\ c.t.faults <= t.faults /\ c.t.mode = t.mode
      /\ c.t.sock = "dead" => t.sock = "dead"
      /\ c.ok /\ t.mode = Session => c.t.proven
  BY <1>4, EnsureEnds
<1>6. disturbed' \in BOOLEAN /\ (disturbed => disturbed')
  BY <1>1 DEF Disturbs
<1>7. TypeOK'
  BY <1>1, <1>2, <1>5, <1>6 DEF TypeOK
<1>8. DeviceOK'
  BY <1>2 DEF DeviceOK
<1>9. \A p \in Probes : probes[p] = None
  <2>1. \A i \in 1 .. 5 : probes[SchemaProbes[i]] = None
    BY <1>3, TheProbes DEF OutcomeOK
  <2>2. QED
    BY <2>1, TheProbes
<1>10. ConnectionOK'
  <2>1. t'.sock = "dead" => disturbed'
    BY <1>1, <1>5, <1>6 DEF ConnectionOK
  <2>2. stage' = "probe" /\ t'.mode = Session => t'.proven
    BY <1>1, <1>5
  <2>3. stage' # "retry" /\ ~(probe' > 1)
    BY <1>1, <1>2, <1>3
  <2>4. \A p \in Probes : probes'[p] # "failure"
    BY <1>2, <1>9 DEF None
  <2>5. QED
    BY <2>1, <2>2, <2>3, <2>4 DEF ConnectionOK
<1>11. StageOK'
  BY <1>1, <1>2, <1>3, TheProbes DEF StageOK, Finished
<1>12. (\A i \in DOMAIN SchemaProbes : OutcomeOK(i))'
  <2> SUFFICES ASSUME NEW i \in 1 .. 5 PROVE OutcomeOK(i)'
    BY TheProbes
  <2>1. ~(i < probe') /\ probes'[SchemaProbes[i]] = None
    BY <1>2, <1>3, <1>9, TheProbes
  <2>2. QED
    BY <2>1 DEF OutcomeOK, None
<1>13. t'.faults <= MaxFaults
  BY <1>1, <1>5, DetectionBounds
<1>14. QED
  BY <1>7, <1>8, <1>10, <1>11, <1>12, <1>13
(* One probe, made or repeated: its outcome, and what it does to the rest. *)
LEMMA AskEnds ==
  ASSUME DetectionInv, stage \in {"probe", "retry"}, NEW p \in Probes, Ask(p)
  PROVE  \E out \in {answers[p], "failure"} :
           /\ probes' = [probes EXCEPT ![p] = out]
           /\ t' \in Transport /\ t'.faults <= t.faults
           /\ t'.sock # "dead"
           /\ disturbed' \in BOOLEAN /\ (disturbed => disturbed')
           /\ t'.faults # t.faults => disturbed'
           /\ t'.mode = OneRequest => t'.sock = "closed"
           /\ t'.mode = Session => t.mode = Session /\ t'.proven
           /\ out = "failure" => t'.mode = OneRequest
           /\ t.mode = Session /\ t'.mode = OneRequest => out = "failure"
           /\ out # answers[p] /\ t'.faults = t.faults =>
                t.sock = "dead" \/ (t.sock = "used" /\ t.constrained)
<1>1. PICK o \in ProbeOutcomes(p) :
        /\ t' = o.t
        /\ probes' = [probes EXCEPT ![p] = o.outcome]
        /\ Disturbs(o.t)
  BY DEF Ask
<1>2. DeviceOK /\ t \in Transport /\ (t.mode = Session => t.proven)
  BY DEF DetectionInv, TypeOK, ConnectionOK
<1>3. /\ o.t \in Transport /\ o.t.faults <= t.faults
      /\ o.outcome \in {answers[p], "failure"}
      /\ o.t.sock # "dead"
      /\ o.t.mode = OneRequest => o.t.sock = "closed"
      /\ o.t.mode = Session => t.mode = Session /\ o.t.proven
      /\ o.outcome = "failure" => o.t.mode = OneRequest
      /\ t.mode = Session /\ o.t.mode = OneRequest => o.outcome = "failure"
      /\ o.outcome # answers[p] /\ o.t.faults = t.faults =>
           t.sock = "dead" \/ (t.sock = "used" /\ t.constrained)
  BY <1>2, ProbeEnds
<1>4. o.t.faults # t.faults => o.t.faults < t.faults
  BY <1>2, <1>3 DEF Transport
<1>5. /\ disturbed' \in BOOLEAN /\ (disturbed => disturbed')
      /\ o.t.faults # t.faults => disturbed'
  BY <1>1, <1>4 DEF Disturbs
<1>6. QED
  BY <1>1, <1>3, <1>5

LEMMA MakeProbeStep == DetectionInv /\ MakeProbe => DetectionInv'
<1> SUFFICES ASSUME DetectionInv, MakeProbe PROVE DetectionInv'
  OBVIOUS
<1> USE DEF DetectionInv
<1>1. /\ stage = "probe" /\ probe <= 5 /\ Ask(SchemaProbes[probe])
      /\ stage' = (IF t'.mode = OneRequest THEN "retry" ELSE "probe")
      /\ probe' = probe + 1 /\ again' = 1 /\ keep' = keep
      /\ family' = family /\ answers' = answers /\ detected' = detected
  BY TheProbes DEF MakeProbe, device
<1>2. probe \in 1 .. 5 /\ probe \in Nat /\ detected = None
  BY <1>1, TheProbes DEF TypeOK, StageOK, Finished
<1>3. PICK n \in 1 .. 5 : n = probe
  BY <1>2
<1>4. PICK p \in Probes : p = SchemaProbes[n]
  BY TheProbes
<1>5. PICK out \in {answers[p], "failure"} :
           /\ probes' = [probes EXCEPT ![p] = out]
           /\ t' \in Transport /\ t'.faults <= t.faults
           /\ t'.sock # "dead"
           /\ disturbed' \in BOOLEAN /\ (disturbed => disturbed')
           /\ t'.mode = OneRequest => t'.sock = "closed"
           /\ t'.mode = Session => t.mode = Session /\ t'.proven
           /\ out = "failure" => t'.mode = OneRequest
  BY <1>1, <1>3, <1>4, AskEnds
<1>6. /\ probes \in [Probes -> Outcomes \cup {None}]
      /\ out \in Outcomes
      /\ \A q \in Probes : probes'[q] = IF q = p THEN out ELSE probes[q]
  <2>1. probes \in [Probes -> Outcomes \cup {None}]
    BY DEF TypeOK
  <2>2. answers[p] \in Outcomes
    BY AnswerIsOutcome
  <2>3. "failure" \in Outcomes
    BY DEF Outcomes
  <2>4. QED
    BY <1>5, <2>1, <2>2, <2>3
<1>7. t'.mode \in {Session, OneRequest} /\ Session # OneRequest
  BY <1>5 DEF Transport, Session, OneRequest
<1>8. TypeOK'
  <2>1. probes' \in [Probes -> Outcomes \cup {None}]
    BY <1>5, <1>6
  <2>2. /\ probe' \in 1 .. Len(SchemaProbes) + 1
        /\ again' \in 1 .. Len(SchemaProbes)
    BY <1>1, <1>2, TheProbes
  <2>3. QED
    BY <1>1, <1>5, <2>1, <2>2 DEF TypeOK
<1>9. DeviceOK'
  BY <1>1 DEF DeviceOK
<1>10. ConnectionOK'
  <2>1. ASSUME t'.mode = Session, NEW q \in Probes PROVE probes'[q] # "failure"
    BY <1>1, <1>5, <1>6, <1>7, <2>1 DEF ConnectionOK
  <2>2. stage' = "retry" => t'.mode = OneRequest
    BY <1>1
  <2>3. QED
    BY <1>5, <2>1, <2>2 DEF ConnectionOK
<1>11. StageOK'
  <2>1. stage' \in {"probe", "retry"} /\ probe' > 1
    BY <1>1, <1>2
  <2>2. QED
    BY <1>1, <1>2, <2>1 DEF StageOK, Finished
<1>12. /\ t'.faults <= MaxFaults
       /\ t.faults \in Nat /\ t'.faults \in Nat /\ MaxFaults \in Nat
       /\ MaxFaults - t.faults <= MaxFaults - t'.faults
  BY <1>5, DetectionBounds
<1>13. (\A i \in DOMAIN SchemaProbes : OutcomeOK(i))'
  <2> SUFFICES ASSUME NEW i \in 1 .. 5 PROVE OutcomeOK(i)'
    BY TheProbes
  <2> DEFINE q == SchemaProbes[i]
  <2>1. q \in Probes /\ (q = p <=> i = n) /\ OutcomeOK(i)
    BY <1>4, TheProbes
  <2>2. i < probe' => probes'[q] \in {answers[q], "failure"}
    BY <1>1, <1>2, <1>3, <1>5, <1>6, <2>1 DEF OutcomeOK
  <2>3. i >= probe' => probes'[q] = None
    BY <1>1, <1>2, <1>3, <1>6, <2>1 DEF OutcomeOK
  <2>4. ASSUME probes'[q] = "failure", answers[q] # "failure"
        PROVE  Repetitions(i)' <= MaxFaults - t'.faults
    <3>1. stage' = "retry"
      BY <1>1, <1>7, <1>10, <2>1, <2>4 DEF ConnectionOK
    <3>2. Repetitions(i)' = probe - i
      BY <1>1, <1>2, <3>1 DEF Repetitions
    <3>3. CASE i = n
      BY <1>3, <1>12, <3>2, <3>3
    <3>4. CASE i # n
      <4>1. probes[q] = "failure"
        BY <1>6, <2>1, <2>4, <3>4
      <4>2. Repetitions(i) <= MaxFaults - t.faults /\ Repetitions(i) = probe - i
        BY <1>1, <2>1, <2>4, <4>1 DEF OutcomeOK, Repetitions
      <4>3. QED
        BY <1>2, <1>12, <3>2, <4>2
    <3>5. QED
      BY <3>3, <3>4
  <2>5. QED
    BY <1>1, <2>2, <2>3, <2>4 DEF OutcomeOK
<1>14. QED
  BY <1>8, <1>9, <1>10, <1>11, <1>12, <1>13

LEMMA RetryStep == DetectionInv /\ Retry => DetectionInv'
<1> SUFFICES ASSUME DetectionInv, Retry PROVE DetectionInv'
  OBVIOUS
<1> USE DEF DetectionInv
<1>1. /\ stage = "retry" /\ keep' = keep
      /\ stage' = IF again = 5 THEN "probe" ELSE "retry"
      /\ again' = IF again = 5 THEN again ELSE again + 1
      /\ probe' = probe /\ family' = family /\ answers' = answers
      /\ detected' = detected
  BY TheProbes DEF Retry, device
<1>2. again \in 1 .. 5 /\ probe \in 1 .. 6 /\ probe > 1 /\ detected = None
  BY <1>1, TheProbes DEF TypeOK, StageOK, Finished
<1>3. PICK n \in 1 .. 5 : n = again
  BY <1>2
<1>4. PICK p \in Probes : p = SchemaProbes[n]
  BY TheProbes
<1>5. /\ t.mode = OneRequest /\ t.sock = "closed" /\ Session # OneRequest
      /\ t \in Transport /\ disturbed \in BOOLEAN
  BY <1>1, <1>2 DEF ConnectionOK, TypeOK, Session, OneRequest
<1>6. probes \in [Probes -> Outcomes \cup {None}]
  BY DEF TypeOK
<1>7. /\ t' \in Transport /\ t'.faults <= t.faults /\ t'.mode = OneRequest
      /\ t'.sock = "closed" /\ disturbed' \in BOOLEAN
      /\ probes' \in [Probes -> Outcomes \cup {None}]
      /\ \A q \in Probes : q # p => probes'[q] = probes[q]
      /\ \/ probes[p] # "failure" /\ probes'[p] = probes[p]
         \/ /\ probes[p] = "failure" /\ probes'[p] \in {answers[p], "failure"}
            /\ probes'[p] # answers[p] => t'.faults # t.faults
  <2>1. CASE Repeats(p)
    <3>1. Ask(p)
      BY <1>3, <1>4, <2>1 DEF Retry
    <3>2. PICK out \in {answers[p], "failure"} :
           /\ probes' = [probes EXCEPT ![p] = out]
           /\ t' \in Transport /\ t'.faults <= t.faults
           /\ disturbed' \in BOOLEAN
           /\ t'.mode = OneRequest => t'.sock = "closed"
           /\ t'.mode = Session => t.mode = Session
           /\ out # answers[p] /\ t'.faults = t.faults =>
                t.sock = "dead" \/ (t.sock = "used" /\ t.constrained)
      BY <1>1, <3>1, AskEnds
    <3>3. out # answers[p] => t'.faults # t.faults
      BY <1>5, <3>2
    <3>4. out \in Outcomes
      BY AnswerIsOutcome DEF Outcomes
    <3>5. t'.mode = OneRequest
      BY <1>5, <3>2 DEF Transport
    <3>6. probes[p] = "failure" /\ probes'[p] = out
      BY <1>6, <2>1, <3>2 DEF Repeats
    <3>7. /\ probes' \in [Probes -> Outcomes \cup {None}]
          /\ \A q \in Probes : q # p => probes'[q] = probes[q]
      BY <1>6, <3>2, <3>4
    <3>8. QED
      BY <3>2, <3>3, <3>5, <3>6, <3>7
  <2>2. CASE ~Repeats(p)
    <3>1. t' = t /\ probes' = probes /\ disturbed' = disturbed
      BY <1>3, <1>4, <2>2 DEF Retry
    <3>2. t.faults <= t.faults
      BY <1>5 DEF Transport
    <3>3. QED
      BY <1>5, <1>6, <2>2, <3>1, <3>2 DEF Repeats
  <2>3. QED
    BY <2>1, <2>2
<1>8. TypeOK'
  <2>1. again' \in 1 .. Len(SchemaProbes)
    BY <1>1, <1>2, TheProbes
  <2>2. stage' \in {"idle", "connect", "probe", "retry"}
    BY <1>1
  <2>3. QED
    BY <1>1, <1>7, <2>1, <2>2 DEF TypeOK
<1>9. DeviceOK'
  BY <1>1 DEF DeviceOK
<1>10. ConnectionOK'
  BY <1>5, <1>7 DEF ConnectionOK
<1>11. StageOK'
  <2>1. stage' \in {"probe", "retry"}
    BY <1>1
  <2>2. QED
    BY <1>1, <1>2, <2>1 DEF StageOK, Finished
<1>12. /\ t'.faults <= MaxFaults
       /\ t.faults \in Nat /\ t'.faults \in Nat /\ MaxFaults \in Nat
       /\ MaxFaults - t.faults <= MaxFaults - t'.faults
       /\ t'.faults # t.faults =>
            MaxFaults - t.faults + 1 <= MaxFaults - t'.faults
  BY <1>7, DetectionBounds
<1>13. (\A i \in DOMAIN SchemaProbes : OutcomeOK(i))'
  <2> SUFFICES ASSUME NEW i \in 1 .. 5 PROVE OutcomeOK(i)'
    BY TheProbes
  <2> DEFINE q == SchemaProbes[i]
  <2>1. q \in Probes /\ (q = p <=> i = n) /\ OutcomeOK(i)
    BY <1>4, TheProbes
  <2>2. i < probe' => probes'[q] \in {answers[q], "failure"}
    BY <1>1, <1>7, <2>1 DEF OutcomeOK
  <2>3. i >= probe' => probes'[q] = None
    <3>1. i >= probe => probes[q] = None
      BY <2>1 DEF OutcomeOK
    <3>2. QED
      BY <1>1, <1>7, <2>1, <3>1 DEF None
  <2>4. ASSUME probes'[q] = "failure", answers[q] # "failure"
        PROVE  Repetitions(i)' <= MaxFaults - t'.faults
    <3>1. probes[q] = "failure" /\ i < probe
      <4>1. probes[q] = "failure"
        BY <1>7, <2>1, <2>4
      <4>2. QED
        BY <1>2, <2>1, <4>1 DEF OutcomeOK, None
    <3>2. Repetitions(i) <= MaxFaults - t.faults
      BY <2>1, <2>4, <3>1 DEF OutcomeOK
    <3>3. CASE i = n
      <4>1. MaxFaults - t.faults + 1 <= MaxFaults - t'.faults
        BY <1>7, <1>12, <2>1, <2>4, <3>1, <3>3
      <4>2. Repetitions(i)' <= Repetitions(i) + 1 /\ Repetitions(i) \in Int
            /\ Repetitions(i)' \in Int
        BY <1>1, <1>2, <1>3, <3>3 DEF Repetitions
      <4>3. QED
        BY <1>12, <3>2, <4>1, <4>2
    <3>4. CASE i # n
      <4>1. Repetitions(i)' = Repetitions(i) /\ Repetitions(i) \in Int
        BY <1>1, <1>2, <1>3, <3>1, <3>4 DEF Repetitions
      <4>2. QED
        BY <1>12, <3>2, <4>1
    <3>5. QED
      BY <3>3, <3>4
  <2>5. QED
    BY <1>1, <2>2, <2>3, <2>4 DEF OutcomeOK
<1>14. QED
  BY <1>8, <1>9, <1>10, <1>11, <1>12, <1>13

LEMMA FinishStep == DetectionInv /\ Finish => DetectionInv'
<1> SUFFICES ASSUME DetectionInv, Finish PROVE DetectionInv'
  OBVIOUS
<1> USE DEF DetectionInv
<1>1. /\ stage = "probe" /\ probe > 5 /\ detected' = Classify(probes)
      /\ stage' = "idle" /\ t' = t /\ keep' = keep /\ family' = family
      /\ answers' = answers /\ disturbed' = disturbed /\ probe' = probe
      /\ again' = again /\ probes' = probes
  BY TheProbes DEF Finish, device
<1>2. probe = 6
  BY <1>1, TheProbes DEF TypeOK
<1>3. TypeOK'
  BY <1>1 DEF TypeOK, Classify, Concrete
<1>4. DeviceOK' /\ ConnectionOK'
  BY <1>1 DEF DeviceOK, ConnectionOK
<1>5. StageOK'
  BY <1>1, <1>2, TheProbes DEF StageOK, Finished
<1>6. (\A i \in DOMAIN SchemaProbes : OutcomeOK(i))'
  BY <1>1 DEF OutcomeOK, Repetitions
<1>7. QED
  BY <1>1, <1>3, <1>4, <1>5, <1>6

LEMMA DetectionStep == DetectionInv /\ [Next]_vars => DetectionInv'
<1> SUFFICES ASSUME DetectionInv, [Next]_vars PROVE DetectionInv'
  OBVIOUS
<1>1. CASE UNCHANGED vars
  BY <1>1 DEF vars, device, DetectionInv, TypeOK, DeviceOK, ConnectionOK,
              StageOK, Finished, OutcomeOK, Repetitions
<1>2. QED
  BY <1>1, StartStep, ConnectStep, MakeProbeStep, RetryStep, FinishStep DEF Next

LEMMA DetectionInvariant == Spec => []DetectionInv
BY DetectionInit, DetectionStep, PTL DEF Spec
-----------------------------------------------------------------------------
(* The outcomes of a detection that has ended are the device's answers,    *)
(* but for those that many faults of the network have kept from it.        *)
LEMMA OutcomesAtTheEnd ==
  ASSUME DetectionInv, Finished, NEW i \in 1 .. 5
  PROVE  LET p == SchemaProbes[i] IN
         /\ probes[p] \in {answers[p], "failure"}
         /\ probes[p] = answers[p] \/ 6 - i <= MaxFaults - t.faults
<1> USE DEF DetectionInv
<1>1. probe = 6 /\ stage = "idle" /\ OutcomeOK(i)
  BY TheProbes DEF Finished, StageOK
<1>2. i < probe /\ Repetitions(i) = 6 - i
  BY <1>1 DEF Repetitions
<1>3. QED
  BY <1>1, <1>2 DEF OutcomeOK

LEMMA Signatures ==
  ASSUME DeviceOK
  PROVE  /\ family = "rack_pdu" =>
              /\ answers["capabilities"] = "live"
              /\ answers["measurements"] = "live"
         /\ family = "smt_ups" =>
              /\ answers["capabilities"] \in Rejections
              /\ answers["legacy"] = "unsupported"
              /\ answers["smt"] \in Responses
         /\ family = "smart_ups" =>
              /\ answers["capabilities"] \in Rejections
              /\ answers["legacy"] \in Responses
              /\ answers["smt"] = "unsupported"
         /\ family = "smartconnect_ups" =>
              /\ answers["capabilities"] \in Rejections
              /\ answers["legacy"] = "blank"
              /\ answers["status"] = "live"
              /\ answers["smt"] = "live"
BY DEF DeviceOK, Answers

LEMMA Numbers ==
  /\ SchemaProbes[1] = "capabilities" /\ SchemaProbes[2] = "measurements"
  /\ SchemaProbes[3] = "legacy" /\ SchemaProbes[4] = "status"
  /\ SchemaProbes[5] = "smt"
BY DEF SchemaProbes

(* What the outcomes can be taken for if the device's answers are as given *)
(* and each of them may have been lost.                                    *)
LEMMA ClassifiedRight ==
  ASSUME DeviceOK, NEW pr \in [Probes -> Outcomes \cup {None}],
         pr["capabilities"] \in {answers["capabilities"], "failure"},
         pr["legacy"] \in {answers["legacy"], "failure"},
         pr["smt"] \in {answers["smt"], "failure"},
         family = "rack_pdu" => /\ pr["capabilities"] = answers["capabilities"]
                                /\ pr["measurements"] = answers["measurements"]
  PROVE  Classify(pr) \in {family, None}
<1> USE DEF Classify, CoherentRackPdu, Responds, Unsupported, Responses,
            Rejections
<1>1. CASE family = "rack_pdu"
  BY <1>1, Signatures
<1>2. CASE family = "smt_ups"
  BY <1>2, Signatures
<1>3. CASE family = "smart_ups"
  BY <1>3, Signatures
<1>4. CASE family = "smartconnect_ups"
  BY <1>4, Signatures
<1>5. QED
  BY <1>1, <1>2, <1>3, <1>4 DEF DeviceOK, Concrete

LEMMA ClassifiedInFull ==
  ASSUME DeviceOK, NEW pr \in [Probes -> Outcomes \cup {None}],
         \A i \in 1 .. 5 : pr[SchemaProbes[i]] = answers[SchemaProbes[i]]
  PROVE  Classify(pr) = family
<1> USE DEF Classify, CoherentRackPdu, Responds, Unsupported, Responses,
            Rejections
<1>1. /\ pr["capabilities"] = answers["capabilities"]
      /\ pr["measurements"] = answers["measurements"]
      /\ pr["legacy"] = answers["legacy"] /\ pr["status"] = answers["status"]
      /\ pr["smt"] = answers["smt"]
  BY Numbers
<1>2. CASE family = "rack_pdu"
  BY <1>1, <1>2, Signatures
<1>3. CASE family = "smt_ups"
  BY <1>1, <1>3, Signatures
<1>4. CASE family = "smart_ups"
  BY <1>1, <1>4, Signatures
<1>5. CASE family = "smartconnect_ups"
  BY <1>1, <1>5, Signatures
<1>6. QED
  BY <1>2, <1>3, <1>4, <1>5 DEF DeviceOK, Concrete

(* The state of a detection is always well formed: no probe beyond the     *)
(* fifth, and no transport but one that the code can hold.                 *)
THEOREM DetectionTypeCorrect == Spec => []TypeOK
<1>1. DetectionInv => TypeOK
  BY DEF DetectionInv
<1>2. QED
  BY <1>1, DetectionInvariant, PTL

(* A UPS is never taken for a device of another family, however many       *)
(* requests the network loses, and neither is a Rack PDU unless at least   *)
(* four are lost: the probe that tells it, the second of five, is made     *)
(* again after itself and after each probe behind it.                      *)
THEOREM FourFaultsToMislead ==
  Spec => [](family # "rack_pdu" \/ MaxFaults - t.faults < 4
               => NeverTheWrongFamily)
<1>1. ASSUME DetectionInv, detected # None,
             family # "rack_pdu" \/ MaxFaults - t.faults < 4
      PROVE  detected = family
  <2>1. Finished /\ detected = Classify(probes) /\ DeviceOK
    BY <1>1 DEF DetectionInv, StageOK
  <2>2. probes \in [Probes -> Outcomes \cup {None}]
    BY <1>1 DEF DetectionInv, TypeOK
  <2>3. /\ probes["capabilities"] \in {answers["capabilities"], "failure"}
        /\ probes["legacy"] \in {answers["legacy"], "failure"}
        /\ probes["smt"] \in {answers["smt"], "failure"}
    BY <1>1, <2>1, OutcomesAtTheEnd, Numbers
  <2>4. MaxFaults \in Nat /\ t.faults \in Nat
    BY <1>1, DetectionAssumption DEF DetectionInv, TypeOK, Transport
  <2>5. MaxFaults - t.faults < 4 =>
          /\ ~(6 - 1 <= MaxFaults - t.faults)
          /\ ~(6 - 2 <= MaxFaults - t.faults)
    BY <2>4
  <2>6. family = "rack_pdu" =>
          /\ probes["capabilities"] = answers["capabilities"]
          /\ probes["measurements"] = answers["measurements"]
    BY <1>1, <2>1, <2>5, OutcomesAtTheEnd, Numbers
  <2>7. Classify(probes) \in {family, None}
    BY <2>1, <2>2, <2>3, <2>6, ClassifiedRight
  <2>8. QED
    BY <1>1, <2>1, <2>7
<1>2. DetectionInv =>
        (family # "rack_pdu" \/ MaxFaults - t.faults < 4 => NeverTheWrongFamily)
  BY <1>1 DEF NeverTheWrongFamily
<1>3. QED
  BY <1>2, DetectionInvariant, PTL

(* So with no more than three lost requests no device at all is taken for  *)
(* one of another family.                                                  *)
THEOREM FamilyNeverWrong ==
  ASSUME MaxFaults <= 3
  PROVE  Spec => []NeverTheWrongFamily
<1>1. DetectionInv => MaxFaults - t.faults < 4
  BY DetectionAssumption DEF DetectionInv, TypeOK, Transport
<1>2. (family # "rack_pdu" \/ MaxFaults - t.faults < 4 => NeverTheWrongFamily)
        /\ DetectionInv => NeverTheWrongFamily
  BY <1>1
<1>3. QED
  BY <1>2, DetectionInvariant, FourFaultsToMislead, PTL

(* While the network loses nothing, every device that the signatures cover *)
(* is recognised by one detection, whatever became of the kept connection  *)
(* and however many connections the device allows.                         *)
THEOREM EveryDeviceFound == Spec => []FamilyFound
<1>1. ASSUME DetectionInv, Finished, t.faults = MaxFaults
      PROVE  detected = family
  <2>1. detected = Classify(probes) /\ DeviceOK
    BY <1>1 DEF DetectionInv, StageOK
  <2>2. probes \in [Probes -> Outcomes \cup {None}]
    BY <1>1 DEF DetectionInv, TypeOK
  <2>3. \A i \in 1 .. 5 : ~(6 - i <= MaxFaults - t.faults)
    BY <1>1, DetectionAssumption
  <2>4. \A i \in 1 .. 5 : probes[SchemaProbes[i]] = answers[SchemaProbes[i]]
    BY <1>1, <2>3, OutcomesAtTheEnd
  <2>5. QED
    BY <2>1, <2>2, <2>4, ClassifiedInFull
<1>2. DetectionInv => FamilyFound
  BY <1>1 DEF FamilyFound
<1>3. QED
  BY <1>2, DetectionInvariant, PTL

(* Only a device that serves one request per connection, or that drops the *)
(* connection at a probe, and a disturbed connection lead a detection to   *)
(* give up the session.                                                    *)
THEOREM AnsweringSessionKept == Spec => SessionKept
<1> DEFINE Lost == t.mode = Session /\ t'.mode = OneRequest
           Cause == \/ t.constrained
                    \/ disturbed'
                    \/ \E p \in Probes : answers[p] = "failure"
<1>1. ASSUME DetectionInv, [Next]_vars, Lost PROVE Cause
  <2>1. t \in Transport /\ Session # OneRequest /\ t'.mode # t.mode
    BY <1>1 DEF DetectionInv, TypeOK, Session, OneRequest
  <2>2. ASSUME NEW p \in Probes, Ask(p), stage \in {"probe", "retry"}
        PROVE  Cause
    <3>1. PICK out \in {answers[p], "failure"} :
            /\ disturbed => disturbed'
            /\ t'.faults # t.faults => disturbed'
            /\ t.mode = Session /\ t'.mode = OneRequest => out = "failure"
            /\ out # answers[p] /\ t'.faults = t.faults =>
                 t.sock = "dead" \/ (t.sock = "used" /\ t.constrained)
      BY <1>1, <2>2, AskEnds
    <3>2. t.sock = "dead" => disturbed
      BY <1>1 DEF DetectionInv, ConnectionOK
    <3>3. CASE answers[p] = "failure"
      BY <3>3
    <3>4. CASE answers[p] # "failure"
      <4>1. out # answers[p]
        BY <1>1, <3>1, <3>4
      <4>2. QED
        BY <3>1, <3>2, <4>1
    <3>5. QED
      BY <3>3, <3>4
  <2>3. CASE MakeProbe
    <3>1. stage = "probe" /\ Ask(SchemaProbes[probe]) /\ probe \in 1 .. 5
      BY <1>1, <2>3, TheProbes DEF MakeProbe, DetectionInv, TypeOK
    <3>2. QED
      BY <2>2, <3>1, TheProbes
  <2>4. CASE Retry
    BY <1>1, <2>1, <2>4 DEF Retry, DetectionInv, ConnectionOK
  <2>5. CASE Connect
    <3> DEFINE kept == keep /\ t.mode = Session
    <3>1. PICK c \in EnsureConnections(t, kept) : t' = c.t
      BY <2>5 DEF Connect
    <3>2. kept \in BOOLEAN
      OBVIOUS
    <3> HIDE DEF kept
    <3>3. c.t.mode = t.mode
      BY <2>1, <3>2, EnsureEnds
    <3>4. QED
      BY <2>1, <3>1, <3>3
  <2>6. CASE Start \/ Finish \/ UNCHANGED vars
    BY <2>1, <2>6 DEF Start, Finish, vars
  <2>7. QED
    BY <1>1, <2>3, <2>4, <2>5, <2>6 DEF Next
<1>2. DetectionInv /\ [Next]_vars => [Lost => Cause]_vars
  BY <1>1
<1>3. Spec => [][Lost => Cause]_vars
  BY <1>2, DetectionInvariant, PTL DEF Spec
<1>4. QED
  BY <1>3 DEF SessionKept
=============================================================================
