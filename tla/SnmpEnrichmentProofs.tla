------------------------- MODULE SnmpEnrichmentProofs -------------------------
(***************************************************************************)
(* Proofs about SnmpEnrichment, for all probes and both intervals.  Each   *)
(* step either ends or goes on with the cycle (Continue), or leaves it     *)
(* where it is; the lemmas Merged and Published say what the first kind    *)
(* does, and EnrichmentInv is the inductive invariant.                     *)
(***************************************************************************)
EXTENDS SnmpEnrichment, TLAPS

Stages  == {"idle", "setup", "metadata", "detect", "probes", "self_test"}
Reads   == {"metadata", "detect", "probes", "self_test"}
Asked   == Features \cup Metadata \cup {SelfTest}
Queries == [at : Stages, asked : SUBSET Asked,
            reply : SUBSET (Asked \cup Waiting \cup Raised)]
Cycles  == [query : Queries, values : SUBSET (Features \cup {SelfTest}),
            age : 0 .. Minute]

(* A query asks what belongs to its stage, and is answered with no more    *)
(* than it asks.                                                           *)
QueryOK(q) ==
  /\ q.reply \in {Waiting, Raised} \/ q.reply \subseteq q.asked
  /\ q.at \in {"detect", "probes"} => q.asked \subseteq Features
  /\ q.at = "self_test" => q.asked = {SelfTest}

CycleOK ==
  /\ cycle \in Cycles
  /\ QueryOK(cycle.query)
  /\ cycle.query # NoQuery => SelfTest \notin cycle.values

(* Only setup waits in the stage "setup"; and only a loaded entry has a    *)
(* button.                                                                 *)
SetupOK ==
  /\ cycle.query.at = "setup" => entry = "setup"
  /\ entry # "loaded" => ~owed /\ ~retry

(* A self-test value is no older than its age says, and new as long as its *)
(* answer is not handled.                                                  *)
SelfTestOK ==
  /\ selfTest # {} => silence <= selfTestAge
  /\ SelfTest \in cycle.query.reply => silence = 0

EnrichmentInv ==
  /\ TypeOK /\ CycleOK /\ SetupOK /\ SelfTestOK
  /\ RetryRemembered /\ ProbeEntities

(* How a cycle goes on: it has ended, or it waits for a query that is only *)
(* begun while SNMP is not unavailable.                                    *)
GoesOn(m) ==
  /\ m \in Cycles
  /\ QueryOK(m.query) /\ m.query.reply = Waiting /\ m.query.at # "setup"
  /\ m.query # NoQuery => SelfTest \notin m.values /\ snmp' # "unavailable"

(* A self-test value in it is the fresh one of the cache.                  *)
FreshValue(m) == SelfTest \in m.values => SelfTestFresh /\ selfTest # {}

MergedOK(m) == GoesOn(m) /\ FreshValue(m)

-----------------------------------------------------------------------------
(* Queries that are just begun are well formed.                            *)
LEMMA NewQueries ==
  ASSUME NEW stage \in Stages, NEW asked \in SUBSET Asked,
         stage \in {"detect", "probes"} => asked \subseteq Features,
         stage = "self_test" => asked = {SelfTest}
  PROVE  /\ Query(stage, asked) \in Queries
         /\ Query(stage, asked).at = stage
         /\ Query(stage, asked).reply = Waiting
         /\ QueryOK(Query(stage, asked))
BY DEF Query, Queries, QueryOK

LEMMA NoQueryOK ==
  /\ NoQuery \in Queries /\ NoQuery.at = "idle" /\ NoQuery.reply = Waiting
  /\ QueryOK(NoQuery)
BY NewQueries DEF NoQuery, Stages

(* The last merge of a cycle, with the availability that it then finds.    *)
LEMMA SelfTestMerged ==
  ASSUME NEW c \in Cycles, SelfTest \notin c.values,
         selfTest \subseteq {SelfTest}
  PROVE  MergedOK(MergeSelfTest(c))
<1>1. CASE snmp' # "available"
  <2>1. MergeSelfTest(c) = [c EXCEPT !.query = NoQuery]
    BY <1>1 DEF MergeSelfTest
  <2>2. QED
    BY <2>1, NoQueryOK DEF MergedOK, GoesOn, FreshValue, Cycles
<1>2. CASE snmp' = "available" /\ SelfTestFresh
  <2>1. MergeSelfTest(c)
          = [c EXCEPT !.query = NoQuery, !.values = c.values \cup selfTest]
    BY <1>2 DEF MergeSelfTest, Cycles
  <2>2. QED
    BY <1>2, <2>1, NoQueryOK DEF MergedOK, GoesOn, FreshValue, Cycles
<1>3. CASE snmp' = "available" /\ ~SelfTestFresh
  <2> DEFINE q == Query("self_test", {SelfTest})
  <2>1. MergeSelfTest(c) = [c EXCEPT !.query = q, !.age = 0]
    BY <1>3 DEF MergeSelfTest
  <2>2. q \in Queries /\ q.at = "self_test" /\ q.reply = Waiting /\ QueryOK(q)
    BY NewQueries DEF Stages, Asked
  <2>3. 0 \in 0 .. Minute
    BY EnrichmentAssumption DEF EnrichmentAssumption
  <2> HIDE DEF q
  <2>4. QED
    BY <1>3, <2>1, <2>2, <2>3 DEF MergedOK, GoesOn, FreshValue, Cycles
<1>4. QED
  BY <1>1, <1>2, <1>3

(* Both merges.                                                            *)
LEMMA Merged ==
  ASSUME NEW c \in Cycles, SelfTest \notin c.values,
         selfTest \subseteq {SelfTest}, detection' \subseteq Features
  PROVE  MergedOK(MergeProbes(c))
<1> DEFINE asked == detection' \ c.values
           q     == Query("probes", asked)
<1>1. CASE snmp' # "available" \/ asked = {}
  BY <1>1, SelfTestMerged DEF MergeProbes
<1>2. CASE snmp' = "available" /\ asked # {}
  <2>1. MergeProbes(c) = [c EXCEPT !.query = q]
    BY <1>2 DEF MergeProbes
  <2>2. q \in Queries /\ q.at = "probes" /\ q.reply = Waiting /\ QueryOK(q)
    BY NewQueries DEF Stages, Asked
  <2> HIDE DEF q
  <2>3. QED
    BY <1>2, <2>1, <2>2 DEF MergedOK, GoesOn, FreshValue, Cycles
<1>3. QED
  BY <1>1, <1>2

-----------------------------------------------------------------------------
(* What publishing does: every probe that is available has its entity, and *)
(* has it once.                                                            *)
EntitiesOK ==
  /\ entry' \in {"setup", "first", "loaded"}
  /\ added' \in [Keys -> 0 .. 1] /\ registry' \subseteq Keys
  /\ entry' = "loaded" =>
       \A p \in Probes : ProbeAvailable(p) => added'[p] = 1

LEMMA Published ==
  ASSUME TypeOK, Publish
  PROVE  /\ EntitiesOK
         /\ entry' = IF entry = "first" THEN "loaded" ELSE entry
<1>1. CASE entry = "first"
  <2>1. SetUpEntities
    BY <1>1, Publish DEF Publish
  <2>2. Expected \subseteq Keys
    BY DEF Expected, Keys
  <2>3. \A p \in Probes : ProbeAvailable(p) => p \in Expected /\ p \in Keys
    BY DEF Expected, Keys
  <2>4. QED
    BY <1>1, <2>1, <2>2, <2>3 DEF SetUpEntities, EntitiesOK
<1>2. CASE entry # "first"
  <2> DEFINE new == {p \in Probes : added[p] = 0 /\ ProbeAvailable(p)}
  <2>1. /\ registry' = registry \cup new
        /\ added' = [k \in Keys |->
                       IF k \in new THEN added[k] + 1 ELSE added[k]]
        /\ entry' = entry
    BY <1>2, Publish DEF Publish, AddNewProbes
  <2>2. \A p \in Probes : p \in Keys
    BY DEF Keys
  <2>3. added' \in [Keys -> 0 .. 1]
    <3>1. \A k \in new : added[k] = 0
      OBVIOUS
    <3> HIDE DEF new
    <3>2. \A k \in Keys : added[k] \in 0 .. 1
      BY DEF TypeOK
    <3>3. \A k \in Keys :
            (IF k \in new THEN added[k] + 1 ELSE added[k]) \in 0 .. 1
      BY <3>1, <3>2
    <3>4. QED
      BY <2>1, <3>3
  <2>4. \A p \in Probes : ProbeAvailable(p) => added'[p] = 1
    <3> SUFFICES ASSUME NEW p \in Probes, ProbeAvailable(p) PROVE added'[p] = 1
      OBVIOUS
    <3>1. added[p] \in {0, 1} /\ p \in Keys
      BY <2>2 DEF TypeOK
    <3>2. added'[p] = IF added[p] = 0 THEN added[p] + 1 ELSE added[p]
      BY <2>1, <3>1
    <3>3. QED
      BY <3>1, <3>2
  <2>5. QED
    BY <1>2, <2>1, <2>2, <2>3, <2>4 DEF EntitiesOK, TypeOK
<1>3. QED
  BY <1>1, <1>2

-----------------------------------------------------------------------------
(* The steps of the event loop in which a cycle goes on.                   *)
LEMMA FreshCycle ==
  ASSUME NEW values \in SUBSET {Frequency}
  PROVE  /\ [Begun EXCEPT !.values = values] \in Cycles
         /\ SelfTest \notin [Begun EXCEPT !.values = values].values
<1>1. 0 \in 0 .. Minute
  BY EnrichmentAssumption DEF EnrichmentAssumption
<1>2. Begun = [query |-> NoQuery, values |-> {}, age |-> 0]
  BY DEF Begun
<1>3. values \subseteq Features /\ SelfTest \notin values
  BY DEF Features, SelfTest, Frequency
<1>4. QED
  BY <1>1, <1>2, <1>3, NoQueryOK DEF Cycles

LEMMA BeginCycleGoesOn ==
  ASSUME EnrichmentInv, BeginCycle
  PROVE  \E m \in Cycles : MergedOK(m) /\ Continue(m)
<1> DEFINE Fresh(values) == [Begun EXCEPT !.values = values]
           q == Query("metadata", Metadata)
<1>1. PICK values \in SUBSET {Frequency} :
        Continue(IF MetadataDue THEN [Fresh(values) EXCEPT !.query = q]
                 ELSE MergeProbes(Fresh(values)))
  BY DEF BeginCycle
<1>2. Fresh(values) \in Cycles /\ SelfTest \notin Fresh(values).values
  BY FreshCycle
<1>3. UNCHANGED enrichment /\ detection \subseteq Features
      /\ selfTest \subseteq {SelfTest}
  BY DEF BeginCycle, EnrichmentInv, TypeOK
<1> HIDE DEF Fresh
<1>4. CASE MetadataDue
  <2>1. q \in Queries /\ q.at = "metadata" /\ q.reply = Waiting /\ QueryOK(q)
    BY NewQueries DEF Stages, Asked
  <2> HIDE DEF q
  <2>2. snmp' # "unavailable"
    BY <1>3, <1>4 DEF MetadataDue, enrichment
  <2>3. MergedOK([Fresh(values) EXCEPT !.query = q])
    BY <1>2, <2>1, <2>2 DEF MergedOK, GoesOn, FreshValue, Cycles
  <2>4. Continue([Fresh(values) EXCEPT !.query = q])
    BY <1>1, <1>4
  <2>5. QED
    BY <2>3, <2>4 DEF MergedOK, GoesOn
<1>5. CASE ~MetadataDue
  <2>1. detection' \subseteq Features
    BY <1>3 DEF enrichment
  <2>2. MergedOK(MergeProbes(Fresh(values)))
    BY <1>2, <1>3, <2>1, Merged
  <2>3. Continue(MergeProbes(Fresh(values)))
    BY <1>1, <1>5
  <2>4. QED
    BY <2>2, <2>3 DEF MergedOK, GoesOn
<1>6. QED
  BY <1>4, <1>5

(* A cycle that waits has no self-test value yet.                          *)
LEMMA WaitingCycle ==
  ASSUME EnrichmentInv, NEW stage \in Stages \ {"idle"},
         Answered(cycle.query, stage)
  PROVE  /\ cycle \in Cycles /\ SelfTest \notin cycle.values
         /\ cycle.query \in Queries /\ QueryOK(cycle.query)
         /\ cycle.query.reply = Raised
            \/ cycle.query.reply \subseteq cycle.query.asked
<1>1. cycle.query # NoQuery
  BY NoQueryOK DEF Answered
<1>2. QED
  BY <1>1 DEF EnrichmentInv, CycleOK, QueryOK, Answered, Cycles

LEMMA MetadataGoesOn ==
  ASSUME EnrichmentInv, FinishMetadata, ~Usable(cycle.query.reply)
  PROVE  \E m \in Cycles : MergedOK(m) /\ Continue(m)
<1>1. Unavailable /\ Continue(MergeProbes(cycle))
  BY DEF FinishMetadata
<1>2. cycle \in Cycles /\ SelfTest \notin cycle.values
  BY WaitingCycle DEF FinishMetadata, Stages
<1>3. MergedOK(MergeProbes(cycle))
  BY <1>1, <1>2, Merged DEF Unavailable, EnrichmentInv, TypeOK
<1>4. QED
  BY <1>1, <1>3 DEF MergedOK, GoesOn

LEMMA DetectionGoesOn ==
  ASSUME EnrichmentInv, FinishDetection
  PROVE  /\ detection' \subseteq Features
         /\ \E m \in Cycles : MergedOK(m) /\ Continue(m)
<1>1. /\ cycle \in Cycles /\ SelfTest \notin cycle.values
      /\ QueryOK(cycle.query) /\ cycle.query.at = "detect"
      /\ cycle.query.reply = Raised
         \/ cycle.query.reply \subseteq cycle.query.asked
  BY WaitingCycle DEF FinishDetection, Stages, Answered
<1>2. detection' \subseteq Features
  BY <1>1 DEF FinishDetection, QueryOK, EnrichmentInv, TypeOK
<1>3. MergedOK(MergeProbes(cycle))
  BY <1>1, <1>2, Merged DEF EnrichmentInv, TypeOK
<1>4. QED
  BY <1>2, <1>3 DEF MergedOK, GoesOn, FinishDetection

LEMMA ProbesGoOn ==
  ASSUME EnrichmentInv, FinishProbes
  PROVE  \E m \in Cycles : MergedOK(m) /\ Continue(m)
<1> DEFINE read == cycle.query.reply \ Raised
           c    == [cycle EXCEPT !.values = cycle.values \cup read]
<1>1. /\ cycle \in Cycles /\ SelfTest \notin cycle.values
      /\ QueryOK(cycle.query) /\ cycle.query.at = "probes"
      /\ cycle.query.reply = Raised
         \/ cycle.query.reply \subseteq cycle.query.asked
  BY WaitingCycle DEF FinishProbes, Stages, Answered
<1>2. read \subseteq Features
  BY <1>1 DEF QueryOK
<1>3. SelfTest \notin Features
  BY EnrichmentAssumption DEF EnrichmentAssumption, Features, SelfTest,
                             Frequency
<1>4. c \in Cycles /\ SelfTest \notin c.values
  <2> HIDE DEF read
  <2>1. QED
    BY <1>1, <1>2, <1>3 DEF Cycles
<1>5. Continue(MergeSelfTest(c))
  BY DEF FinishProbes
<1>6. MergedOK(MergeSelfTest(c))
  <2> HIDE DEF c
  <2>1. QED
    BY <1>4, SelfTestMerged DEF EnrichmentInv, TypeOK
<1>7. QED
  BY <1>5, <1>6 DEF MergedOK, GoesOn

LEMMA SelfTestGoesOn ==
  ASSUME EnrichmentInv, FinishSelfTest
  PROVE  /\ selfTest' \subseteq {SelfTest} /\ selfTestAge' \in 0 .. Minute
         /\ selfTest' # {} => silence <= selfTestAge'
         /\ \E m \in Cycles : GoesOn(m) /\ Continue(m)
<1> DEFINE m == [cycle EXCEPT !.query = NoQuery, !.age = 0,
                             !.values = cycle.values \cup selfTest']
<1>1. /\ cycle \in Cycles /\ cycle.query.at = "self_test"
      /\ QueryOK(cycle.query)
      /\ cycle.query.reply = Raised
         \/ cycle.query.reply \subseteq cycle.query.asked
  BY WaitingCycle DEF FinishSelfTest, Stages, Answered
<1>2. /\ selfTest \subseteq {SelfTest} /\ selfTestAge \in 0 .. Minute
      /\ silence \in 0 .. Minute /\ SelfTestOK
  BY DEF EnrichmentInv, TypeOK
<1> DEFINE typed == /\ selfTest' \subseteq {SelfTest}
                    /\ selfTestAge' \in 0 .. Minute
                    /\ selfTest' # {} => silence <= selfTestAge'
<1>3. ASSUME cycle.query.reply = Raised PROVE typed
  BY <1>2, <1>3 DEF FinishSelfTest, SelfTestOK
<1>4. ASSUME cycle.query.reply # Raised PROVE typed
  <2>1. selfTest' = cycle.query.reply /\ selfTestAge' = cycle.age
    BY <1>4 DEF FinishSelfTest
  <2>2. selfTest' \subseteq {SelfTest}
    BY <1>1, <1>4, <2>1 DEF QueryOK
  <2>3. selfTestAge' \in 0 .. Minute
    BY <1>1, <2>1 DEF Cycles
  <2>4. selfTest' # {} => silence = 0
    BY <1>2, <2>1, <2>2 DEF SelfTestOK
  <2>5. QED
    BY <2>2, <2>3, <2>4
<1>5. typed
  BY <1>3, <1>4
<1>6. 0 \in 0 .. Minute
  BY EnrichmentAssumption DEF EnrichmentAssumption
<1>7. GoesOn(m)
  BY <1>1, <1>5, <1>6, NoQueryOK DEF GoesOn, Cycles
<1>8. Continue(m)
  BY DEF FinishSelfTest
<1>9. QED
  BY <1>5, <1>7, <1>8 DEF GoesOn

-----------------------------------------------------------------------------
(* A step in which a cycle goes on preserves the invariant, if it leaves   *)
(* types as they are and owes no more than before.                         *)
LEMMA GoingOnPreserves ==
  ASSUME EnrichmentInv, NEW m \in Cycles, GoesOn(m), Continue(m),
         UNCHANGED <<world, retry, silence>>,
         snmp' \in {"unknown", "available", "unavailable"},
         detection' \subseteq Features,
         needsRefresh' \in BOOLEAN, metadataAge' \in 0 .. Hour,
         selfTest' \subseteq {SelfTest}, selfTestAge' \in 0 .. Minute,
         selfTest' # {} => silence <= selfTestAge',
         owed' \in BOOLEAN, owed' => owed,
         owed' => snmp' = "available" /\ needsRefresh'
  PROVE  EnrichmentInv'
<1>1. /\ TypeOK /\ CycleOK /\ SetupOK /\ SelfTestOK
      /\ RetryRemembered /\ ProbeEntities
  BY DEF EnrichmentInv
<1>2. cycle' = m
  BY DEF Continue
<1>3. /\ entry' \in {"setup", "first", "loaded"}
      /\ added' \in [Keys -> 0 .. 1] /\ registry' \subseteq Keys
      /\ entry' # "loaded" => entry # "loaded"
      /\ entry' = "loaded" /\ m.query = NoQuery =>
           \A p \in Probes : ProbeAvailable(p) => added'[p] = 1
  <2>1. CASE m.query = NoQuery
    BY <1>1, <2>1, Published DEF Continue, EntitiesOK
  <2>2. CASE m.query # NoQuery
    BY <1>1, <2>2 DEF Continue, entities, TypeOK
  <2>3. QED
    BY <2>1, <2>2
<1>4. TypeOK'
  BY <1>1, <1>2, <1>3 DEF TypeOK, GoesOn, Cycles, world
<1>5. CycleOK'
  BY <1>2 DEF CycleOK, GoesOn
<1>6. SetupOK'
  <2>1. cycle'.query.at # "setup"
    BY <1>2 DEF GoesOn
  <2>2. entry' # "loaded" => ~owed' /\ ~retry'
    BY <1>1, <1>3, Zenon DEF SetupOK
  <2>3. QED
    BY <2>1, <2>2 DEF SetupOK
<1>7. SelfTestOK'
  <2>1. SelfTest \notin Waiting
    BY DEF SelfTest, Waiting
  <2>2. QED
    BY <1>2, <2>1 DEF SelfTestOK, GoesOn
<1>8. RetryRemembered'
  BY DEF RetryRemembered
<1>9. ProbeEntities'
  <2> SUFFICES ASSUME entry' = "loaded", NEW p \in Probes
               PROVE  /\ added'[p] <= 1
                      /\ Idle' /\ p \in cycle'.values \cup detection'
                         => added'[p] = 1
    BY DEF ProbeEntities
  <2>1. added'[p] \in 0 .. 1
    BY <1>3 DEF Keys
  <2>2. QED
    BY <1>2, <1>3, <2>1 DEF Idle, ProbeAvailable
<1>10. QED
  BY <1>4, <1>5, <1>6, <1>7, <1>8, <1>9 DEF EnrichmentInv

(* The steps of the device, of time and of the network.                    *)
LEMMA TickPreserves ==
  ASSUME EnrichmentInv, Tick
  PROVE  EnrichmentInv'
<1>1. /\ TypeOK /\ CycleOK /\ SetupOK /\ SelfTestOK
      /\ RetryRemembered /\ ProbeEntities
  BY DEF EnrichmentInv
<1>2. /\ metadataAge' \in 0 .. Hour /\ selfTestAge' \in 0 .. Minute
      /\ silence' \in 0 .. Minute
      /\ Older(cycle.age, Minute) \in 0 .. Minute
  BY <1>1, EnrichmentAssumption DEF EnrichmentAssumption, Tick, Older, TypeOK
<1>3. silence <= selfTestAge => silence' <= selfTestAge'
  BY <1>1, EnrichmentAssumption DEF EnrichmentAssumption, Tick, Older, TypeOK
<1>4. /\ cycle' \in Cycles /\ cycle'.query = cycle.query
      /\ cycle'.values = cycle.values
  <2> DEFINE age == Older(cycle.age, Minute)
  <2> HIDE DEF age
  <2>1. cycle' = IF cycle.query.at = "self_test"
                 THEN [cycle EXCEPT !.age = age] ELSE cycle
    <3>1. CASE cycle.query.at = "self_test"
      BY <1>1, <3>1 DEF Tick, age, CycleOK, Cycles
    <3>2. CASE cycle.query.at # "self_test"
      BY <3>2 DEF Tick
    <3>3. QED
      BY <3>1, <3>2
  <2>2. age \in 0 .. Minute /\ cycle \in Cycles
    BY <1>1, <1>2 DEF age, CycleOK
  <2>3. QED
    BY <2>1, <2>2 DEF Cycles
<1>5. UNCHANGED <<world, snmp, detection, needsRefresh, selfTest, retry,
                  entities, owed>>
  BY DEF Tick
<1>6. TypeOK'
  BY <1>1, <1>2, <1>4, <1>5 DEF TypeOK, Cycles, world, entities
<1>7. CycleOK' /\ SetupOK'
  BY <1>1, <1>4, <1>5 DEF CycleOK, SetupOK, entities
<1>8. SelfTestOK'
  <2>1. SelfTest \notin cycle.query.reply
    BY DEF Tick, SelfTest, Waiting
  <2>2. QED
    BY <1>1, <1>3, <1>4, <1>5, <2>1 DEF SelfTestOK
<1>9. RetryRemembered' /\ ProbeEntities'
  BY <1>1, <1>4, <1>5 DEF RetryRemembered, ProbeEntities, Idle, entities
<1>10. QED
  BY <1>6, <1>7, <1>8, <1>9 DEF EnrichmentInv

LEMMA AnswerPreserves ==
  ASSUME EnrichmentInv, Answer
  PROVE  EnrichmentInv'
<1>1. /\ TypeOK /\ CycleOK /\ SetupOK /\ SelfTestOK
      /\ RetryRemembered /\ ProbeEntities
  BY DEF EnrichmentInv
<1>2. PICK reply \in Replies(cycle.query.asked) :
        /\ cycle' = [cycle EXCEPT !.query.reply = reply]
        /\ silence' = IF SelfTest \in reply THEN 0 ELSE silence
  BY DEF Answer
<1>3. reply = Raised \/ reply \subseteq cycle.query.asked
  BY <1>2 DEF Replies
<1>4. /\ cycle.query \in Queries /\ cycle \in Cycles
      /\ cycle.query # NoQuery
  BY <1>1, NoQueryOK DEF CycleOK, Cycles, Answer
<1>5. reply \in SUBSET (Asked \cup Waiting \cup Raised)
  BY <1>3, <1>4 DEF Queries
<1>6. /\ cycle' \in Cycles
      /\ cycle'.query = [cycle.query EXCEPT !.reply = reply]
      /\ cycle'.values = cycle.values /\ cycle'.age = cycle.age
  BY <1>2, <1>4, <1>5 DEF Cycles, Queries
<1>7. /\ cycle'.query.at = cycle.query.at
      /\ cycle'.query.asked = cycle.query.asked
      /\ cycle'.query.reply = reply
  BY <1>4, <1>6 DEF Queries
<1>8. ~Idle'
  BY <1>7, NoQueryOK DEF Idle, Answer
<1>9. UNCHANGED <<world, enrichment, retry, entities, owed>>
  BY DEF Answer
<1>10. TypeOK'
  <2>1. silence' \in 0 .. Minute
    BY <1>1, <1>2, EnrichmentAssumption DEF TypeOK, EnrichmentAssumption
  <2>2. QED
    BY <1>1, <1>6, <1>9, <2>1 DEF TypeOK, world, enrichment, entities
<1>11. CycleOK'
  BY <1>1, <1>3, <1>4, <1>6, <1>7 DEF CycleOK, QueryOK
<1>12. SetupOK'
  BY <1>1, <1>7, <1>9 DEF SetupOK, entities
<1>13. SelfTestOK'
  BY <1>1, <1>2, <1>7, <1>9, EnrichmentAssumption
     DEF SelfTestOK, TypeOK, enrichment, EnrichmentAssumption
<1>14. RetryRemembered' /\ ProbeEntities'
  BY <1>1, <1>8, <1>9 DEF RetryRemembered, ProbeEntities, enrichment, entities
<1>15. QED
  BY <1>10, <1>11, <1>12, <1>13, <1>14 DEF EnrichmentInv

(* Setups, retries and the metadata that a cycle has got.                  *)
LEMMA RefreshedPreserves ==
  ASSUME EnrichmentInv, Answered(cycle.query, "metadata"), Refreshed(cycle),
         owed' = FALSE, UNCHANGED <<world, retry, silence>>
  PROVE  EnrichmentInv'
<1> DEFINE q == Query("detect", Features)
<1>1. /\ TypeOK /\ CycleOK /\ SetupOK /\ SelfTestOK
      /\ RetryRemembered /\ ProbeEntities
  BY DEF EnrichmentInv
<1>2. cycle \in Cycles /\ SelfTest \notin cycle.values
  BY WaitingCycle DEF Stages
<1>3. q \in Queries /\ q.at = "detect" /\ q.reply = Waiting /\ QueryOK(q)
  BY NewQueries DEF Stages, Asked
<1>4. cycle' = [cycle EXCEPT !.query = q]
  BY DEF Refreshed
<1> HIDE DEF q
<1>5. /\ cycle' \in Cycles /\ cycle'.query = q
      /\ cycle'.values = cycle.values /\ cycle'.age = cycle.age
  BY <1>2, <1>3, <1>4 DEF Cycles
<1>6. /\ snmp' = "available" /\ needsRefresh' \in BOOLEAN
      /\ metadataAge' \in 0 .. Hour
      /\ UNCHANGED <<detection, selfTest, selfTestAge, entities>>
  <2>1. 0 \in 0 .. Hour
    BY EnrichmentAssumption DEF EnrichmentAssumption
  <2>2. snmp' = "available" /\ needsRefresh' = FALSE /\ metadataAge' = 0
        /\ UNCHANGED <<detection, selfTest, selfTestAge, entities>>
    BY DEF Refreshed
  <2>3. QED
    BY <2>1, <2>2
<1>7. TypeOK'
  BY <1>1, <1>5, <1>6 DEF TypeOK, Cycles, world, entities
<1>8. CycleOK'
  BY <1>2, <1>3, <1>5 DEF CycleOK
<1>9. SetupOK'
  <2>1. cycle'.query.at # "setup"
    BY <1>3, <1>5
  <2>2. entry' # "loaded" => ~owed' /\ ~retry'
    <3>1. entry' = entry /\ retry' = retry /\ ~owed'
      BY <1>6 DEF entities
    <3>2. entry # "loaded" => ~retry
      BY <1>1 DEF SetupOK
    <3>3. QED
      BY <3>1, <3>2
  <2>3. QED
    BY <2>1, <2>2 DEF SetupOK
<1>10. SelfTestOK'
  BY <1>1, <1>3, <1>5, <1>6 DEF SelfTestOK, SelfTest, Waiting
<1>11. RetryRemembered'
  BY DEF RetryRemembered
<1>12. ProbeEntities'
  <2>1. ~Idle'
    BY <1>3, <1>5, NoQueryOK DEF Idle
  <2>2. QED
    BY <1>1, <1>6, <2>1 DEF ProbeEntities, entities
<1>13. QED
  BY <1>7, <1>8, <1>9, <1>10, <1>11, <1>12 DEF EnrichmentInv

(* Cycles of an entry whose setup has ended, and has begun.                *)
LEMMA SetupPreserves ==
  ASSUME EnrichmentInv, FinishSetup
  PROVE  EnrichmentInv'
<1>1. /\ TypeOK /\ CycleOK /\ SetupOK /\ SelfTestOK
      /\ RetryRemembered /\ ProbeEntities
  BY DEF EnrichmentInv
<1>2. entry = "setup" /\ ~owed /\ ~retry
  <2>1. entry = "setup"
    BY <1>1 DEF FinishSetup, Answered, SetupOK
  <2>2. QED
    BY <1>1, <2>1, Zenon DEF SetupOK
<1>3. /\ snmp' \in {"available", "unavailable"}
      /\ detection' \subseteq Features
      /\ entry' = "first" /\ cycle' = Begun
      /\ UNCHANGED <<world, needsRefresh, metadataAge, selfTest, selfTestAge,
                     retry, added, registry, silence, owed>>
  BY <1>1 DEF FinishSetup, Unavailable, TypeOK
<1>4. /\ cycle' \in Cycles /\ cycle'.query = NoQuery /\ cycle'.values = {}
      /\ cycle'.age \in 0 .. Minute
  <2>1. 0 \in 0 .. Minute
    BY EnrichmentAssumption DEF EnrichmentAssumption
  <2>2. QED
    BY <1>3, <2>1, NoQueryOK DEF Begun, Cycles
<1>5. TypeOK'
  BY <1>1, <1>3, <1>4 DEF TypeOK, world
<1>6. CycleOK'
  BY <1>4, NoQueryOK DEF CycleOK
<1>7. SetupOK'
  <2>1. ~owed' /\ ~retry'
    BY <1>2, <1>3, Zenon
  <2>2. QED
    BY <1>4, <2>1, NoQueryOK DEF SetupOK
<1>8. SelfTestOK'
  BY <1>1, <1>3, <1>4, NoQueryOK DEF SelfTestOK, SelfTest, Waiting
<1>9. RetryRemembered' /\ ProbeEntities'
  BY <1>2, <1>3 DEF RetryRemembered, ProbeEntities
<1>10. QED
  BY <1>5, <1>6, <1>7, <1>8, <1>9 DEF EnrichmentInv

LEMMA SetupAgainPreserves ==
  ASSUME EnrichmentInv, SetupAgain
  PROVE  EnrichmentInv'
<1> DEFINE q == Query("setup", Metadata)
<1>1. TypeOK
  BY DEF EnrichmentInv
<1>2. /\ entry' = "setup" /\ retry' = FALSE /\ owed' = FALSE
      /\ snmp' = "unknown" /\ detection' = {} /\ needsRefresh' = TRUE
      /\ metadataAge' = Hour /\ selfTest' = {} /\ selfTestAge' = Minute
      /\ silence' = Minute /\ added' = [k \in Keys |-> 0]
      /\ UNCHANGED <<world, registry>>
      /\ cycle' = [Begun EXCEPT !.query = q]
  BY DEF SetupAgain, FreshCoordinator
<1>3. q \in Queries /\ q.at = "setup" /\ q.reply = Waiting /\ QueryOK(q)
  BY NewQueries DEF Stages, Asked
<1>4. /\ 0 \in 0 .. Minute /\ Minute \in 0 .. Minute /\ Hour \in 0 .. Hour
      /\ Minute <= Minute
  BY EnrichmentAssumption DEF EnrichmentAssumption
<1> HIDE DEF q
<1>5. /\ cycle' \in Cycles /\ cycle'.query = q /\ cycle'.values = {}
      /\ cycle'.age = 0
  BY <1>2, <1>3, <1>4, NoQueryOK DEF Begun, Cycles
<1>6. TypeOK'
  <2>1. added' \in [Keys -> 0 .. 1]
    BY <1>2
  <2>2. present' = present /\ good' = good /\ registry' = registry
    BY <1>2 DEF world
  <2>3. retry' \in BOOLEAN /\ owed' \in BOOLEAN /\ needsRefresh' \in BOOLEAN
    BY <1>2
  <2>4. QED
    BY <1>1, <1>2, <1>4, <1>5, <2>1, <2>2, <2>3 DEF TypeOK
<1>7. CycleOK' /\ SetupOK' /\ SelfTestOK'
  BY <1>2, <1>3, <1>5 DEF CycleOK, SetupOK, SelfTestOK, SelfTest, Waiting
<1>8. RetryRemembered' /\ ProbeEntities'
  BY <1>2 DEF RetryRemembered, ProbeEntities
<1>9. QED
  BY <1>6, <1>7, <1>8 DEF EnrichmentInv

LEMMA RetryPreserves ==
  ASSUME EnrichmentInv, FinishRetry
  PROVE  EnrichmentInv'
<1>1. /\ TypeOK /\ CycleOK /\ SetupOK /\ SelfTestOK
      /\ RetryRemembered /\ ProbeEntities
  BY DEF EnrichmentInv
<1>2. /\ retry /\ retry' = FALSE
      /\ UNCHANGED <<world, selfTest, selfTestAge, cycle, entities, silence>>
  BY DEF FinishRetry
<1>3. /\ snmp' \in {"available", "unavailable"}
      /\ detection' \subseteq detection
      /\ needsRefresh' \in BOOLEAN /\ metadataAge' \in 0 .. Hour
      /\ owed' \in BOOLEAN
      /\ owed' => snmp' = "available" /\ needsRefresh'
  <2>1. CASE RetrySucceeds /\ owed' = TRUE
    BY <1>1, <2>1, EnrichmentAssumption
       DEF RetrySucceeds, TypeOK, EnrichmentAssumption
  <2>2. CASE Unavailable /\ UNCHANGED <<needsRefresh, metadataAge>>
             /\ owed' = FALSE
    BY <1>1, <2>2 DEF Unavailable, TypeOK
  <2>3. QED
    BY <2>1, <2>2 DEF FinishRetry
<1>4. entry = "loaded"
  BY <1>1, <1>2, Zenon DEF SetupOK
<1>5. TypeOK'
  BY <1>1, <1>2, <1>3 DEF TypeOK, world, entities
<1>6. CycleOK' /\ SelfTestOK'
  BY <1>1, <1>2 DEF CycleOK, SelfTestOK
<1>7. SetupOK' /\ RetryRemembered'
  BY <1>1, <1>2, <1>3, <1>4 DEF SetupOK, RetryRemembered, entities
<1>8. ProbeEntities'
  BY <1>1, <1>2, <1>3 DEF ProbeEntities, Idle, entities
<1>9. QED
  BY <1>5, <1>6, <1>7, <1>8 DEF EnrichmentInv

-----------------------------------------------------------------------------
(* The invariant holds at first, and every step preserves it.              *)
LEMMA InvAtFirst == Init => EnrichmentInv
<1> SUFFICES ASSUME Init PROVE EnrichmentInv
  OBVIOUS
<1> DEFINE q == Query("setup", Metadata)
<1>1. /\ entry = "setup" /\ retry = FALSE /\ owed = FALSE
      /\ snmp = "unknown" /\ detection = {} /\ needsRefresh = TRUE
      /\ metadataAge = Hour /\ selfTest = {} /\ selfTestAge = Minute
      /\ silence = Minute /\ added = [k \in Keys |-> 0] /\ registry = {}
      /\ present \subseteq Features /\ good \in BOOLEAN
      /\ cycle = [Begun EXCEPT !.query = q]
  BY DEF Init
<1>2. q \in Queries /\ q.at = "setup" /\ q.reply = Waiting /\ QueryOK(q)
  BY NewQueries DEF Stages, Asked
<1>3. 0 \in 0 .. Minute /\ Minute \in 0 .. Minute /\ Hour \in 0 .. Hour
  BY EnrichmentAssumption DEF EnrichmentAssumption
<1> HIDE DEF q
<1>4. /\ cycle \in Cycles /\ cycle.query = q /\ cycle.values = {}
      /\ cycle.age = 0
  BY <1>1, <1>2, <1>3, NoQueryOK DEF Begun, Cycles
<1>5. TypeOK
  <2>1. added \in [Keys -> 0 .. 1]
    BY <1>1
  <2>2. retry \in BOOLEAN /\ owed \in BOOLEAN /\ needsRefresh \in BOOLEAN
    BY <1>1
  <2>3. QED
    BY <1>1, <1>3, <1>4, <2>1, <2>2 DEF TypeOK
<1>6. CycleOK /\ SetupOK /\ SelfTestOK
  BY <1>1, <1>2, <1>4 DEF CycleOK, SetupOK, SelfTestOK, SelfTest, Waiting
<1>7. RetryRemembered /\ ProbeEntities
  BY <1>1 DEF RetryRemembered, ProbeEntities
<1>8. QED
  BY <1>5, <1>6, <1>7 DEF EnrichmentInv

(* The world may change, and the button be pressed, at any time.           *)
LEMMA OutsidePreserves ==
  ASSUME EnrichmentInv, Change \/ Flap \/ Press \/ UNCHANGED vars
  PROVE  EnrichmentInv'
<1>1. /\ TypeOK /\ CycleOK /\ SetupOK /\ SelfTestOK
      /\ RetryRemembered /\ ProbeEntities
  BY DEF EnrichmentInv
<1>2. UNCHANGED <<enrichment, cycle, entities, silence, owed>>
  BY DEF Change, Flap, Press, vars
<1>3. /\ present' \subseteq Features /\ good' \in BOOLEAN /\ retry' \in BOOLEAN
  BY <1>1 DEF Change, Flap, Press, vars, world, TypeOK
<1>4. retry' = retry \/ entry = "loaded"
  BY DEF Change, Flap, Press, vars
<1>5. TypeOK'
  BY <1>1, <1>2, <1>3 DEF TypeOK, enrichment, entities
<1>6. CycleOK' /\ SelfTestOK'
  BY <1>1, <1>2 DEF CycleOK, SelfTestOK, enrichment
<1>7. SetupOK'
  BY <1>1, <1>2, <1>3, <1>4 DEF SetupOK, entities
<1>8. RetryRemembered' /\ ProbeEntities'
  BY <1>1, <1>2 DEF RetryRemembered, ProbeEntities, Idle, enrichment, entities
<1>9. QED
  BY <1>5, <1>6, <1>7, <1>8 DEF EnrichmentInv

LEMMA BeginCyclePreserves ==
  ASSUME EnrichmentInv, BeginCycle
  PROVE  EnrichmentInv'
<1>1. PICK m \in Cycles : GoesOn(m) /\ Continue(m)
  BY BeginCycleGoesOn DEF MergedOK
<1>2. UNCHANGED <<enrichment, world, retry, silence, owed>>
  BY DEF BeginCycle
<1>3. TypeOK /\ SelfTestOK /\ RetryRemembered
  BY DEF EnrichmentInv
<1>4. QED
  BY <1>1, <1>2, <1>3, GoingOnPreserves
     DEF enrichment, TypeOK, SelfTestOK, RetryRemembered

LEMMA MetadataPreserves ==
  ASSUME EnrichmentInv, FinishMetadata
  PROVE  EnrichmentInv'
<1>1. owed' = FALSE /\ UNCHANGED <<world, retry, silence>>
  BY DEF FinishMetadata
<1>2. ASSUME Usable(cycle.query.reply) PROVE EnrichmentInv'
  BY <1>1, <1>2, RefreshedPreserves DEF FinishMetadata
<1>3. ASSUME ~Usable(cycle.query.reply) PROVE EnrichmentInv'
  <2>1. PICK m \in Cycles : GoesOn(m) /\ Continue(m)
    BY <1>3, MetadataGoesOn DEF MergedOK
  <2>2. /\ snmp' = "unavailable" /\ detection' = {}
        /\ UNCHANGED <<needsRefresh, metadataAge, selfTest, selfTestAge>>
    BY <1>3 DEF FinishMetadata, Unavailable
  <2>3. TypeOK /\ SelfTestOK
    BY DEF EnrichmentInv
  <2>4. QED
    BY <1>1, <2>1, <2>2, <2>3, GoingOnPreserves DEF TypeOK, SelfTestOK
<1>4. QED
  BY <1>2, <1>3

LEMMA DetectionPreserves ==
  ASSUME EnrichmentInv, FinishDetection
  PROVE  EnrichmentInv'
<1>1. PICK m \in Cycles : GoesOn(m) /\ Continue(m)
  BY DetectionGoesOn DEF MergedOK
<1>2. /\ detection' \subseteq Features
      /\ UNCHANGED <<snmp, needsRefresh, metadataAge, selfTest, selfTestAge,
                     world, retry, silence, owed>>
  BY DetectionGoesOn DEF FinishDetection
<1>3. TypeOK /\ SelfTestOK /\ RetryRemembered
  BY DEF EnrichmentInv
<1>4. QED
  BY <1>1, <1>2, <1>3, GoingOnPreserves DEF TypeOK, SelfTestOK, RetryRemembered

LEMMA ProbesPreserve ==
  ASSUME EnrichmentInv, FinishProbes
  PROVE  EnrichmentInv'
<1>1. PICK m \in Cycles : GoesOn(m) /\ Continue(m)
  BY ProbesGoOn DEF MergedOK
<1>2. UNCHANGED <<enrichment, world, retry, silence, owed>>
  BY DEF FinishProbes
<1>3. TypeOK /\ SelfTestOK /\ RetryRemembered
  BY DEF EnrichmentInv
<1>4. QED
  BY <1>1, <1>2, <1>3, GoingOnPreserves
     DEF enrichment, TypeOK, SelfTestOK, RetryRemembered

LEMMA SelfTestPreserves ==
  ASSUME EnrichmentInv, FinishSelfTest
  PROVE  EnrichmentInv'
<1>1. PICK m \in Cycles : GoesOn(m) /\ Continue(m)
  BY SelfTestGoesOn
<1>2. /\ selfTest' \subseteq {SelfTest} /\ selfTestAge' \in 0 .. Minute
      /\ selfTest' # {} => silence <= selfTestAge'
  BY SelfTestGoesOn
<1>3. UNCHANGED <<snmp, detection, needsRefresh, metadataAge,
                  world, retry, silence, owed>>
  BY DEF FinishSelfTest
<1>4. TypeOK /\ RetryRemembered
  BY DEF EnrichmentInv
<1>5. QED
  BY <1>1, <1>2, <1>3, <1>4, GoingOnPreserves DEF TypeOK, RetryRemembered

LEMMA InvPreserved == EnrichmentInv /\ [Next]_vars => EnrichmentInv'
BY OutsidePreserves, TickPreserves, AnswerPreserves, BeginCyclePreserves,
   MetadataPreserves, DetectionPreserves, ProbesPreserve, SelfTestPreserves,
   SetupPreserves, SetupAgainPreserves, RetryPreserves
   DEF Next, Finish

LEMMA InvAlways == Spec => []EnrichmentInv
BY InvAtFirst, InvPreserved, PTL DEF Spec

-----------------------------------------------------------------------------
(* Every variable keeps its type, and an entity is added at most once.     *)
THEOREM EnrichmentTypeCorrect == Spec => []TypeOK
<1>1. EnrichmentInv => TypeOK
  BY DEF EnrichmentInv
<1>2. QED
  BY <1>1, InvAlways, PTL

(* A retry that succeeded is not forgotten before a detection has begun or *)
(* a query has failed (async_retry_snmp_metadata).                         *)
THEOREM RetryKept == Spec => []RetryRemembered
<1>1. EnrichmentInv => RetryRemembered
  BY DEF EnrichmentInv
<1>2. QED
  BY <1>1, InvAlways, PTL

(* When an update has been published, each probe that is available has its *)
(* entity, once (sensor.py:98-129).                                        *)
THEOREM OneEntityPerProbe == Spec => []ProbeEntities
<1>1. EnrichmentInv => ProbeEntities
  BY DEF EnrichmentInv
<1>2. QED
  BY <1>1, InvAlways, PTL

-----------------------------------------------------------------------------
(* While SNMP is unavailable no query of a cycle begins (README.md:209-210)*)
LEMMA GoingOnReads ==
  ASSUME NEW m \in Cycles, GoesOn(m), Continue(m), cycle'.query.at \in Reads
  PROVE  snmp' # "unavailable"
<1>1. cycle' = m
  BY DEF Continue
<1>2. m.query # NoQuery
  BY <1>1, NoQueryOK DEF Reads
<1>3. QED
  BY <1>2 DEF GoesOn

(* Once SNMP is unavailable no cycle goes on to another query              *)
(* (README.md:209-210).                                                    *)
THEOREM ReadsStopWithoutSnmp == Spec => RoutineReadsStop
<1>1. EnrichmentInv /\ [Next]_vars
        => [/\ cycle'.query.at \in Reads
            /\ cycle'.query.at # cycle.query.at
            => snmp' # "unavailable"]_vars
  <2> SUFFICES ASSUME EnrichmentInv, [Next]_vars, cycle'.query.at \in Reads,
                      cycle'.query.at # cycle.query.at
               PROVE  snmp' # "unavailable"
    OBVIOUS
  <2>1. CASE BeginCycle
    BY <2>1, BeginCycleGoesOn, GoingOnReads DEF MergedOK
  <2>2. CASE FinishMetadata
    <3>1. ASSUME Usable(cycle.query.reply) PROVE snmp' # "unavailable"
      BY <2>2, <3>1 DEF FinishMetadata, Refreshed
    <3>2. ASSUME ~Usable(cycle.query.reply) PROVE snmp' # "unavailable"
      BY <2>2, <3>2, MetadataGoesOn, GoingOnReads DEF MergedOK
    <3>3. QED
      BY <3>1, <3>2
  <2>3. CASE FinishDetection
    BY <2>3, DetectionGoesOn, GoingOnReads DEF MergedOK
  <2>4. CASE FinishProbes
    BY <2>4, ProbesGoOn, GoingOnReads DEF MergedOK
  <2>5. CASE FinishSelfTest
    BY <2>5, SelfTestGoesOn, GoingOnReads
  <2>6. CASE FinishSetup
    <3>1. cycle'.query = NoQuery
      BY <2>6 DEF FinishSetup, Begun
    <3>2. QED
      BY <3>1, NoQueryOK DEF Reads
  <2>7. CASE SetupAgain
    <3>1. snmp' = "unknown"
      BY <2>7 DEF SetupAgain, FreshCoordinator
    <3>2. QED
      BY <3>1
  <2>8. CASE Tick \/ Answer
    <3>1. cycle \in Cycles
      BY DEF EnrichmentInv, CycleOK
    <3>2. CASE Tick
      BY <3>1, <3>2 DEF Tick, Cycles, Queries
    <3>3. CASE Answer
      <4>1. PICK reply : cycle' = [cycle EXCEPT !.query.reply = reply]
        BY <3>3 DEF Answer
      <4>2. cycle'.query.at = cycle.query.at
        BY <3>1, <4>1 DEF Cycles, Queries
      <4>3. QED
        BY <4>2
    <3>4. QED
      BY <2>8, <3>2, <3>3
  <2>9. CASE Change \/ Flap \/ Press \/ FinishRetry \/ UNCHANGED vars
    BY <2>9 DEF Change, Flap, Press, FinishRetry, vars
  <2>10. QED
    BY <2>1, <2>2, <2>3, <2>4, <2>5, <2>6, <2>7, <2>8, <2>9 DEF Next, Finish
<1>2. QED
  BY <1>1, InvAlways, PTL DEF Spec, RoutineReadsStop, Reads

(* A published self-test value was answered within the last minute, unless *)
(* its query has just raised (coordinator.py:1061-1089).                   *)
LEMMA FreshValueShown ==
  ASSUME EnrichmentInv, NEW m \in Cycles, MergedOK(m), Continue(m),
         SelfTest \in cycle'.values
  PROVE  silence < Minute
<1>1. SelfTestFresh /\ selfTest # {}
  BY DEF Continue, MergedOK, FreshValue
<1>2. silence <= selfTestAge
  BY <1>1 DEF EnrichmentInv, SelfTestOK
<1>3. QED
  BY <1>1, <1>2, EnrichmentAssumption
     DEF SelfTestFresh, EnrichmentInv, TypeOK, EnrichmentAssumption

(* Cached self-test values are published for a minute at most              *)
(* (coordinator.py:1062), whatever happened to SNMP in between.            *)
THEOREM SelfTestIsFresh == Spec => StaleSelfTestNotShown
<1>1. EnrichmentInv /\ [Next]_vars
        => [/\ SelfTest \in cycle'.values /\ Idle' /\ cycle' # cycle
            /\ cycle.query.reply # Raised
            => silence < Minute]_vars
  <2> SUFFICES ASSUME EnrichmentInv, [Next]_vars, SelfTest \in cycle'.values,
                      Idle', cycle' # cycle, cycle.query.reply # Raised
               PROVE  silence < Minute
    OBVIOUS
  <2>1. CASE BeginCycle
    BY <2>1, BeginCycleGoesOn, FreshValueShown
  <2>2. CASE FinishMetadata
    <3>1. Usable(cycle.query.reply) => cycle'.query.at = "detect"
      <4>1. cycle \in Cycles
        BY DEF EnrichmentInv, CycleOK
      <4>2. Usable(cycle.query.reply)
              => cycle' = [cycle EXCEPT !.query = Query("detect", Features)]
        BY <2>2 DEF FinishMetadata, Refreshed
      <4>3. QED
        BY <4>1, <4>2 DEF Cycles, Query
    <3>2. ~Usable(cycle.query.reply)
      BY <3>1, NoQueryOK DEF Idle
    <3>3. QED
      BY <2>2, <3>2, MetadataGoesOn, FreshValueShown
  <2>3. CASE FinishDetection
    BY <2>3, DetectionGoesOn, FreshValueShown
  <2>4. CASE FinishProbes
    BY <2>4, ProbesGoOn, FreshValueShown
  <2>5. CASE FinishSelfTest
    <3>1. /\ cycle \in Cycles /\ SelfTest \notin cycle.values
      BY <2>5, WaitingCycle DEF FinishSelfTest, Stages
    <3>2. /\ selfTest' = cycle.query.reply
          /\ cycle' = [cycle EXCEPT !.query = NoQuery, !.age = 0,
                                    !.values = cycle.values \cup selfTest']
      BY <2>5 DEF FinishSelfTest, Continue
    <3>3. SelfTest \in cycle.query.reply
      BY <3>1, <3>2 DEF Cycles
    <3>4. QED
      BY <3>3, EnrichmentAssumption
         DEF EnrichmentInv, SelfTestOK, EnrichmentAssumption
  <2>6. CASE FinishSetup \/ SetupAgain
    <3>1. cycle'.values = {}
      BY <2>6 DEF FinishSetup, SetupAgain, Begun
    <3>2. QED
      BY <3>1
  <2>7. CASE Tick
    <3>1. cycle \in Cycles
      BY DEF EnrichmentInv, CycleOK
    <3>2. cycle.query.at = "self_test"
      BY <2>7 DEF Tick
    <3>3. cycle'.query.at = "self_test"
      BY <2>7, <3>1, <3>2 DEF Tick, Cycles
    <3>4. QED
      BY <3>3, NoQueryOK DEF Idle
  <2>8. CASE Answer
    <3>1. cycle \in Cycles
      BY DEF EnrichmentInv, CycleOK
    <3>2. PICK reply : cycle' = [cycle EXCEPT !.query.reply = reply]
      BY <2>8 DEF Answer
    <3>3. cycle'.query.at = cycle.query.at
      BY <3>1, <3>2 DEF Cycles, Queries
    <3>4. QED
      BY <2>8, <3>3, NoQueryOK DEF Answer, Idle
  <2>9. CASE Change \/ Flap \/ Press \/ FinishRetry \/ UNCHANGED vars
    BY <2>9 DEF Change, Flap, Press, FinishRetry, vars
  <2>10. QED
    BY <2>1, <2>2, <2>3, <2>4, <2>5, <2>6, <2>7, <2>8, <2>9 DEF Next, Finish
<1>2. QED
  BY <1>1, InvAlways, PTL DEF Spec, StaleSelfTestNotShown
=============================================================================
