---------------------------- MODULE SnmpEnrichment ----------------------------
(***************************************************************************)
(* SNMP enrichment of one entry: the query of its setup, the hourly        *)
(* metadata and probe detection, the reads that every cycle merges, the    *)
(* user's retry, and the entities that exist for what was found.           *)
(*                                                                         *)
(* A query is begun, answered at some later moment from what the device is *)
(* then, and finished by the event loop; a retry goes on beside a cycle.   *)
(* Cycles do not overlap (RefreshCycle), and one whose poll fails does not *)
(* get here.  A feature is a probe value or the input frequency; metadata  *)
(* are usable or absent, and the family is one with self-test data.        *)
(***************************************************************************)
EXTENDS Naturals

CONSTANTS
  Probes,      \* the external probe values, each with an entity of its own
  Hour,        \* METADATA_REFRESH_INTERVAL_SECONDS, in ticks
  Minute       \* SELF_TEST_REFRESH_INTERVAL_SECONDS, in ticks

Frequency == "input_frequency"
SelfTest  == "self_test"
Features  == Probes \cup {Frequency}

EnrichmentAssumption ==
  /\ Hour \in Nat /\ Minute \in Nat \ {0}
  /\ Frequency \notin Probes /\ SelfTest \notin Probes
ASSUME EnrichmentAssumption

VARIABLES
  present,       \* features the device has (external)
  good,          \* queries get through; if not, some may (external)
  snmp,          \* snmp_availability
  detection,     \* _snmp_probe_detection: the features with an OID
  needsRefresh,  \* _metadata_needs_refresh
  metadataAge,   \* ticks since _metadata_last_refresh_monotonic
  selfTest,      \* _snmp_self_test_data: {SelfTest} or nothing
  selfTestAge,   \* ticks since _self_test_last_refresh_monotonic
  cycle,         \* the refresh: its query, and the keys that have a value in
                 \* its data, which are coordinator.data when it has ended
  retry,         \* the retry of a press of the redetect button waits for its
                 \* answer, which is handled at once
  entry,         \* "setup", "first" (its first refresh is due), "loaded"
  added,         \* how often an entity was added since the entry is loaded
  registry,      \* the entity registry (external)
  silence,       \* history: ticks since self-test values were answered
  owed           \* history: no detection has begun since the last retry that
                 \* succeeded, and none has failed

world       == <<present, good>>
enrichment  == <<snmp, detection, needsRefresh, metadataAge, selfTest,
                 selfTestAge>>
entities    == <<entry, added, registry>>
vars        == <<world, enrichment, cycle, retry, entities, silence, owed>>

Keys     == Probes \cup {SelfTest}
Metadata == {"metadata"}

Waiting == {"waiting"}   \* a query is under way
Raised  == {"raised"}    \* it raised one of the exceptions that are caught

Query(stage, asked) == [at |-> stage, asked |-> asked, reply |-> Waiting]
NoQuery == Query("idle", {})

Begun == [query |-> NoQuery, values |-> {}, age |-> 0]
Idle  == cycle.query = NoQuery

(* __init__() of the coordinator.                                          *)
FreshCoordinator ==
  /\ snmp' = "unknown" /\ detection' = {} /\ needsRefresh' = TRUE
  /\ metadataAge' = Hour /\ selfTest' = {} /\ selfTestAge' = Minute

Init ==
  /\ present \in SUBSET Features
  /\ good \in BOOLEAN
  /\ snmp = "unknown" /\ detection = {} /\ needsRefresh = TRUE
  /\ metadataAge = Hour /\ selfTest = {} /\ selfTestAge = Minute
  /\ cycle = [Begun EXCEPT !.query = Query("setup", Metadata)]
  /\ retry = FALSE
  /\ entry = "setup" /\ added = [k \in Keys |-> 0]
  /\ registry = {} /\ silence = Minute /\ owed = FALSE

-----------------------------------------------------------------------------
(* The device, the network and time (external).                            *)
Change ==
  /\ present' \in SUBSET Features
  /\ UNCHANGED <<good, enrichment, cycle, retry, entities, silence, owed>>

Flap ==
  /\ good' = ~good
  /\ UNCHANGED <<present, enrichment, cycle, retry, entities, silence, owed>>

Older(age, limit) == IF age < limit THEN age + 1 ELSE age

(* An answer that is there is handled at once.                             *)
Tick ==
  /\ cycle.query.reply = Waiting
  /\ metadataAge' = Older(metadataAge, Hour)
  /\ selfTestAge' = Older(selfTestAge, Minute)
  /\ silence' = Older(silence, Minute)
  /\ cycle' = IF cycle.query.at = "self_test"
              THEN [cycle EXCEPT !.age = Older(@, Minute)] ELSE cycle
  /\ UNCHANGED <<world, snmp, detection, needsRefresh, selfTest, retry,
                 entities, owed>>

Held == present \cup Metadata \cup {SelfTest}

(* What a query that is answered now may return: each OID is asked alone.  *)
Replies(asked) ==
  LET held == asked \cap Held
  IN IF good THEN {held} ELSE (SUBSET held) \cup {Raised}

Answer ==
  /\ cycle.query.at # "idle" /\ cycle.query.reply = Waiting
  /\ \E reply \in Replies(cycle.query.asked) :
       /\ cycle' = [cycle EXCEPT !.query.reply = reply]
       /\ silence' = IF SelfTest \in reply THEN 0 ELSE silence
  /\ UNCHANGED <<world, enrichment, retry, entities, owed>>

Answered(query, stage) == query.at = stage /\ query.reply # Waiting

Usable(reply) == reply # Raised /\ reply \cap Metadata # {}

-----------------------------------------------------------------------------
(* set_snmp_availability(FALSE): what was detected is forgotten.           *)
Unavailable == snmp' = "unavailable" /\ detection' = {}

-----------------------------------------------------------------------------
(* Variants of the definitions below that a plausible bug would give.      *)
ValueAvailable(p) == p \in cycle'.values
AddDetectedProbes ==
  LET new == {p \in Probes : p \in cycle'.values \cup detection'}
  IN /\ registry' = registry \cup new
     /\ added' = [k \in Keys |-> IF k \in new THEN added[k] + 1 ELSE added[k]]
     /\ entry' = entry

(* The entities.  is_external_probe_entity_available(), when an update is  *)
(* published; and the entities that setup adds, the only ones that its     *)
(* cleanup leaves in the registry.                                         *)
ProbeAvailable(p) == p \in cycle'.values \cup detection'

Expected ==
  {p \in Probes : ProbeAvailable(p)}
    \cup IF snmp' = "available" THEN {SelfTest} ELSE {}

(* async_setup_entry() after the first refresh: cleanup, then platforms.   *)
SetUpEntities ==
  /\ registry' = Expected
  /\ added' = [k \in Keys |-> IF k \in Expected THEN 1 ELSE 0]
  /\ entry' = "loaded"

(* The listener of the sensor platform, after every later update.          *)
AddNewProbes ==
  LET new == {p \in Probes : added[p] = 0 /\ ProbeAvailable(p)}
  IN /\ registry' = registry \cup new
     /\ added' = [k \in Keys |-> IF k \in new THEN added[k] + 1 ELSE added[k]]
     /\ entry' = entry

Publish == IF entry = "first" THEN SetUpEntities ELSE AddNewProbes

(* The cycle goes on with c: it waits for a query, or it has ended.        *)
Continue(c) ==
  /\ cycle' = c
  /\ IF c.query = NoQuery THEN Publish ELSE UNCHANGED entities

-----------------------------------------------------------------------------
(* The cycle.  Each of its merges looks at the availability again, and     *)
(* asks only if it has something to ask.                                   *)
MetadataDue == snmp # "unavailable" /\ (needsRefresh \/ metadataAge >= Hour)

SelfTestFresh == selfTestAge < Minute

(* _merge_snmp_self_test_data()                                            *)
MergeSelfTest(c) ==
  IF snmp' # "available" THEN [c EXCEPT !.query = NoQuery]
  ELSE IF SelfTestFresh
       THEN [c EXCEPT !.query = NoQuery, !.values = @ \cup selfTest]
       ELSE [c EXCEPT !.query = Query("self_test", {SelfTest}), !.age = 0]

(* Variant: the availability is not looked at.                             *)
MergeDetected(c) ==
  LET asked == detection' \ c.values
  IN IF asked = {} THEN MergeSelfTest(c)
     ELSE [c EXCEPT !.query = Query("probes", asked)]

(* _merge_snmp_external_probe_data(): the frequency is left out if the     *)
(* poll has read it.                                                       *)
MergeProbes(c) ==
  LET asked == detection' \ c.values
  IN IF snmp' # "available" \/ asked = {} THEN MergeSelfTest(c)
     ELSE [c EXCEPT !.query = Query("probes", asked)]

(* The poll has succeeded, with the input frequency or without it.         *)
BeginCycle ==
  /\ entry # "setup" /\ Idle
  /\ UNCHANGED enrichment
  /\ \E values \in SUBSET {Frequency} :
       LET c == [Begun EXCEPT !.values = values]
       IN Continue(IF MetadataDue
                   THEN [c EXCEPT !.query = Query("metadata", Metadata)]
                   ELSE MergeProbes(c))
  /\ UNCHANGED <<world, retry, silence, owed>>

(* set_device_metadata(), and the detection begins.                        *)
Refreshed(c) ==
  /\ snmp' = "available" /\ needsRefresh' = FALSE /\ metadataAge' = 0
  /\ cycle' = [c EXCEPT !.query = Query("detect", Features)]
  /\ UNCHANGED <<detection, selfTest, selfTestAge, entities>>

(* _maybe_refresh_snmp_metadata(), up to its second await.                 *)
FinishMetadata ==
  /\ Answered(cycle.query, "metadata")
  /\ IF Usable(cycle.query.reply)
     THEN Refreshed(cycle)
     ELSE /\ Unavailable
          /\ UNCHANGED <<needsRefresh, metadataAge, selfTest, selfTestAge>>
          /\ Continue(MergeProbes(cycle))
  /\ owed' = FALSE
  /\ UNCHANGED <<world, retry, silence>>

(* Variants: the refresh is marked complete here; a self-test query that   *)
(* raised counts as done.                                                  *)
DetectionCompletes ==
  /\ Answered(cycle.query, "detect")
  /\ detection' = IF cycle.query.reply = Raised THEN detection
                  ELSE cycle.query.reply
  /\ needsRefresh' = FALSE /\ metadataAge' = 0
  /\ UNCHANGED <<snmp, selfTest, selfTestAge>>
  /\ Continue(MergeProbes(cycle))
  /\ UNCHANGED <<world, retry, silence, owed>>
RaisedSelfTest ==
  /\ Answered(cycle.query, "self_test")
  /\ selfTest' = IF cycle.query.reply = Raised THEN selfTest
                 ELSE cycle.query.reply
  /\ selfTestAge' = cycle.age
  /\ UNCHANGED <<snmp, detection, needsRefresh, metadataAge>>
  /\ Continue([cycle EXCEPT !.query = NoQuery, !.age = 0,
                           !.values = @ \cup selfTest'])
  /\ UNCHANGED <<world, retry, silence, owed>>

(* ... and after it.  What was detected before stays if the query raised.  *)
FinishDetection ==
  /\ Answered(cycle.query, "detect")
  /\ detection' = IF cycle.query.reply = Raised THEN detection
                  ELSE cycle.query.reply
  /\ UNCHANGED <<snmp, needsRefresh, metadataAge, selfTest, selfTestAge>>
  /\ Continue(MergeProbes(cycle))
  /\ UNCHANGED <<world, retry, silence, owed>>

FinishProbes ==
  /\ Answered(cycle.query, "probes")
  /\ UNCHANGED enrichment
  /\ LET read == cycle.query.reply \ Raised
     IN Continue(MergeSelfTest([cycle EXCEPT !.values = @ \cup read]))
  /\ UNCHANGED <<world, retry, silence, owed>>

FinishSelfTest ==
  /\ Answered(cycle.query, "self_test")
  /\ IF cycle.query.reply = Raised
     THEN UNCHANGED <<selfTest, selfTestAge>>
     ELSE selfTest' = cycle.query.reply /\ selfTestAge' = cycle.age
  /\ UNCHANGED <<snmp, detection, needsRefresh, metadataAge>>
  /\ Continue([cycle EXCEPT !.query = NoQuery, !.age = 0,
                           !.values = @ \cup selfTest'])
  /\ UNCHANGED <<world, retry, silence, owed>>

-----------------------------------------------------------------------------
(* The query of setup, which leaves the first refresh due.                 *)
FinishSetup ==
  /\ Answered(cycle.query, "setup")
  /\ IF Usable(cycle.query.reply)
     THEN snmp' = "available" /\ UNCHANGED detection
     ELSE Unavailable
  /\ entry' = "first"
  /\ cycle' = Begun
  /\ UNCHANGED <<world, needsRefresh, metadataAge, selfTest, selfTestAge,
                 retry, added, registry, silence, owed>>

(* Setup begins again with a new coordinator: the first refresh has failed *)
(* and Home Assistant retries, or the loaded entry is reloaded.            *)
SetupAgain ==
  /\ entry = "loaded" \/ (entry = "first" /\ Idle)
  /\ entry' = "setup"
  /\ FreshCoordinator
  /\ cycle' = [Begun EXCEPT !.query = Query("setup", Metadata)]
  /\ retry' = FALSE
  /\ added' = [k \in Keys |-> 0]
  /\ silence' = Minute /\ owed' = FALSE
  /\ UNCHANGED <<world, registry>>

(* The redetect button.  The refresh that it then asks for is a cycle, and *)
(* its reload, if the family has changed, a SetupAgain.                    *)
Press ==
  /\ entry = "loaded" /\ ~retry
  /\ retry' = TRUE
  /\ UNCHANGED <<world, enrichment, cycle, entities, silence, owed>>

(* Variant: only the refresh is asked for.                                 *)
RetryMarks ==
  /\ needsRefresh' = TRUE /\ metadataAge' = 0
  /\ UNCHANGED <<snmp, detection>>

RetrySucceeds ==
  /\ snmp' = "available" /\ needsRefresh' = TRUE /\ metadataAge' = 0
  /\ UNCHANGED detection

(* async_retry_snmp_metadata()                                             *)
FinishRetry ==
  /\ retry
  /\ \E reply \in Replies(Metadata) :
       IF Usable(reply)
       THEN RetrySucceeds /\ owed' = TRUE
       ELSE /\ Unavailable /\ UNCHANGED <<needsRefresh, metadataAge>>
            /\ owed' = FALSE
  /\ retry' = FALSE
  /\ UNCHANGED <<world, selfTest, selfTestAge, cycle, entities, silence>>

Finish ==
  \/ FinishSetup \/ FinishMetadata \/ FinishDetection
  \/ FinishProbes \/ FinishSelfTest

Next ==
  \/ Change \/ Flap \/ Tick \/ Answer
  \/ BeginCycle \/ Finish
  \/ SetupAgain \/ Press \/ FinishRetry

(* Queries time out, so they are answered; the loop runs what is due; time *)
(* passes while nothing is to be handled.                                  *)
Fairness ==
  /\ WF_vars(Answer) /\ WF_vars(Finish) /\ WF_vars(BeginCycle)
  /\ WF_vars(FinishRetry) /\ SF_vars(Tick)

Spec == Init /\ [][Next]_vars /\ Fairness

-----------------------------------------------------------------------------
(* Types; an entity is added at most once.                                 *)
TypeOK ==
  /\ present \subseteq Features /\ good \in BOOLEAN
  /\ snmp \in {"unknown", "available", "unavailable"}
  /\ detection \subseteq Features
  /\ needsRefresh \in BOOLEAN /\ retry \in BOOLEAN /\ owed \in BOOLEAN
  /\ metadataAge \in 0..Hour
  /\ selfTestAge \in 0..Minute /\ silence \in 0..Minute
  /\ selfTest \subseteq {SelfTest}
  /\ cycle.values \subseteq Features \cup {SelfTest}
  /\ cycle.age \in 0..Minute
  /\ entry \in {"setup", "first", "loaded"}
  /\ added \in [Keys -> 0..1]
  /\ registry \subseteq Keys

(* A retry that the button reports as a success ("Re-detect ... forces     *)
(* immediate SNMP metadata/probe detection refresh", CHANGELOG.md:478) is  *)
(* followed by a detection that begins after it, also if it succeeds while *)
(* a cycle waits for a metadata query or a detection that began before.    *)
(* Only a metadata query that fails can take it back.                      *)
RetryRemembered == owed => snmp = "available" /\ needsRefresh

(* When an update has been published, each probe that is detected or has a *)
(* value has its entity, and has it once (sensor.py:98-129 with the set    *)
(* that setup filled, external_probe_entities.py:30-45): whichever of the  *)
(* first refresh, a later cycle and a retry found it or lost it.           *)
ProbeEntities ==
  entry = "loaded" =>
    \A p \in Probes :
      /\ added[p] <= 1
      /\ Idle /\ p \in cycle.values \cup detection => added[p] = 1

(* "If SNMP is unavailable, ... routine SNMP reads stop for that entry"    *)
(* (README.md:209-210): no query of a cycle begins then, also not one for  *)
(* what a detection found that ended after a retry had failed.             *)
RoutineReadsStop ==
  [][/\ cycle'.query.at \in {"metadata", "detect", "probes", "self_test"}
     /\ cycle'.query.at # cycle.query.at
     => snmp' # "unavailable"]_vars

(* Self-test values in published data were answered within the last minute *)
(* ("once per minute", coordinator.py:1062), whatever happened to SNMP in  *)
(* between, unless their query has just raised (coordinator.py:1080-1084   *)
(* then publishes the old ones).                                           *)
StaleSelfTestNotShown ==
  [][/\ SelfTest \in cycle'.values /\ Idle' /\ cycle' # cycle
     /\ cycle.query.reply # Raised
     => silence < Minute]_vars

(* If queries get through, the device no longer changes and the entry      *)
(* stays loaded, and SNMP is available or the user goes on pressing the    *)
(* button ("Run Re-detect Device Type after correcting SNMP connectivity   *)
(* to retry enrichment", README.md:265), then what the device has is       *)
(* detected, what it lacks is not, and every probe has its entity ("newly  *)
(* detected probe entities are added after the next hourly SNMP detection  *)
(* refresh", README.md:61).                                                *)
EnrichmentReturns ==
  /\ <>[]good
  /\ <>[][UNCHANGED present]_present
  /\ <>[](entry = "loaded")
  /\ <>[](snmp = "available") \/ []<><<Press>>_vars
  => <>[](/\ snmp = "available" /\ detection = present
          /\ \A p \in present \cap Probes : added[p] = 1)
=============================================================================
