# Formal models of the APC Modbus/SNMP integration

TLA+ modules for the Home Assistant integration in `src/custom_components/apc_modbus`, TLC configurations
that model-check them, and TLAPS proofs. Paths below are relative to that directory unless they name the
repository's `README.md` or `CHANGELOG.md`.

    tlc  -config OutputEnergy.cfg MCOutputEnergy      # model-check (see "Runs" for the pairs)
    tlapm OutputEnergyProofs.tla                      # check proofs

## 1. The system

One *config entry* per UPS. A coordinator (Home Assistant's `DataUpdateCoordinator`) runs a cycle every scan
interval; the cycle polls the UPS over Modbus TCP, enriches the result from SNMP, and publishes it to the
entities. Everything runs on one asyncio event loop; synchronous pymodbus and SNMP calls run in executor
threads. Entries that point at the same host and port share one `asyncio.Lock`.

| Component | Source | State | Operations | Correct when |
|---|---|---|---|---|
| Output energy tracker | `output_energy_tracker.py` | offset, previous reading, serial, pending reset, rollovers | `from_storage`, `update`, `as_dict` | the total is continuous, exact without resets, never counts energy twice, and genuine resets are confirmed |
| Output energy persistence | `modbus_poller.py:69-122`, `__init__.py:384-404` | tracker in memory, file, queued delayed write | restore, delayed save, reload, restart, crash | the total is continuous while every write came in time; an old file never makes it larger |
| Refresh cycle and backoff | `coordinator.py:611-669, 851-874, 1181-1204` | backoff, next attempt, two outage flags, `last_update_success` | cycle, skipped cycle, failure, recovery | polls are not starved, the outage logs match the outages |
| Modbus transport | `modbus_transport.py` | client, mode, "session proven", failures in a row, last I/O | connect, request, record failure, promote, renew idle, recreate, close, write | promotion follows evidence; no socket is left or lost |
| Modbus poller | `modbus_poller.py` | data and errors of the poll | block reads, fallback reads, retries, restart after promotion | a result is of one mode, missing keys are reported, a device that answers is read |
| Entry lifecycle | `__init__.py`, `startup_stagger.py`, `scan_interval_guard.py` | loaded entries, locks, clients | setup, unload, reload, persisting the mode | connections do not leak or compete; locks are released |
| Device detection | `device_types.py`, `coordinator.py:392-477` | probe outcomes, stored family and version | probe, classify, choose | a transport failure is never taken for an answer of the device |
| SNMP enrichment | `snmp_helper.py`, `snmp_state.py`, `coordinator.py:896-1145` | availability, detected OIDs, cached self-test, ages of both | metadata query, detection, probe and self-test reads, manual retry | a late answer does not undo a newer one, reads stop without SNMP and come back with it |
| Command entities | `button.py`, `switch.py`, `date.py`, `modbus_commands.py`, `snmp_commands.py` | - | press, set, redetect, reset defaults | a command is sent at most once |
| Config and options flow | `config_flow.py` | entry data and options | create an entry, Configure | what is stored belongs to the endpoint that is configured |
| Sensors and availability | `sensor.py`, `binary_sensor.py`, `device_profiles.py`, `external_probe_entities.py`, `sensor_availability_unified.py` | set of entities, entity registry | create at setup, add from updates, clean up | one entity for each probe, each entity shows a key that is polled |
| Register profiles | `registers_*.py`, `register_factory.py`, `const.py`, `coordinator.py:521-595, 876-894` | the profile of an entry, discovered capabilities | choose, discover, decode, alias | blocks, registers and entities of a family agree with each other |
| Diagnostics, presentation, tests | `diagnostic_collector.py`, `icons_unified.py`, ... | none shared | - | reports and texts without behaviour over time |

How they interact: a *cycle* asks the poller for data; the poller holds the endpoint lock for the whole
connection, and calls the transport for every request. The transport may promote itself to one request per
connection, which persists the mode into the entry. The poller hands the energy register to the tracker and
asks `Store` to save it later. After the poll the coordinator refreshes SNMP metadata if they are due and
merges the cache. Entities, the options flow, buttons and the switch call back into the coordinator, the
entry and the lock at any time between two awaits.

What is hard here: three different events look alike to the energy tracker (wrap, reset, misread); the delayed write
races with reload and crash; backoff and scan interval are two clocks that extend each other; a request that
fails is repeated after promoting, reconnecting or recreating the client, and each of those may fail; decisions
(keep the socket, mode, SNMP availability) are taken before an await and used after it; several entries share
one endpoint. `PROJECT.json` lists each hazard at its line with the properties that cover it.

## 2. Modules

| Module | Models |
|---|---|
| `OutputEnergyTracker` | the tracker object as a record and its methods as operators |
| `OutputEnergy` | the tracker fed by a UPS counter that wraps and resets, or by arbitrary readings |
| `OutputEnergyStore` | `OutputEnergy` composed with the delayed save, reload, restart and crash |
| `RefreshCycle` | the coordinator's cycle with backoff, outages, scheduled and requested refreshes |
| `ModbusTransport` | the transport object as a record; each operation gives the set of its outcomes |
| `ModbusPoller` | one poll after another over that transport |
| `DeviceTypes` | the five probes, the classification and the choice of a family, as operators |
| `DeviceDetection` | a detection over that transport, which may be promoted between two probes |
| `EntryConfig` | the stored data of one entry and everything that writes to it |
| `SharedEndpoint` | two entries at one endpoint: the lock, its waiters, and the sockets left open |
| `SnmpEnrichment` | the SNMP side of one entry: queries of setup and cycles, caches, the retry, the probe entities |
| `RegisterProfiles` | the tables: registers, blocks and entities of each family |
| `ProfileSetup` | the setup that installs a profile, discovers a PDU, polls and creates the entities |
| `EnergyMeter` | the abstract meter that `OutputEnergy` implements |
| `DevicePoll` | the abstract poll that `ModbusPoller` implements |
| `FleetTiming` | delay and scan interval of an entry of a fleet, as operators |
| `MCOutputEnergy`, `MCModbusPoller`, `MCProfileSetup` | symmetry set; registers and blocks of a small profile; a set of PDUs |
| `OutputEnergyProofs` | theorems about `OutputEnergy` and `OutputEnergyStore` |
| `RefreshProofs` | theorems about `RefreshCycle` and `FleetTiming`, when refreshes run, and `ProfileSetup`, what they read |
| `ModbusTransportProofs` | lemmas on the operations of the transport, for the two modules below |
| `ModbusPollerProofs`, `DeviceDetectionProofs` | theorems about the poller and the detection |
| `SharedEndpointProofs`, `SnmpEnrichmentProofs`, `EntryConfigProofs` | theorems about the modules they are named for |

**OutputEnergyTracker / OutputEnergy.** `Updated`, `UpdateTotal` and `UpdateReason` are the new tracker, the
total and the reason `update()` returns. Each branch has a name: `Rebased` (another serial number), `Decreased`,
`InWrapWindow`, `ConfirmsReset`, `Accepted`. The UPS is external: `Deliver` adds energy, wrapping the register,
and `HardwareReset` sets it to zero. A *sane* behaviour polls the register itself (`PollTruthful`) or, between two
such polls, a low misread outside the wrap window (`PollMisread`). In the other behaviours
(`PollAnything`) every reading and every serial number is possible at every poll. `unsampled`, `truthful`, `rejected`,
`delivered` and `wraps` are history variables: they say what happened, and the tracker does not read them.

**OutputEnergyStore.** The Store is external and modelled by what the code relies on: `async_delay_save` queues
one write of the state *at that time of writing*, a load returns the file. A reload drops the tracker but leaves
the old store's write queued (`oldWrite`), a restart writes what is queued, a crash does not. An entry starts without a total
(`Unpublished`), and one of an SMT with the tracker that `from_storage` makes of no file or of an older version's (`LegacyFile`).

**RefreshCycle.** Time is an integer of half seconds. `ScheduledRefresh` and `RequestedRefresh` begin a cycle; if the
backoff is running, the cycle is skipped (`Skip`), which the code registers as another failure (`coordinator.py:1181`).
Otherwise the poll (`BeginPoll`) lasts up to `PollLimit` and ends in `PollSucceeds` or `PollFails`, according to whether the UPS is up.
The UPS goes down and comes back at any time (`Outage`).

**ModbusTransport / ModbusPoller.** A transport operation maps a transport record to the *set* of records and
answers it may leave behind: a connect or a request may fail while faults are left in the bound, a device in
one-request mode closes after each answer, an idle connection may have been dropped. The poller is a state machine over
stages (`connect`, `blocks`, `blocks_redone`, `registers`, `blocks_last`, `registers_last`, `close`) in the order of
`async_poll`. The device is external: its reply to each block (`replies`) and to each register read alone (`answers`) is complete, short, or an error.
A short reply to a block makes errors of the registers it does not reach. A short reply to a single register is no error, but `decode_register` makes no
value of it (an empty text, one word of a 32-bit number): `ReadRegister` then adds neither, and forgets the failures before it. Each value read carries the mode it was read in,
as history, so that a result of two modes would break `PollAsPromised`; `disturbed` is history too, a fault of the network
since the poll began.

**DevicePoll.** What the coordinator may rely on, without connections, blocks or retries: a poll begins, works, and ends as one result (`Deliver`)
or as unreachable (`Fail`); the mode changes only while it works and only for a reason. `ModbusPoller!Polls` instantiates it: `values` and `errors` are
those of the result once there is one, so the data a promotion throws away are never seen; `broken` is a connection that the device does not serve
as it is; `expected` (`Given`) is all keys if every block is answered, otherwise the registers served one by one, and nothing if too many in a
row are rejected; `mute` (`Mute`) are the keys that the device answers with too few words, the only ones a result may lack without naming them.

**DeviceTypes / DeviceDetection.** Of a probe's registers only what the classifier looks at is kept: an outcome is `live` or
`blank`, or says why there is no response. `Classify`, `ShouldProbe` and `Choose` are the three functions of
`device_types.py`. The device is external: `Answers(f)` are the answers that units of the family `f` give according to the repository's
tests and README, with freedom where these leave it. `MakeProbe` makes one probe, `Retry` walks once through the list again as the
code does after every probe in one-request mode, `Finish` classifies.

**EntryConfig.** `data` is what is stored, `run` what the setup has read and its coordinator works with, `old` the same of an
unloaded coordinator whose poll or button press goes on. `Configure` is the options dialog, `Redetect` the end of a button press,
`Promote` and `PromoteOld` the lambda by which a transport stores its mode. A detection is one step here and finds the
family of the device that it *asked*, or none; `DeviceDetection` shows when that is so. Every writer reads and writes
`entry.data` without an await in between, so no update is lost; what can be stale is what it writes.

**SharedEndpoint.** `queue` is the `asyncio.Lock`: its head holds it. A task of an entry's own (`work`: the probes of its setup, or a
poll) and an operation of a user (command, redetection, switch, diagnostics) wait in it. Polls are the ones of `ModbusPoller`
reduced to the socket they leave. Setup's connect and unload's close happen outside the lock, as in the code. `settled` is a
history variable.

**EnergyMeter.** What the two energy sensors show of one unit: started by a first reading, counted, rolled over, or begun again when
the unit is exchanged. `OutputEnergy!Meter` instantiates it with `shown <- total`, `rollovers <- tracker.rollovers` and
`unit <- tracker.serial`; a rejected reading is a stutter.

**SnmpEnrichment.** A query is begun by one action, answered by `Answer` at some later moment from what the device then is, and handled by
one `Finish...` action for each await of the code, so presses, reloads and a retry's answer fall between any two of them.
With `good` false a query may return any part of what it asks for, or raise. `cycle` is the refresh under way with the keys
that it will publish, `detection` the features for which an OID is known, `registry` the entity registry that outlives a reload. Times are ages in
ticks up to the limit that is compared with. `owed` and `silence` are history: whether a successful retry still waits for its
detection, and how long ago a self-test value was answered.

**RegisterProfiles / ProfileSetup.** A register is its key, its first address and its number of words; a block its start, its count and the
addresses that are decoded from it; an entity the key it has and the key it shows. The tables are those of the source, entry by
entry. A value is known by the addresses of the words it is made of, so that a shifted block shows. `DiscoverCapability` reads one capability and
may fail; `FirstRefresh` polls by blocks, or by registers when a block is not answered or does not fit; `CreateEntities` is the setup of the
platforms; `LaterRefresh` polls on.

**FleetTiming.** `EffectiveScan` is `compute_effective_scan_interval()`, `StaggerDelay` is `compute_startup_stagger_delay()` times the
number of entries, which makes it an integer. There is no state; the theorems in `RefreshProofs` say what the docstrings promise.

## 3. Runs

| Run | Config / module | Shows |
|---|---|---|
| energy | `OutputEnergy.cfg` / `MCOutputEnergy` | the total is that of the abstract meter and decreases only for another unit; it never overstates beyond the counted rollovers' margin; exact without resets; a genuine reset is rejected at most once |
| energy_store | `OutputEnergyStore.cfg` / `OutputEnergyStore` | continuity while writes came in time, nothing counted twice whatever is lost |
| refresh | `RefreshCycle.cfg` / `RefreshCycle` | a poll starts in time, one warning and one recovery per outage, the UPS becomes available again after it is back |
| refresh_starvation | `RefreshStarvation.cfg` / `RefreshCycle` | *violation*: with a one second interval the skipped cycles postpone the next attempt for ever |
| poller | `ModbusPoller.cfg` / `MCModbusPoller` | results of one mode, missing keys reported but those that the device is mute about, devices of all kinds read, connection left as intended; each poll is one of `DevicePoll`; polls end |
| detection | `DeviceDetection.cfg` / `DeviceDetection` | no device is taken for one of another family, every one is found when nothing is lost, probing promotes no device that answers |
| entry_config | `EntryConfig.cfg` / `EntryConfig` | the loaded family and the stored mode belong to the endpoint, unless somebody works on for an earlier one |
| entry_stale_family | `EntryStaleFamily.cfg` / `EntryConfig` | *violation*: a late setup or redetection stores the family of the old endpoint |
| shared_endpoint | `SharedEndpoint.cfg` / `SharedEndpoint` | a poll leaves a socket open only under the policy, and nobody waits for the lock for ever |
| snmp | `SnmpEnrichment.cfg` / `SnmpEnrichment` | a retry that succeeded is followed by a detection, probe entities are there once, no read begins while SNMP is unavailable, old self-test values are not shown, enrichment returns |
| profiles | `ProfileSetup.cfg` / `MCProfileSetup` | every register gets its own words by blocks and singly, blocks alone suffice, entities of UPSs show polled keys, PDUs get sensors of what they have |
| rack_pdu_sensors | `RackPduSensors.cfg` / `MCProfileSetup` | *violation*: sensors of phases, outlets and banks show keys that are never polled |

### Bounds, and why they are enough

- *Energy.* The algorithm compares a reading only with the previous reading, the watermarks and the confirmation window, so
  the range is scaled to `Wrap = 8` with watermarks 6 and 1 and a window of 2: every comparison has values on,
  below and above its boundary. `MaxDelivered = 28` allows three wraps with resets in between,
  `MaxOffset = 20` bounds arbitrary readings. The proofs need none of these bounds. The starting count
  `InitialRollovers = 1` exercises the entry's setting.
- *Store.* One unit, `Wrap = 5`, `MaxDelivered = 6`: a wrap, a reset and its confirmation, with reloads, restarts and
  crashes between any two of them. One write of an unloaded entry is followed at a time; when a second reload happens the earlier
  one has been made or is replaced.
- *Refresh.* The real constants (2 s, factor 2, 60 s, debounce 10 s) and the default interval of 10 s in half seconds,
  so the run has no scaling at all. Polls take up to 3 s. Times are relative, the clock itself is not a variable, and the
  state space is finite.
- *Poller.* Four registers in two blocks of two are the smallest profile in which a block can fail
  after another succeeded and the fallback can be cut in its middle; for this the abort limit is 2 (5 in the code) and the
  client is recreated after 2 failures. `MaxFaults` network faults may hit any requests or connects of a poll, and
  `MaxShort = 1` of the blocks and registers may be one that the device answers with too few words: one is enough to stand before, between or
  after rejected registers, and a block that is rejected leads to the same fallback as a short one. The theorems hold for any number.
- *Detection.* All families with all answers of `Answers`, three network faults, `RecreateAfter = 3`. Three faults are also what the
  claim of `NeverTheWrongFamily` needs: with four, a Rack PDU that serves one request per connection may lose its
  measurements probe and all its repetitions, and is then taken for an SMT UPS if it answers the SMT probe. This is
  a limit of the evidence that the classifier accepts (a failed probe is not told from an answered one by its second
  branch), and the bound names it.
- *Entry.* Two endpoints and two families: a stale family is either the right one or the wrong one. One unloaded coordinator is
  followed; a reload waits for it if it would have to follow a second.
- *Endpoint.* Two entries, whose waiting is already all the competition a third could add to the policy (`same_endpoint_entries == 1`);
  one user's operation at a time. An entry is set up again only when the tasks of its former coordinator have ended, so it has one transport.
- *SNMP.* One probe and the input frequency: probes do not interact, but the frequency may also come from the poll. The hour is 2 ticks
  and the minute 1, so that a tick may pass without either being over, with only the minute, and with both. Any number of
  cycles, presses and reloads; one retry at a time, since a second press only asks the same query again.
- *Profiles.* All four families with their full tables, with and without a meter; PDUs of one and three phases, without and with banks, with metered
  outlets of none, one group and part of a second; each capability may be unreadable. A setup is short, so this run has no other bound.
- Deadlock is checked in every run: none of the systems may stop.

### Fairness

- `RefreshCycle!FairSpec` has weak fairness of the event loop: timers that are due run and a poll returns. Home Assistant
  reschedules the cycle after each one, and every network call has a timeout. No fairness is assumed of the UPS
  or of users: `Recovers` says that *if* the UPS stays up, it becomes available. `UnattendedSpec` is the same without
  requested refreshes, so that the counterexample is not caused by a user.
- `ModbusPoller` has weak fairness of the poll's own step: the executor job returns since each request times out.
- `SharedEndpoint` has weak fairness of the *holder of the lock*, for the same reason, and none of anything else: that waiters are
  served is due to the order of the queue alone. (The mutant that lets a newcomer in right behind the holder starves one.)
- `SnmpEnrichment` has weak fairness of `Answer` (every SNMP request has a timeout), of the `Finish` actions and of the retry (the event loop
  runs what is due), and of `BeginCycle` (`RefreshCycle` shows that cycles go on). Time has strong fairness: it does not pass while an
  answer waits to be handled, and it is not stopped by handlers that alternate. The user's presses are a premise of
  `EnrichmentReturns`, not assumed.

## 4. Proofs

| Theorem | Says, for all constants |
|---|---|
| `TypeCorrect`, `StoreTypeCorrect` | `Spec => []TypeOK` of `OutputEnergy`, `StoreSpec => []StoreTypeOK` |
| `TotalMonotone` | `Spec => TotalNeverRegresses` |
| `NeverOvercounts` | `Spec => []OvercountBounded` |
| `MeterRefined` | `Spec => ContinuousMeter`: `OutputEnergy` implements `EnergyMeter` |
| `ResetConfirmed`, `NothingLostWithoutResets` | `Spec => []GenuineResetConfirmed`, `Spec => []ExactWithoutResets`, from `FitsWindow` |
| `StoreNeverCountsTwice`, `ContinuousThroughRestarts` | `StoreSpec => []NeverCountedTwice`, `StoreSpec => ContinuousWhileIntact` |
| `CycleTypeCorrect` | `Spec => []TypeOK` of `RefreshCycle` |
| `OneMessagePerChange` | `Spec => MessagesFollowAvailability` |
| `NeverStarved` | `Spec => []PolledInTime`, from `AmpleScan` |
| `EnrichmentTypeCorrect`, `ConfigTypeCorrect` | `Spec => []TypeOK` of `SnmpEnrichment` and of `EntryConfig` |
| `RetryKept`, `OneEntityPerProbe` | `Spec => []RetryRemembered`, `Spec => []ProbeEntities` |
| `ReadsStopWithoutSnmp`, `SelfTestIsFresh` | `Spec => RoutineReadsStop`, `Spec => StaleSelfTestNotShown` |
| `FamilyBelongsToEndpoint`, `ModeBelongsToEndpoint` | `Spec => []OwnFamily`, `Spec => []OwnMode` |
| `EndpointTypeCorrect`, `SocketsFollowPolicy` | `Spec => []TypeOK` and `Spec => []RetainedByPolicy` of `SharedEndpoint` |
| `PollerTypeCorrect`, `MissingKeysReported` | `Spec => []TypeOK` and `Spec => []MissingReported` of `ModbusPoller`: only short replies to single registers lose a key silently |
| `ConnectionLeftAsIntended`, `DeviceServedInFull` | `Spec => []ConnectionLeft`, `Spec => []DeviceServed` |
| `PollRefined` | `Spec => PollAsPromised`: `ModbusPoller` implements `DevicePoll` |
| `PollBounded` | `Spec => [](StepsLeft <= 2 * BothPasses + 6)` and `Spec => PollAdvances`: a poll ends after at most two passes over its blocks and two over its registers |
| `SetupTypeCorrect`, `SensorsAlwaysOfDevice` | `SetupSpec => []SetupTypeOK`, `SetupSpec => []SensorsOfDevice` |
| `PollsReadProfile`, `BlocksAlwaysSuffice`, `EntitiesAlwaysServed` | `SetupSpec => []PollReadsProfile`, `[]BlocksSuffice`, `[]EntitiesServed` of `ProfileSetup` |
| `DetectionTypeCorrect`, `EveryDeviceFound` | `Spec => []TypeOK` and `Spec => []FamilyFound` of `DeviceDetection` |
| `FourFaultsToMislead`, `FamilyNeverWrong` | `[]NeverTheWrongFamily`: for a UPS always, for a Rack PDU while fewer than four requests are lost; so for all devices if `MaxFaults <= 3` |
| `AnsweringSessionKept` | `Spec => SessionKept` |
| `SetupsApart`, `SetupsWithinWindow`, `SetupsBeforeSecondPoll` | the setups of a fleet of any size are spread as `startup_stagger.py` says |
| `FleetPollRate` | what the floor of the scan interval guarantees, and that it grows with the fleet |

*Assumptions.* `TrackerAssumption` (watermarks in the range and in order), `MeterAssumption` (at most one range between two
readings), `CycleAssumption` (natural numbers, an interval of at least a second),
`EnrichmentAssumption` (the minute is positive, the three kinds of features have different names), `ConfigAssumption` (the families are
concrete ones, no endpoint is called `None`), `StoreAssumption` (`None` is no stored state), `TransportAssumption` and
`DetectionAssumption` (positive or natural numbers), `PollerAssumption` (keys are distinct, blocks are not empty and hold exactly the keys of the
register list, which `RegisterProfiles` has of the tables of every family), `SetupAssumption` (the four families, and a PDU has at
least one phase, `registers_rack_pdu.py:131`), `KeysAssumption` (numbered keys differ from each other and from all others: the model forms them with
TLC's `ToString`, of which the provers know nothing; TLC evaluates the assumption). `FitsWindow` says that what is delivered between
two readings is less than a range, no more than the register's part above the high watermark, and at most one more than the part up to the
low one. The code has 2^32 Wh with watermarks at 99 % and 1 %, so both parts are over 42 MWh, which no UPS delivers between two polls.
It is needed: with a larger step a wrap may jump over the window and look like a reset. `AmpleScan` says that one doubled base delay
fits the scan interval and the debouncer's cooldown. It holds for intervals from 5 s on, and it is needed: `refresh_starvation`
shows the behaviour when it fails.

*Energy.* A rejected reading leaves tracker and total alone, so monotonicity needs to know what the published total *is*: `Published`,
it is the offset plus the previous reading. `NeverOvercounts` is proved from the inductive `SaneInv`. With `Slack` the margin of the
counted rollovers, it says that offset plus register is covered by the energy delivered (`OffsetCovered`), so is the tracker's claim
(`ClaimDelivered`), that after the register has fallen below the previous reading the *whole* claim plus the register is covered
(`FallCovered`), and likewise while a reset is pending (`PendingCovered`). The last two are what makes it sound to add the claim to the offset when a
reset is confirmed; a misread confirmed by a second one would break them, which is why sane behaviours read the
register between two misreads. `SaneInvDeliver`, `SaneInvReset` and `SaneInvPoll` prove the steps, the last by the cases of
`update()` (`UpdateCases`).

*Refinement.* Each poll is one step of the meter or a stutter. `FirstReading`, `OtherUnitReading` and `LaterReading` give the step for the three
situations of the tracker; they need `Published` (the total is offset plus previous reading) and `UnstartedInvariant` (before the first reading
nothing has been offset or counted). The step that counts a rollover gains at most `Wrap - HighWatermark + LowWatermark`.

*Exactness and resets.* Both theorems follow what lies between the previous reading and the register. Energy not yet read is bounded by one
step (`UnsampledBounded`), and the register is the previous reading plus it, either straight or around the end of the range
(`StraightFrom`, `AroundFrom`). For exactness `NothingLost` adds that offset, previous reading and this rest are all that was delivered, and that
at most one wrap is still to be seen. For resets `RejectedHeld` says that after one rejected true reading the pending reset is that
reading, so that the next true one either confirms it or lies in the window.

*Store.* A tracker may be replaced by one made of the file, of an older entry's late write, or of none (`Recoverable`). `StoreSane` says that
each of these, not only the tracker in memory, claims no more than was delivered; energy only grows, so an old state stays sane however late it
is loaded. `StoreIntact` says that while no write was lost, the total is what the next poll will start from, and that the file
agrees with the tracker when nothing is queued.

*Endpoint.* `QueueOK` says that no task waits twice and that at most one is a user's, `RequestingOK` that whoever talks to the device holds the
lock. `SettledFor` is the reason of the policy: once it has not changed since the poll began, a poll that was told to keep its
socket was told so under this policy, and between polls only the policy leaves one open. `Members`, `Joined` and `Left` say what
the queue's operations do to its members.

*Poller.* Each operation of the transport is settled by a lemma in `ModbusTransportProofs`: it keeps a transport a transport, never
leaves one-request mode, and costs at least one network fault if it did not do what the device allows. The important one is `RetryEnds`: a
read with its retry ends in the device's answer unless the network had a fault, whatever the state of the connection. `PollerInv` then says of
a poll *in its middle* what the properties say of its end. A pass has read in one mode unless it was promoted, which it
knows by `before` (`ModesOK`); every key that a pass over the blocks has gone over has a value or is an error, and one over the registers leaves out only keys that the device is mute
about (`SeenOK`); without a fault an error is a block the device does not serve, a result of blocks alone lacks nothing, and the last `failures` registers
are ones it rejects (`AnswersOK`), which at the abort limit is `RejectedRun`.

*Abstract poll.* `StepRefined` maps the steps one by one: `StartPoll` begins a poll, `Connect` works or fails, reads and passes work, `ClosePoll`
delivers, and the rest changes nothing that the coordinator sees. A promotion needs its reason, which the lemmas on the transport give: a request that
promotes met a fault, or a connection that was `broken`. The result is complete because `AnswersOK` holds per poll, for `disturbed` starts anew with each; that too many
registers in a row failed shows in as many errors (`GivenUpOverErrors`), since keys are distinct.

*Profiles.* The table lemmas (`SmartUpsSound`, `SmtSound`, `PduSound`) say of each family that every register has a key of its own, is listed by a block
and lies within every block that lists it. A block then slices out a register's own words (`PartOfWords`), so reading by blocks and one by one
give the same data (`BlocksGiveRegisters`), which depend on the device only. `SetupInv` says that data and entities are always these; what the
entities show is in `SmtShows` and `SmartUpsShows`, and a capability that was not read stands for no more than the device has (`CapabilityRead`).

*Detection.* A failed probe promotes the transport, and from then on every failed probe is made again after each probe. `OutcomeOK` counts: a
failure that is not the device's own answer has cost one fault for each of its `Repetitions`. The counting needs that
a one-request transport has a closed socket between probes, and that in session mode no probe has failed yet
(`ConnectionOK`). At the end probe `i` has been repeated `6 - i` times, which is four for the Rack PDU's measurements, the later
of the two that tell it. Without faults all outcomes are the answers, and `Classify` maps the signatures to their families
(`ClassifiedInFull`); with lost answers it maps a UPS's to its family or none (`ClassifiedRight`).

*Fleet.* Entry ids are ordered, here numbers. `SlotIndexIncreases` and `SlotIndexBelow` say that the index in the sorted list orders the ids and
stays below their number; the rest is arithmetic on products (`ProductMonotone`).

*Refresh cycle.* `TimeInv` says that between polls the backoff runs out before the next scheduled refresh, so a scheduled refresh is never
skipped twice; that a requested one can be skipped only before the base delay has passed; and that after it the cooldown outlasts the backoff.
`EpisodeInv` says that both outage flags equal "unavailable", which makes the messages come exactly at its changes.

*SNMP.* `EnrichmentInv` adds to the two invariants that a query asks what belongs to its stage and is answered with no more than it
asks, and that no self-test value is in a cycle that still waits (`CycleOK`); that only a loaded entry has a retry (`SetupOK`); and that a
cached self-test value is no older than its age says (`SelfTestOK`). Each action either ends or goes on with the cycle or leaves it
where it is. `Merged` says what going on amounts to whatever the availability then is, `Published` that the end adds the missing
entities; `GoingOnPreserves` combines them, so that each handler only has to show what it does before it goes on.

*Entry.* What somebody works with is right for its *own* endpoint (`Right`), which every writer preserves; the stored data are right only as long as
nobody works for another endpoint, which is what `calm` remembers. `FamiliesRight` says this of the stored data, the coordinator and the
unloaded one, `WorkersOK` that whoever is at work has data, and `Decided` that a coordinator has a family.

*Bounded poll.* `StepsLeft` counts what a poll may still have to do: `PollerInv` says that a pass repeated after a promotion is read in
one-request mode, which is never left, so no third pass follows, and each step of the poll makes the measure smaller (`PollStepAdvances`). This is
the part of `PollEnds` that needs no fairness; that the next step is taken at all is its fairness assumption, and TLC's.

*Model-checked only.* `Recovers`, `PollEnds`, `LockServed` and `EnrichmentReturns`: liveness under fairness is out of the prover's reach.
The three refuted properties of section 5. Every inductive invariant above was checked by TLC on the bounds of the run before it was proved.

## 5. Where code and documentation disagree

Each is a violation run whose counterexample is the behaviour; `PROJECT.json` quotes the lines.

1. `RefreshStarvation.cfg`: a skipped cycle is registered as a failure and doubles the remaining time; with a one second
   interval no attempt is made again.
2. `EntryStaleFamily.cfg`: a setup or a redetection that began before a Configure stores the family of the old endpoint with the
   current detection version, and the new endpoint is not probed.
3. `RackPduSensors.cfg`: the registers of a Rack PDU are those of the defaults, its sensors those of the discovered capabilities.

Read, but not given a run:

- A reset of a counter above the high watermark, first read below the low one, is counted as a wrap, although the repository's
  `README.md:51-53` says resets do not affect the count (`OvercountBounded` bounds what it adds).
- Unload does not flush the delayed save: a confirmed reset or wrap that is followed by a reload within the delay is lost from the offset
  (`modbus_poller.py:117`, against `README.md:48-49`). `ContinuousWhileIntact` is stated with `intact` for that reason.
- `ensure_connection` marks the session proven when it connects (`modbus_transport.py:313`); one failed request then promotes the transport for
  good, although `modbus_transport.py:77` asks for "a proven persistent-session failure".
- Five registers in a row that the device rejects end the individual reads on a healthy connection (`modbus_poller.py:267`), against
  `CHANGELOG.md:395-397`; `DeviceServed` names the exception as `RejectedRun`.
- A register read alone and answered with too few words is missing from the result and from its errors (`modbus_poller.py:244-248`), where a short block
  names what it does not reach (`modbus_poller.py:219-221`). Nothing in the repository promises otherwise; `MissingReported` and `DevicePoll` name the
  exception as `Mute`.
- Setup connects and unload closes outside the lock that `__init__.py:205` introduces "to prevent overlapping I/O across entries".
- Commands, detections and metadata reads leave their socket open until the next poll also at a shared endpoint, where `CHANGELOG.md:400-402`
  promises per-cycle connections; `RetainedByPolicy` is stated about polls for that reason.
- The self-test entities are added by setup only, if SNMP was available then (`sensor.py:52-59`). After a retry the data are read and merged,
  but have no entity until a reload, although `README.md:264-265` and the notice of the button (`button.py:261-270`) promise them.
- The cleanup of setup removes the registry entries of probes and self-test when SNMP happens to be down at a reload (`__init__.py:125-152`).
- A metadata query that began before a retry and fails after it sets SNMP to unavailable again; `RetryRemembered` allows for it.
- The addresses that `generate_outlet_registers` gives to its groups overlap for more than eight outlets; nothing installs them today.

## 6. Not modelled, and the plan

Not modelled and not planned: icons, texts, translations and the forms of the flows, scales and units of registers, and how a value becomes the
state of an entity. They map a value to a value and keep no state. The diagnostics collector writes one report over sockets of its own and changes nothing
that another part reads; its place in the lock is in `SharedEndpoint`. A command is sent by code without loop or
retry, so a model of it could not fail to send it at most once, and there is none. Home Assistant cancels an entry's
scheduled refresh when it unloads the entry; the models let the poll go on, as a requested refresh does, or end.
Within one SNMP query, which version and which of the alternative OIDs answered is abstracted to what was answered.

What is left, most important first:

1. `ReconnectPacing`: the two seconds between a close and the next connect, with a clock.
2. `SnmpSession`: the requests of `snmp_helper.py`, their fallbacks from one OID to the next and what a lost answer leaves.
