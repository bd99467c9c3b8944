-------------------------- MODULE OutputEnergyStore --------------------------
(***************************************************************************)
(* OutputEnergy across reloads, restarts and crashes of Home Assistant:    *)
(* the poller restores the tracker from a Store, and asks the Store to     *)
(* save it, with a delay, after every accepted reading.                    *)
(*                                                                         *)
(* The Store is Home Assistant's (external).  async_delay_save() queues a  *)
(* write of the tracker as it is when the write happens; the delay is      *)
(* counted from the last request, so the write may come at any later time, *)
(* and at the latest when Home Assistant stops.  Unloading an entry does   *)
(* not write: the new entry's Store reads the file as it is, while the old *)
(* Store's write is still queued.                                          *)
(***************************************************************************)
EXTENDS OutputEnergy

(* Python's None is not a stored state.                                    *)
ASSUME StoreAssumption == None \notin Stored

VARIABLES
  file,       \* the stored state, None when there is no file
  restored,   \* the poller's _energy_restored
  queued,     \* the current Store has a write queued
  oldWrite,   \* what an unloaded entry's Store still has to write, or None
  intact      \* every write reached the file before the file was needed

store     == <<file, restored, queued, oldWrite, intact>>
storeVars == <<vars, store>>

(* A file of an earlier version, without the rollover count.               *)
LegacyFile == [offset |-> InitialRollovers * Wrap, previous |-> meter,
               serial |-> unit, rollovers |-> None]

(* __init__ leaves a seeded tracker; async_setup_entry restores it at once *)
(* for the SMT family, async_track_output_energy at the first reading for  *)
(* SmartConnect.                                                           *)
SetUp(f) ==
  /\ tracker' = IF family = "SMT" THEN FromStorage(f) ELSE FromStorage(None)
  /\ restored' = (family = "SMT")
  /\ queued' = FALSE
  /\ truthful' = FALSE
  /\ rejected' = 0
  /\ UNCHANGED <<total, entry, device, unsampled>>

StoreInit ==
  /\ Unpublished
  /\ sane
  /\ file \in {None, LegacyFile}
  /\ tracker = IF family = "SMT" THEN FromStorage(file) ELSE FromStorage(None)
  /\ restored = (family = "SMT")
  /\ queued = FALSE
  /\ oldWrite = None
  /\ intact = TRUE

-----------------------------------------------------------------------------
(* One poll: restore if it has not been done, update, and ask for a save   *)
(* unless the reading was dropped or rejected.                             *)

Base == IF restored THEN tracker ELSE FromStorage(file)

(* A variant of Save that a plausible bug would give: a save is requested  *)
(* only for a change of the offset.                                        *)
SaveOffsetChangesOnly(raw, serial) ==
  IF Sentinel(raw)
  THEN UNCHANGED <<restored, queued>>
  ELSE /\ restored' = TRUE
       /\ queued' = (queued \/ UpdateReason(Base, raw, serial)
                               \in {"wrap", "reset"})

Save(raw, serial) ==
  IF Sentinel(raw)
  THEN UNCHANGED <<restored, queued>>
  ELSE /\ restored' = TRUE
       /\ queued' = (queued \/ UpdateReason(Base, raw, serial) # "pending_reset")

StorePollTruthful(serial) ==
  /\ PollTruthful(Base, serial)
  /\ Save(meter, serial)
  /\ UNCHANGED <<file, oldWrite, intact>>

StorePollMisread(raw, serial) ==
  /\ PollMisread(Base, raw, serial)
  /\ Save(raw, serial)
  /\ UNCHANGED <<file, oldWrite, intact>>

-----------------------------------------------------------------------------
(* The Store (external).                                                   *)

Write ==
  /\ queued
  /\ file' = AsDict(tracker)
  /\ queued' = FALSE
  /\ UNCHANGED <<vars, restored, oldWrite, intact>>

WriteOld ==
  /\ oldWrite # None
  /\ file' = oldWrite
  /\ oldWrite' = None
  /\ intact' = FALSE
  /\ UNCHANGED <<vars, restored, queued>>

(* The entry is reloaded, as every saved option does: unload, then set up.  *)
(* Only one unloaded Store is followed.                                     *)
Reload ==
  /\ ~queued \/ oldWrite = None
  /\ oldWrite' = IF queued THEN AsDict(tracker) ELSE oldWrite
  /\ intact' = (intact /\ ~queued)
  /\ SetUp(file)
  /\ UNCHANGED file

(* Home Assistant stops and starts: every queued write is made, in either  *)
(* order, so the file holds the last one.                                  *)
FinalWrites ==
  (IF queued THEN {AsDict(tracker)} ELSE {}) \cup ({oldWrite} \ {None})

Restart ==
  /\ file' \in IF FinalWrites = {} THEN {file} ELSE FinalWrites
  /\ oldWrite' = None
  /\ intact' = (intact /\ oldWrite = None)
  /\ SetUp(file')

(* Home Assistant dies: nothing queued is written.                         *)
Crash ==
  /\ SetUp(file)
  /\ oldWrite' = None
  /\ intact' = (intact /\ ~queued /\ oldWrite = None)
  /\ UNCHANGED file

StoreNext ==
  \/ DeviceStep /\ UNCHANGED store
  \/ \E serial \in {unit, None} : StorePollTruthful(serial)
  \/ \E raw \in Raw, serial \in {unit, None} : StorePollMisread(raw, serial)
  \/ Write
  \/ WriteOld
  \/ Reload
  \/ Restart
  \/ Crash

StoreSpec == StoreInit /\ [][StoreNext]_storeVars

-----------------------------------------------------------------------------
StoreTypeOK ==
  /\ TypeOK
  /\ file \in Stored \cup {None}
  /\ restored \in BOOLEAN
  /\ queued \in BOOLEAN
  /\ oldWrite \in Stored \cup {None}
  /\ intact \in BOOLEAN

(* While every write reached the file in time, restarts and reloads do not *)
(* show in the published total, pending resets included.                   *)
ContinuousWhileIntact ==
  [][ intact /\ total # None => total' >= total ]_storeVars

(* Whatever is lost with unsaved states and old files, energy is never     *)
(* counted twice: what the tracker claims stays within what was delivered, *)
(* up to the resets it took for wraps.                                     *)
NeverCountedTwice ==
  tracker.previous # None =>
    tracker.offset + tracker.previous
      <= delivered
         + (tracker.rollovers - InitialRollovers) * (Wrap - HighWatermark)
=============================================================================
