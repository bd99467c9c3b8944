---------------------------- MODULE RefreshCycle ----------------------------
(***************************************************************************)
(* The refresh cycle of one entry's coordinator: scheduled and requested   *)
(* refreshes, the retry backoff, and the messages about an outage.         *)
(*                                                                         *)
(* Time is counted in half seconds.  The coordinator's deadline            *)
(* _backoff_until is kept as the time that is left to it; -1 stands for    *)
(* every deadline in the past.  The scheduler and the request debouncer    *)
(* are Home Assistant's DataUpdateCoordinator (external).                  *)
(***************************************************************************)
EXTENDS Integers

CONSTANTS
  Scan,        \* the effective scan interval
  Base,        \* _backoff_base, as a delay
  Factor,      \* _backoff_base, as a factor
  BackoffMax,  \* _backoff_max
  Cooldown,    \* the request debouncer's cooldown
  PollLimit,   \* bound: longest poll; every request times out
  None

ASSUME CycleAssumption ==
  /\ Scan \in Nat \ {0, 1}
  /\ Base \in Nat
  /\ Factor \in Nat \ {0}
  /\ BackoffMax \in Nat
  /\ Cooldown \in Nat
  /\ PollLimit \in Nat
  /\ None \notin Int

VARIABLES
  up,          \* the UPS answers (external)
  phase,       \* "idle", or what started the refresh that is polling
  wait,        \* time to the next scheduled refresh
  cooldown,    \* time left of the debouncer's cooldown
  requested,   \* a refresh is requested for the end of the cooldown
  backoff,     \* time left to _backoff_until, or None
  started,     \* _modbus_failure_started is set
  warned,      \* _modbus_failure_warning_emitted
  available,   \* last_update_success: the entities are available
  message,     \* what the last step logged: "warning", "recovered" or "none"
  sincePoll    \* time since the last poll began, counted up to Late + 1

timers   == <<wait, cooldown, requested>>
episode  == <<started, warned, available, message>>
vars     == <<up, phase, timers, backoff, episode, sincePoll>>

(* Set up is complete when the first refresh has succeeded.                *)
Init ==
  /\ up = TRUE
  /\ phase = "idle"
  /\ wait \in Scan - 1 .. Scan + 1
  /\ cooldown = 0
  /\ requested = FALSE
  /\ backoff = None
  /\ started = FALSE
  /\ warned = FALSE
  /\ available = TRUE
  /\ message = "none"
  /\ sincePoll = 0

-----------------------------------------------------------------------------
(* Variants of the definitions below that a plausible bug would give.      *)
ShouldRunWhenUnset == backoff = None
FailureDelayKeepsMax(left) == IF left = None THEN Base ELSE BackoffMax
LeftBelowZero(t) == t - 1
RecordRecoveryKeepsWarned ==
  IF ~started THEN message' = "none" /\ UNCHANGED <<started, warned>>
  ELSE message' = "recovered" /\ started' = FALSE /\ UNCHANGED warned

ShouldRun == backoff # None => backoff <= 0

(* The delay _register_failure() chooses.                                  *)
FailureDelay(left) ==
  IF left = None THEN 0
  ELSE IF left < 0 THEN Base
  ELSE IF Factor * left > BackoffMax THEN BackoffMax ELSE Factor * left

RegisterFailure == backoff' = FailureDelay(backoff)

ResetBackoff == backoff' = None

RecordFailure ==
  /\ started' = TRUE
  /\ warned' = TRUE
  /\ message' = IF warned THEN "none" ELSE "warning"

RecordRecovery ==
  IF ~started THEN message' = "none" /\ UNCHANGED <<started, warned>>
  ELSE /\ message' = "recovered"
       /\ started' = FALSE
       /\ warned' = FALSE

-----------------------------------------------------------------------------
(* The scheduler (external).  A refresh is scheduled on the grid of whole  *)
(* seconds, so the first one after a poll may come up to a second early.   *)
(* Starting a refresh cancels the cooldown, and one that was requested     *)
(* starts a new one.                                                       *)

Reschedule(delays, cause) ==
  /\ wait' \in delays
  /\ cooldown' = IF cause = "requested" THEN Cooldown ELSE 0
  /\ requested' = FALSE

(* _async_update_data() while the backoff is active: the cycle is skipped, *)
(* and the UpdateFailed it raises is registered as a failure.              *)
Skip(cause) ==
  /\ ~ShouldRun
  /\ RegisterFailure
  /\ RecordFailure
  /\ available' = FALSE
  /\ Reschedule(IF cause = "scheduled" THEN {Scan} ELSE Scan - 1 .. Scan + 1,
                cause)
  /\ UNCHANGED <<up, phase, sincePoll>>

BeginPoll(cause) ==
  /\ ShouldRun
  /\ phase' = cause
  /\ cooldown' = 0
  /\ requested' = FALSE
  /\ message' = "none"
  /\ sincePoll' = 0
  /\ UNCHANGED <<up, wait, backoff, started, warned, available>>

Refresh(cause) == Skip(cause) \/ BeginPoll(cause)

ScheduledRefresh == phase = "idle" /\ wait = 0 /\ Refresh("scheduled")

(* async_request_refresh(), as the date entity and the redetect button use *)
(* it; a request that comes while a refresh runs is dropped.               *)
RequestRefresh ==
  /\ phase = "idle"
  /\ IF cooldown > 0
     THEN /\ ~requested
          /\ requested' = TRUE
          /\ message' = "none"
          /\ UNCHANGED <<up, phase, wait, cooldown, backoff, started, warned,
                         available, sincePoll>>
     ELSE Refresh("requested")

RequestedRefresh ==
  /\ phase = "idle"
  /\ cooldown = 0
  /\ requested
  /\ Refresh("requested")

(* async_poll() raised, or read no register at all.                        *)
PollFails ==
  /\ phase # "idle"
  /\ ~up
  /\ RegisterFailure
  /\ RecordFailure
  /\ available' = FALSE
  /\ phase' = "idle"
  /\ Reschedule(Scan - 1 .. Scan + 1, phase)
  /\ UNCHANGED <<up, sincePoll>>

PollSucceeds ==
  /\ phase # "idle"
  /\ up
  /\ ResetBackoff
  /\ RecordRecovery
  /\ available' = TRUE
  /\ phase' = "idle"
  /\ Reschedule(Scan - 1 .. Scan + 1, phase)
  /\ UNCHANGED <<up, sincePoll>>

(* Half a second passes.  A timer that has run out fires first.            *)
Left(t) == IF t > 0 THEN t - 1 ELSE t

(* A poll and then one scan interval, a second of grid and the base delay. *)
Late == PollLimit + Scan + 1 + Base

Tick ==
  /\ IF phase = "idle"
     THEN wait > 0 /\ ~(requested /\ cooldown = 0)
     ELSE sincePoll < PollLimit
  /\ wait' = Left(wait)
  /\ cooldown' = Left(cooldown)
  /\ backoff' = IF backoff = None THEN None
                ELSE IF backoff < 0 THEN backoff ELSE backoff - 1
  /\ sincePoll' = IF sincePoll > Late THEN sincePoll ELSE sincePoll + 1
  /\ message' = "none"
  /\ UNCHANGED <<up, phase, requested, started, warned, available>>

(* The UPS fails and comes back (external).                                *)
Outage ==
  /\ up' = ~up
  /\ message' = "none"
  /\ UNCHANGED <<phase, timers, backoff, started, warned, available, sincePoll>>

System ==
  \/ ScheduledRefresh
  \/ RequestedRefresh
  \/ PollFails
  \/ PollSucceeds
  \/ Tick

Next == System \/ RequestRefresh \/ Outage

Spec == Init /\ [][Next]_vars

(* The event loop runs what is due, and time passes.                       *)
FairSpec == Spec /\ WF_vars(System)

(* Nobody requests a refresh.                                              *)
UnattendedSpec == Init /\ [][System \/ Outage]_vars /\ WF_vars(System)

-----------------------------------------------------------------------------
TimesOK ==
  /\ wait \in 0 .. Scan + 1
  /\ cooldown \in 0 .. Cooldown
  /\ backoff \in Int \cup {None}
  /\ backoff # None => backoff >= -1
  /\ sincePoll \in 0 .. Late + 1

FlagsOK ==
  /\ up \in BOOLEAN
  /\ phase \in {"idle", "scheduled", "requested"}
  /\ requested \in BOOLEAN
  /\ started \in BOOLEAN
  /\ warned \in BOOLEAN
  /\ available \in BOOLEAN
  /\ message \in {"none", "warning", "recovered"}

(* Every timer stays within its range, every flag is one of its values.    *)
TypeOK == TimesOK /\ FlagsOK

(* README.md:220-224: one warning when polling begins to fail, and one     *)
(* recovery message when it succeeds again, however many polls fail, are   *)
(* skipped or are requested in between.                                    *)
MessagesFollowAvailability ==
  [][ /\ message' = "warning"   <=> available /\ ~available'
      /\ message' = "recovered" <=> ~available /\ available' ]_vars

(* The scan interval and the cooldown outlast one doubled base delay.      *)
AmpleScan == Factor * Base <= Scan - 1 /\ Factor * Base <= Cooldown

(* With an ample scan interval the backoff never grows into starvation:    *)
(* the UPS is polled again within Late, whatever refreshes are requested   *)
(* and skipped.                                                            *)
PolledInTime == sincePoll <= Late

(* An entity that is unavailable becomes available once the UPS stays up.  *)
Recovers == <>[]up => <>[]available

(* coordinator.py:858 and README.md:222: "Home Assistant will retry        *)
(* automatically".                                                         *)
RetriesAutomatically == ~available ~> phase # "idle"
=============================================================================
