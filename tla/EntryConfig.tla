----------------------------- MODULE EntryConfig -----------------------------
(***************************************************************************)
(* The stored data of one config entry, and the four that write to it: its *)
(* setup, the Configure dialog, the redetect button, and a transport that  *)
(* is promoted.  Each of them works on for a while with what it knew when  *)
(* it began, and so does a coordinator that has been unloaded.             *)
(*                                                                         *)
(* Home Assistant (external) never runs two of an entry's setups, reloads  *)
(* and unloads at once; a reload waits for them.  Devices are external: a  *)
(* detection finds the family of the device it has probed, or none         *)
(* (DeviceDetection says when).                                            *)
(***************************************************************************)
EXTENDS DeviceTypes, FiniteSets

CONSTANTS
  Endpoints,   \* host, port and unit: where the entry may be configured to
  Families     \* the families of the devices there

ASSUME ConfigAssumption ==
  /\ Families \subseteq Concrete
  /\ Endpoints # {} /\ None \notin Endpoints

VARIABLES
  familyAt,   \* the family of the device at each endpoint (external)
  data,       \* entry.data: endpoint, family, current (detection version) and
              \* oneRequest (transport mode)
  state,      \* "not_loaded", "setup", "first_refresh" or "loaded"
  run,        \* the data that the setup has read or the coordinator has
  polling,    \* the loaded coordinator is polling
  old,        \* an unloaded coordinator that is still at work, or NoRun
  oldPolling, \* with a poll that had begun before
  button,     \* "none", or whose redetection runs: "current" or "old"
  reload,     \* a reload has been asked for
  promotedAt, \* endpoint of the transport that stored the one-request mode
  calm        \* nobody has worked on for an endpoint no longer configured

tasks   == <<polling, old, oldPolling, button>>
vars    == <<familyAt, data, state, run, tasks, reload, promotedAt, calm>>

Data  == [endpoint : Endpoints, family : Families \cup {None},
          current : BOOLEAN, oneRequest : BOOLEAN]
NoRun == [endpoint |-> None, family |-> None,
          current |-> FALSE, oneRequest |-> FALSE]

(* A new entry has no family, an older one that of its device.             *)
Init ==
  /\ familyAt \in [Endpoints -> Families]
  /\ data \in {d \in Data : /\ d.family \in {None, familyAt[d.endpoint]}
                            /\ d.family = None => ~d.current
                            /\ ~d.oneRequest}
  /\ state = "not_loaded"
  /\ run = NoRun
  /\ polling = FALSE
  /\ old = NoRun
  /\ oldPolling = FALSE
  /\ button = "none"
  /\ reload = FALSE
  /\ promotedAt = None
  /\ calm = TRUE

-----------------------------------------------------------------------------
(* Variants of the definitions below that a plausible bug would give.      *)
KeepsFamily(endpoint) ==
  [data EXCEPT !.endpoint = endpoint, !.oneRequest = FALSE]
KeepsMode(endpoint) ==
  [data EXCEPT !.endpoint = endpoint, !.family = None, !.current = FALSE]

(* async_setup_entry() as far as its connect: the data are read once.      *)
BeginSetup ==
  /\ state = "not_loaded"
  /\ ~reload
  /\ state' = "setup"
  /\ run' = data
  /\ UNCHANGED <<familyAt, data, tasks, reload, promotedAt>>

(* A family that was found, or kept, is stored with the version.           *)
Classified(family) == [data EXCEPT !.family = family, !.current = TRUE]

Detections(endpoint) == {familyAt[endpoint], None}

(* SNMP may name any family.                                               *)
Decide ==
  /\ state = "setup"
  /\ \E hint \in Families \cup {None}, found \in Detections(run.endpoint) :
       LET probes   == ShouldProbe(run.family, run.current, hint)
           detected == IF probes THEN found ELSE None
           selected == Choose(run.family, detected, hint)
       IN  IF selected = None
           THEN /\ state' = "not_loaded"
                /\ UNCHANGED <<data, run>>
           ELSE /\ state' = "first_refresh"
                /\ run' = [run EXCEPT !.family = selected]
                /\ IF selected # run.family \/ ~run.current
                   THEN data' = Classified(selected)
                   ELSE UNCHANGED data
  /\ UNCHANGED <<familyAt, tasks, reload, promotedAt>>

FirstRefresh ==
  /\ state = "first_refresh"
  /\ state' \in {"loaded", "not_loaded"}
  /\ UNCHANGED <<familyAt, data, run, tasks, reload, promotedAt>>

-----------------------------------------------------------------------------
(* The Configure dialog: another endpoint is to be detected afresh.        *)
Moved(endpoint) ==
  [endpoint |-> endpoint, family |-> None,
   current |-> FALSE, oneRequest |-> FALSE]

Configure(endpoint) ==
  /\ IF endpoint = data.endpoint
     THEN UNCHANGED <<data, promotedAt>>
     ELSE /\ data' = Moved(endpoint)
          /\ promotedAt' = None
  /\ reload' = TRUE
  /\ UNCHANGED <<familyAt, state, run, tasks>>

(* async_reload(): the coordinator is dropped, but a poll and a button     *)
(* that have begun go on.  One old coordinator is followed.                *)
Busy == polling \/ button = "current"

Reload ==
  /\ reload
  /\ state \in {"not_loaded", "loaded"}
  /\ old = NoRun \/ state = "not_loaded"
  /\ reload' = FALSE
  /\ state' = "not_loaded"
  /\ IF state = "loaded" /\ Busy
     THEN /\ old' = run
          /\ oldPolling' = polling
          /\ button' = IF button = "current" THEN "old" ELSE button
     ELSE UNCHANGED <<old, oldPolling, button>>
  /\ polling' = FALSE
  /\ UNCHANGED <<familyAt, data, run, promotedAt>>

-----------------------------------------------------------------------------
(* The redetect button: a detection, and what becomes of it.               *)
Press ==
  /\ state = "loaded"
  /\ button = "none"
  /\ button' = "current"
  /\ UNCHANGED <<familyAt, data, state, run, polling, old, oldPolling, reload,
                 promotedAt>>

Pressed == IF button = "old" THEN old ELSE run

OldWhile(busy) == IF busy THEN old ELSE NoRun

Redetect ==
  /\ button # "none"
  /\ \E found \in Detections(Pressed.endpoint) :
       LET selected == Choose(Pressed.family, found, None)
       IN  IF data.family # selected \/ ~data.current
           THEN /\ data' = Classified(selected)
                /\ reload' = TRUE
           ELSE UNCHANGED <<data, reload>>
  /\ button' = "none"
  /\ old' = OldWhile(oldPolling)
  /\ UNCHANGED <<familyAt, state, run, polling, oldPolling, promotedAt>>

-----------------------------------------------------------------------------
(* Polls, and the promotion of the transport, which setup, a poll or a     *)
(* detection may come to, and which is stored at once.                     *)
BeginPoll ==
  /\ state = "loaded"
  /\ ~polling
  /\ polling' = TRUE
  /\ UNCHANGED <<familyAt, data, state, run, old, oldPolling, button, reload,
                 promotedAt>>

EndPoll ==
  /\ polling
  /\ polling' = FALSE
  /\ UNCHANGED <<familyAt, data, state, run, old, oldPolling, button, reload,
                 promotedAt>>

EndOldPoll ==
  /\ oldPolling
  /\ oldPolling' = FALSE
  /\ old' = OldWhile(button = "old")
  /\ UNCHANGED <<familyAt, data, state, run, polling, button, reload,
                 promotedAt>>

Stores(r) ==
  /\ ~r.oneRequest
  /\ data' = [data EXCEPT !.oneRequest = TRUE]
  /\ promotedAt' = r.endpoint

Promote ==
  /\ state \in {"setup", "first_refresh"} \/ polling \/ button = "current"
  /\ Stores(run)
  /\ run' = [run EXCEPT !.oneRequest = TRUE]
  /\ UNCHANGED <<familyAt, state, tasks, reload>>

PromoteOld ==
  /\ old # NoRun
  /\ Stores(old)
  /\ old' = [old EXCEPT !.oneRequest = TRUE]
  /\ UNCHANGED <<familyAt, state, run, polling, oldPolling, button, reload>>

(* Somebody is at work for an endpoint that is not the entry's any more.   *)
Stale ==
  \/ /\ state \in {"setup", "first_refresh"} \/ Busy
     /\ run.endpoint # data.endpoint
  \/ old # NoRun /\ old.endpoint # data.endpoint

Step ==
  \/ BeginSetup
  \/ Decide
  \/ FirstRefresh
  \/ \E endpoint \in Endpoints : Configure(endpoint)
  \/ Reload
  \/ Press
  \/ Redetect
  \/ BeginPoll
  \/ EndPoll
  \/ EndOldPoll
  \/ Promote
  \/ PromoteOld

Next == Step /\ calm' = (calm /\ ~Stale')

Spec == Init /\ [][Next]_vars

-----------------------------------------------------------------------------
TypeOK ==
  /\ data \in Data
  /\ state \in {"not_loaded", "setup", "first_refresh", "loaded"}
  /\ run \in Data \cup {NoRun}
  /\ old \in Data \cup {NoRun}
  /\ button \in {"none", "current", "old"}
  /\ \A b \in {polling, oldPolling, reload, calm} : b \in BOOLEAN

(* README.md:176-177 and config_flow.py:146: changing the endpoint runs    *)
(* fresh detection.  The loaded coordinator has the family of the device   *)
(* it polls.                                                               *)
FreshDetection ==
  state = "loaded" /\ ~reload => run.family = familyAt[run.endpoint]

(* So it is as long as nobody works on for another endpoint, whatever SNMP *)
(* says and however often a detection is ambiguous.                        *)
OwnFamily == calm => FreshDetection

(* The stored one-request mode was found out at the entry's own endpoint   *)
(* as long as nobody works on for another, and never is taken over to one. *)
OwnMode == calm /\ data.oneRequest => promotedAt = data.endpoint
=============================================================================
