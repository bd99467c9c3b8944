---------------------------- MODULE SharedEndpoint ----------------------------
(***************************************************************************)
(* Config entries that share one Modbus TCP endpoint: their setups, polls, *)
(* commands, switches and diagnostics, which take turns through one lock,  *)
(* and the sockets they leave open.                                        *)
(*                                                                         *)
(* queue is the asyncio.Lock (external): its head holds the lock, and the  *)
(* others wait in the order in which they asked.  A task is <<e, "work">>, *)
(* a setup or a poll of entry e, or <<e, "user">>, an operation of a user, *)
(* one at a time.  What a poll does with its connection is ModbusPoller's; *)
(* here it leaves the socket as ConnectionLeft says there.                 *)
(*                                                                         *)
(* A coordinator that is unloaded while its poll runs goes on; an entry is *)
(* set up again after that, so that an entry has one transport at a time.  *)
(***************************************************************************)
EXTENDS Sequences, SequencesExt

CONSTANT Entries   \* entries that may be configured for the endpoint

VARIABLES
  configured,  \* the entries Home Assistant knows (external)
  life,        \* of an entry: "unloaded", "starting", "loaded"
  keep,        \* the user's keep-open preference
  session,     \* the transport's mode is session
  sock,        \* the socket of the transport's client is open
  work,        \* the setup's or coordinator's task: "none", "probe", "poll"
  keepOpen,    \* the poll's keep_connection_open, evaluated before the lock;
               \* FALSE while there is no poll
  user,        \* the user's operation, or "none"
  queue,       \* who holds the lock and who waits for it
  requesting,  \* the holder is connected and talks to the device
  settled      \* the entry's last poll began after its policy last changed,
               \* and nothing else has opened its socket since

Operations == {"command", "redetect", "switch", "diagnose"}

entry == <<configured, life, keep, session>>
vars  == <<entry, sock, work, keepOpen, user, queue, requesting, settled>>

Init ==
  /\ configured = {}
  /\ life = [e \in Entries |-> "unloaded"]
  /\ keep \in [Entries -> BOOLEAN]
  /\ session \in [Entries -> BOOLEAN]
  /\ sock = [e \in Entries |-> FALSE]
  /\ work = [e \in Entries |-> "none"]
  /\ keepOpen = [e \in Entries |-> FALSE]
  /\ user = "none"
  /\ queue = <<>>
  /\ requesting = FALSE
  /\ settled = [e \in Entries |-> FALSE]

-----------------------------------------------------------------------------
(* Variants of the definitions below that a plausible bug would give.      *)
KeepOfSession(e) == keep[e] /\ session[e]
ReleaseFailed == UNCHANGED queue
WaitFirst(task) ==
  queue' = IF queue = <<>> THEN <<task>>
           ELSE <<Head(queue), task>> \o Tail(queue)

(* effective_keep_connection_open                                          *)
EffectiveKeep(e) == keep[e] /\ session[e] /\ configured = {e}

Unsettled(s) == settled' = [e \in Entries |-> settled[e] /\ e \notin s]

Wait(task) == queue' = Append(queue, task)
Release == queue' = Tail(queue)

Tasks(e) == {<<e, "work">>, <<e, "user">>}
AtRest(e) == ToSet(queue) \cap Tasks(e) = {}

-----------------------------------------------------------------------------
(* The user adds and removes entries (external).                           *)
AddEntry(e) ==
  /\ e \notin configured
  /\ configured' = configured \cup {e}
  /\ Unsettled(Entries)
  /\ UNCHANGED <<life, keep, session, sock, work, keepOpen, user, queue,
                 requesting>>

RemoveEntry(e) ==
  /\ e \in configured
  /\ life[e] = "unloaded"
  /\ configured' = configured \ {e}
  /\ Unsettled(Entries)
  /\ UNCHANGED <<life, keep, session, sock, work, keepOpen, user, queue,
                 requesting>>

(* async_setup_entry(): a new client connects, without the lock.           *)
SetupConnect(e) ==
  /\ e \in configured
  /\ life[e] = "unloaded"
  /\ AtRest(e)
  /\ \E ok \in BOOLEAN :
       /\ sock' = [sock EXCEPT ![e] = ok]
       /\ life' = [life EXCEPT ![e] = IF ok THEN "starting" ELSE "unloaded"]
  /\ Unsettled({e})
  /\ UNCHANGED <<configured, keep, session, work, keepOpen, user, queue,
                 requesting>>

(* The detection, the metadata read and the capability discovery.          *)
SetupProbe(e) ==
  /\ life[e] = "starting"
  /\ work[e] = "none"
  /\ work' = [work EXCEPT ![e] = "probe"]
  /\ Wait(<<e, "work">>)
  /\ UNCHANGED <<entry, sock, keepOpen, user, requesting, settled>>

(* The detection was ambiguous: the entry is not ready.                    *)
SetupGivesUp(e) ==
  /\ life[e] = "starting"
  /\ work[e] = "none"
  /\ life' = [life EXCEPT ![e] = "unloaded"]
  /\ UNCHANGED <<configured, keep, session, sock, work, keepOpen, user, queue,
                 requesting, settled>>

(* The first refresh and every later one.                                  *)
Poll(e) ==
  /\ life[e] \in {"starting", "loaded"}
  /\ work[e] = "none"
  /\ work' = [work EXCEPT ![e] = "poll"]
  /\ keepOpen' = [keepOpen EXCEPT ![e] = EffectiveKeep(e)]
  /\ settled' = [settled EXCEPT ![e] = TRUE]
  /\ Wait(<<e, "work">>)
  /\ UNCHANGED <<entry, sock, user, requesting>>

(* async_unload_entry(): the client is closed, without the lock.  (One     *)
(* that has replaced it is closed when it is collected.)                   *)
Unload(e) ==
  /\ life[e] = "loaded"
  /\ life' = [life EXCEPT ![e] = "unloaded"]
  /\ sock' = [sock EXCEPT ![e] = FALSE]
  /\ UNCHANGED <<configured, keep, session, work, keepOpen, user, queue,
                 requesting, settled>>

Press(e) ==
  /\ life[e] = "loaded"
  /\ user = "none"
  /\ user' \in Operations
  /\ Wait(<<e, "user">>)
  /\ UNCHANGED <<entry, sock, work, keepOpen, requesting, settled>>

-----------------------------------------------------------------------------
(* The holder of the lock.                                                 *)
Holds(task) == queue # <<>> /\ Head(queue) = task

(* The work of an entry has ended; a first refresh decides on its setup.   *)
WorkEnds(e, ok) ==
  /\ work' = [work EXCEPT ![e] = "none"]
  /\ keepOpen' = [keepOpen EXCEPT ![e] = FALSE]
  /\ life' = [life EXCEPT ![e] =
                IF life[e] = "starting" /\ work[e] = "poll"
                THEN IF ok THEN "loaded" ELSE "unloaded" ELSE life[e]]

(* ensure_connection(): in session mode it connects, and renews a socket   *)
(* that is kept; a failure ends the task.  Polls, detections, metadata and *)
(* commands begin with it.                                                 *)
NeedsConnection(e) == session[e] /\ (~sock[e] \/ EffectiveKeep(e))

Ensured(e) ==
  /\ requesting' = TRUE
  /\ sock' = [sock EXCEPT ![e] = sock[e] \/ session[e]]

WorkConnects(e) ==
  /\ Holds(<<e, "work">>)
  /\ ~requesting
  /\ \/ /\ Ensured(e)
        /\ UNCHANGED <<work, keepOpen, life, queue>>
     \/ /\ NeedsConnection(e)
        /\ sock' = [sock EXCEPT ![e] = FALSE]
        /\ WorkEnds(e, FALSE)
        /\ Release
        /\ UNCHANGED requesting
  /\ UNCHANGED <<configured, keep, session, user, settled>>

(* The reads: they may lose the connection and promote the transport.  A   *)
(* poll closes the socket unless it was told to keep it, a probe does not. *)
Kept(e) == work[e] = "probe" \/ keepOpen[e]

WorkReads(e) ==
  /\ Holds(<<e, "work">>)
  /\ requesting
  /\ \E open, still, ok \in BOOLEAN :
       /\ open => still /\ Kept(e)
       /\ still => session[e]
       /\ session' = [session EXCEPT ![e] = still]
       /\ sock' = [sock EXCEPT ![e] = open]
       /\ WorkEnds(e, ok)
  /\ Unsettled(IF work[e] = "probe" THEN {e} ELSE {})
  /\ requesting' = FALSE
  /\ Release
  /\ UNCHANGED <<configured, keep, user>>

UserConnects(e) ==
  /\ Holds(<<e, "user">>)
  /\ user \in {"command", "redetect"}
  /\ ~requesting
  /\ \/ Ensured(e) /\ UNCHANGED <<user, queue>>
     \/ /\ NeedsConnection(e)
        /\ sock' = [sock EXCEPT ![e] = FALSE]
        /\ user' = "none"
        /\ Release
        /\ UNCHANGED requesting
  /\ UNCHANGED <<entry, work, keepOpen, settled>>

(* A command is sent once, whatever becomes of it; a detection may promote *)
(* the transport.  Both leave the socket as it is.                         *)
UserRequests(e) ==
  /\ Holds(<<e, "user">>)
  /\ user \in {"command", "redetect"}
  /\ requesting
  /\ \E open, still \in BOOLEAN :
       /\ open => still
       /\ IF user = "command" THEN still = session[e] ELSE still => session[e]
       /\ session' = [session EXCEPT ![e] = still]
       /\ sock' = [sock EXCEPT ![e] = open]
  /\ Unsettled({e})
  /\ requesting' = FALSE
  /\ user' = "none"
  /\ Release
  /\ UNCHANGED <<configured, life, keep, work, keepOpen>>

(* async_set_keep_connection_open()                                        *)
Switch(e) ==
  /\ Holds(<<e, "user">>)
  /\ user = "switch"
  /\ \E enabled \in BOOLEAN :
       IF keep[e] = enabled
       THEN UNCHANGED <<keep, sock, settled>>
       ELSE /\ keep' = [keep EXCEPT ![e] = enabled]
            /\ sock' = [sock EXCEPT ![e] = sock[e] /\ enabled]
            /\ Unsettled({e})
  /\ user' = "none"
  /\ Release
  /\ UNCHANGED <<configured, life, session, work, keepOpen, requesting>>

(* The diagnostics hold the lock, and use sockets of their own.            *)
Diagnose(e) ==
  /\ Holds(<<e, "user">>)
  /\ user = "diagnose"
  /\ user' = "none"
  /\ Release
  /\ UNCHANGED <<entry, sock, work, keepOpen, requesting, settled>>

HolderStep(e) ==
  \/ WorkConnects(e)
  \/ WorkReads(e)
  \/ UserConnects(e)
  \/ UserRequests(e)
  \/ Switch(e)
  \/ Diagnose(e)

Next ==
  \E e \in Entries :
    \/ AddEntry(e)
    \/ RemoveEntry(e)
    \/ SetupConnect(e)
    \/ SetupProbe(e)
    \/ SetupGivesUp(e)
    \/ Poll(e)
    \/ Unload(e)
    \/ Press(e)
    \/ HolderStep(e)

(* Every request returns, so the holder of the lock goes on.               *)
Spec == Init /\ [][Next]_vars /\ WF_vars(\E e \in Entries : HolderStep(e))

-----------------------------------------------------------------------------
TypeOK ==
  /\ configured \subseteq Entries
  /\ life \in [Entries -> {"unloaded", "starting", "loaded"}]
  /\ work \in [Entries -> {"none", "probe", "poll"}]
  /\ user \in Operations \cup {"none"}
  /\ {keep, session, sock, keepOpen, settled} \subseteq [Entries -> BOOLEAN]
  /\ requesting \in BOOLEAN
  /\ \A e \in Entries : work[e] = "none" <=> <<e, "work">> \notin ToSet(queue)
  /\ user = "none" <=> \A e \in Entries : <<e, "user">> \notin ToSet(queue)

(* CHANGELOG.md:400-402: entries that share the endpoint do not retain     *)
(* their sockets, nor does an entry whose switch is off or whose device    *)
(* allows one request: once it has polled after such a change, its socket  *)
(* is closed whenever it is at rest, unless something else has used it.    *)
RetainedByPolicy ==
  \A e \in Entries :
    settled[e] /\ AtRest(e) /\ sock[e]
      => keep[e] /\ session[e] /\ configured = {e}

(* Nobody waits for the lock for ever, whatever the other entries do.      *)
LockServed ==
  /\ \A e \in Entries : work[e] # "none" ~> work[e] = "none"
  /\ user # "none" ~> user = "none"
=============================================================================
