------------------------------ MODULE DevicePoll ------------------------------
(***************************************************************************)
(* What a poll promises the coordinator, whatever connections, retries,    *)
(* promotions and fallbacks it takes: it ends as one result or as          *)
(* unreachable, every value of a result was read in the mode that the poll *)
(* ends in, every key without a value is an error, unless the device is    *)
(* mute about it or the poll has found enough errors to give up, and a     *)
(* poll that the network did not disturb reaches the device and gives all  *)
(* that the device gives.                                                  *)
(* ModbusPoller implements this.                                           *)
(***************************************************************************)
EXTENDS Naturals

CONSTANTS
  Keys,                  \* the keys of the profile
  Session, OneRequest,   \* the modes of the transport
  AbortAfter,            \* failures in a row that end the individual reads
  None                   \* no value

VARIABLES
  mode,        \* the mode of the transport
  broken,      \* the device does not serve the connection as it is (external)
  expected,    \* the keys that it gives to a poll (external)
  mute,        \* the keys that it answers without a value (external)
  polling,     \* a poll is under way
  disturbed,   \* the network has failed since it began
  kept,        \* it was told to keep its connection
  left,        \* a connection is left open between two polls
  outcome,     \* of the last poll: "none", "result" or "unreachable"
  values,      \* of its result: the mode that each was read in, or None
  errors       \* and the keys in its errors

result == <<outcome, values, errors>>
device == <<expected, mute>>
vars   == <<mode, broken, device, polling, disturbed, kept, left, result>>

NoResult == values = [k \in Keys |-> None] /\ errors = {}

Init ==
  /\ mode \in {Session, OneRequest}
  /\ broken \in BOOLEAN
  /\ {expected, mute} \subseteq SUBSET Keys
  /\ ~polling /\ ~disturbed /\ ~kept /\ ~left
  /\ outcome = "none" /\ NoResult

Begin ==
  /\ ~polling /\ polling'
  /\ ~disturbed'
  /\ kept' \in BOOLEAN /\ (kept' => mode = Session)
  /\ ~left'
  /\ outcome' = "none" /\ NoResult'
  /\ UNCHANGED <<mode, broken, device>>

(* The transport is promoted, and never back, only for a reason.           *)
Promote ==
  /\ mode = Session /\ mode' = OneRequest
  /\ broken \/ disturbed'

Work ==
  /\ polling /\ polling'
  /\ disturbed' \in BOOLEAN /\ (disturbed => disturbed')
  /\ Promote \/ UNCHANGED mode
  /\ broken' \in BOOLEAN
  /\ UNCHANGED <<device, kept, left, result>>

(* Only a network that fails keeps a poll from its device.                 *)
Fail ==
  /\ polling /\ ~polling'
  /\ disturbed'
  /\ outcome' = "unreachable" /\ NoResult'
  /\ ~left'
  /\ broken' \in BOOLEAN
  /\ UNCHANGED <<mode, device, kept>>

Without(given) == {k \in Keys : given[k] = None}

AtLeast(n, S) ==
  \E f \in [1 .. n -> S] : \A i, j \in 1 .. n : f[i] = f[j] => i = j

Deliver ==
  /\ polling /\ ~polling'
  /\ outcome' = "result"
  /\ values' \in [Keys -> {mode, None}]
  /\ errors' \in SUBSET Keys
  /\ \/ Without(values') \subseteq errors' \cup mute
     \/ AtLeast(AbortAfter, errors')
  /\ disturbed \/ expected \cap Without(values') = {}
  /\ left' \in BOOLEAN /\ (left' => kept /\ mode = Session)
  /\ broken' \in BOOLEAN
  /\ UNCHANGED <<mode, device, disturbed, kept>>

(* The device drops a connection that is left open.                        *)
Drop ==
  /\ ~polling /\ left
  /\ broken'
  /\ UNCHANGED <<mode, device, polling, disturbed, kept, left, result>>

Next == Begin \/ Work \/ Fail \/ Deliver \/ Drop

Spec == Init /\ [][Next]_vars
=============================================================================
