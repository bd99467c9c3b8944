----------------------------- MODULE FleetTiming -----------------------------
(***************************************************************************)
(* What an entry derives from the number of entries when it is set up: a   *)
(* floor for its scan interval, and a delay that spreads the setups of a   *)
(* fleet.  Pure functions of startup_stagger.py and scan_interval_guard.py;*)
(* RefreshCycleProofs proves what they guarantee for fleets of every size. *)
(*                                                                         *)
(* Entry ids are ordered; they are numbers here.  A delay is given in      *)
(* units of a second divided by the number of entries, as an integer.      *)
(***************************************************************************)
EXTENDS Integers, FiniteSets

Larger(a, b)  == IF a >= b THEN a ELSE b
Smaller(a, b) == IF a <= b THEN a ELSE b

(* compute_effective_scan_interval()                                       *)
EffectiveScan(configured, entries) ==
  LET c == Larger(configured, 1)
      n == Larger(entries, 1)
  IN IF n <= 8 THEN c
     ELSE Larger(c, Smaller(Larger(2 * n, 20), 120))

(* compute_startup_stagger_delay(): the index in the sorted ids, the       *)
(* window, and the delay times the number of entries.                      *)
SlotIndex(ids, id) == Cardinality({e \in ids : e < id})

Window(entries, scan) == Smaller(Larger(scan, entries), 60)

StaggerDelay(ids, id, scan) ==
  IF Cardinality(ids) <= 1 \/ id \notin ids THEN 0
  ELSE SlotIndex(ids, id) * Window(Cardinality(ids), scan)
=============================================================================
