----------------------------- MODULE EdgeDetector -----------------------------
(***************************************************************************)
(* The debounced edge detector of edge_detector.c, as operators on a       *)
(* detector record.  A detector reports its condition once the condition   *)
(* has been seen true in samples that span at least min_hold_time; a       *)
(* report does not touch the stored condition, so a detector that has      *)
(* reported keeps reporting until its owner resets it.                     *)
(***************************************************************************)
EXTENDS Integers

Detector == [min_hold_time : Nat, last_edge_time : Int, last_state : BOOLEAN]

\* edge_detector_init: no edge seen so far.
DetectorInit(hold) ==
  [min_hold_time |-> hold, last_edge_time |-> -1, last_state |-> FALSE]

\* The edge the update at time t measures from: a new one at a rising
\* condition, the stored one otherwise.
EdgeTime(d, cond, t) == IF cond /\ ~d.last_state THEN t ELSE d.last_edge_time

\* Mutant of Reports: the hold time is ignored.
ReportsAtOnce(d, cond, t) == cond

\* The value edge_detector_update returns.
Reports(d, cond, t) == cond /\ t - EdgeTime(d, cond, t) >= d.min_hold_time

\* The detector edge_detector_update leaves behind.  The early return of a
\* report skips the assignment of last_state.
Updated(d, cond, t) ==
  [d EXCEPT !.last_edge_time = EdgeTime(d, cond, t),
            !.last_state = IF Reports(d, cond, t) THEN d.last_state ELSE cond]

\* edge_detector_reset.
Reset(d) == [d EXCEPT !.last_state = FALSE, !.last_edge_time = -1]

\* The three conditions, edge_detector_cond_gt, _st and _window.
CondGt(value, threshold) == value >= threshold
CondSt(value, threshold) == value <= threshold
CondWindow(value, target, width) ==
  value <= target + width /\ value >= target - width
===============================================================================
