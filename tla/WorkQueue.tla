------------------------------- MODULE WorkQueue -------------------------------
(***************************************************************************)
(* The system work queue of the kernel as pyros.c and beeper.c use it:     *)
(* work items with a delay, run one at a time by a cooperative thread that *)
(* preempts every thread calling them.                                     *)
(***************************************************************************)
EXTENDS Sequences, SequencesExt

CONSTANT Work  \* the work items of the modules that share the queue

VARIABLES
  initialised, \* items k_work_init_delayable was called for
  delayed,     \* items whose delay is running
  workq,       \* items submitted, the next to run first
  fault        \* the processor took a fault

queueVars == <<initialised, delayed, workq, fault>>

QueueInit(items) ==
  /\ initialised = items
  /\ delayed = {} /\ workq = <<>> /\ fault = FALSE

Pending(w) == w \in delayed \/ Contains(workq, w)

\* k_work_schedule: an item that is already pending is left as it is.
Schedule(w) ==
  /\ delayed' = IF Pending(w) THEN delayed ELSE delayed \cup {w}
  /\ UNCHANGED <<initialised, workq, fault>>

\* k_work_schedule with K_NO_WAIT, after k_work_init_delayable, which forgets
\* that an item is pending.
InitAndSchedule(w) ==
  /\ initialised' = initialised \cup {w}
  /\ workq' = Append(workq, w)
  /\ UNCHANGED <<delayed, fault>>

\* The delay of an item is over.
Timeout(w) ==
  /\ ~fault /\ w \in delayed
  /\ delayed' = delayed \ {w} /\ workq' = Append(workq, w)
  /\ UNCHANGED <<initialised, fault>>

\* The queue runs the handler of w, which leaves w to be run again if again.
Runs(w) == ~fault /\ workq # <<>> /\ Head(workq) = w

Handled(w, again) ==
  /\ workq' = Tail(workq)
  /\ delayed' = IF again THEN delayed \cup {w} ELSE delayed
  /\ UNCHANGED <<initialised, fault>>

\* An item without handler.
RunsNothing(w) ==
  /\ Runs(w) /\ w \notin initialised
  /\ fault' = TRUE
  /\ UNCHANGED <<initialised, delayed, workq>>
================================================================================
