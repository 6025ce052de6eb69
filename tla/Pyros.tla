--------------------------------- MODULE Pyros ---------------------------------
(***************************************************************************)
(* The pyro channels (pyros.c): firing a channel sets its pin and leaves   *)
(* it to a delayed work item to take it back.  The Lua thread is the only  *)
(* caller; the work queue can preempt it between the two steps.            *)
(***************************************************************************)
EXTENDS WorkQueue, Integers

CONSTANT NUM_PYROS

ASSUME PyrosAssumption == NUM_PYROS \in Nat

VARIABLES
  pin,     \* per channel, the level of its pin
  stuck,   \* channels whose last switch-off failed
  firing   \* the channel pyros_fire is working on, or 0

pyroVars == <<pin, stuck, firing>>

Pyro == 1..NUM_PYROS

\* pyros_init gives up at the first channel that fails: those before it are
\* outputs with a work item, the others are neither.
PyrosInit(ready) ==
  /\ ready \in {1..k : k \in 0..NUM_PYROS}
  /\ pin = [c \in Pyro |-> FALSE] /\ stuck = {} /\ firing = 0

\* pyros_fire up to gpio_pin_set.  A failed write is only reported; the pin of a
\* channel that is not an output stays as it is.
Fire(c) ==
  /\ ~fault /\ firing = 0
  /\ firing' = c
  /\ \/ UNCHANGED pin
     \/ c \in initialised /\ pin' = [pin EXCEPT ![c] = TRUE]
  /\ UNCHANGED <<stuck, queueVars>>

\* Mutant of ScheduleOff: the delay starts anew with every fire.
RescheduleOff ==
  /\ ~fault /\ firing # 0
  /\ delayed' = delayed \cup {firing} /\ workq' = SelectSeq(workq, LAMBDA w : w # firing)
  /\ firing' = 0
  /\ UNCHANGED <<pin, stuck, initialised, fault>>

\* pyros_fire from k_work_schedule on.
ScheduleOff ==
  /\ ~fault /\ firing # 0
  /\ Schedule(firing)
  /\ firing' = 0
  /\ UNCHANGED <<pin, stuck>>

\* Mutant of PyroHandler: always the pin of the first channel.
PyroHandlerFirst(c) ==
  /\ Runs(c) /\ c \in initialised
  /\ \/ pin' = [pin EXCEPT ![1] = FALSE] /\ stuck' = stuck \ {c}
     \/ UNCHANGED pin /\ stuck' = stuck \cup {c}
  /\ Handled(c, FALSE)
  /\ UNCHANGED firing

\* pyro_work_handler: a failed write is reported and not repeated.
PyroHandler(c) ==
  /\ Runs(c) /\ c \in initialised
  /\ \/ pin' = [pin EXCEPT ![c] = FALSE] /\ stuck' = stuck \ {c}
     \/ UNCHANGED pin /\ stuck' = stuck \cup {c}
  /\ Handled(c, FALSE)
  /\ UNCHANGED firing

\* A channel that is on will be switched off, or is just being fired, or its last
\* switch-off failed: no order of fires and switch-offs leaves one on.
SwitchOffPending ==
  \A c \in Pyro : pin[c] => Pending(c) \/ firing = c \/ c \in stuck

\* Every channel goes off again, even one that is fired again and again.
PyroGoesOff == \A c \in Pyro : pin[c] ~> ~pin[c] \/ c \in stuck \/ fault
================================================================================
