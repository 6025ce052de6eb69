-------------------------------- MODULE Outputs --------------------------------
(***************************************************************************)
(* The outputs of the flight computer together: the Lua thread fires pyro  *)
(* channels, sets servos and the LED; the beeper thread beeps; the shell   *)
(* sets servos; pyro channels and beeper share the system work queue.      *)
(***************************************************************************)
EXTENDS Pyros, Beeper, Servos, Led

\* The work items of the queue that are modelled.
ASSUME OutputsAssumption == Work = Pyro \cup {Beep}

vars == <<queueVars, pyroVars, beeperVars, servoVars, shown>>

Init ==
  /\ \E ready \in SUBSET Pyro : PyrosInit(ready) /\ QueueInit(ready)
  /\ BeeperInit /\ ServosInit /\ LedInit

\* pyros_fire, by the Lua thread.
PyroCall == (\E c \in Pyro : Fire(c)) \/ ScheduleOff

\* The beeper thread, and the mission it tells.
BeeperStep == Advance \/ LogicBeeps \/ BeepStarts \/ LogicWakes

\* A call of the Lua thread, between two calls of pyros_fire, or of the shell.
ServoSet(s, angle) ==
  /\ ~fault
  /\ SetAngle(s, angle)
  /\ UNCHANGED queueVars

ServoTrap(s) ==
  /\ ~fault /\ Traps(s)
  /\ fault' = TRUE
  /\ UNCHANGED <<initialised, delayed, workq, servoVars>>

LedSet == ~fault /\ firing = 0 /\ LedCall

\* The thread of the work queue.
QueueThread ==
  \/ \E c \in Pyro : PyroHandler(c) /\ UNCHANGED <<beeperVars, servoVars, shown>>
  \/ BeepHandler /\ UNCHANGED <<pyroVars, servoVars, shown>>
  \/ \E w \in Work : RunsNothing(w) /\ UNCHANGED <<pyroVars, beeperVars, servoVars, shown>>

DelayEnds(w) == Timeout(w) /\ UNCHANGED <<pyroVars, beeperVars, servoVars, shown>>

FireEnds == ScheduleOff /\ UNCHANGED <<beeperVars, servoVars, shown>>

Next ==
  \/ PyroCall /\ UNCHANGED <<beeperVars, servoVars, shown>>
  \/ BeeperStep /\ UNCHANGED <<pyroVars, servoVars, shown>>
  \/ \E w \in Work : DelayEnds(w)
  \/ QueueThread
  \/ /\ \E s \in Servo : ServoTrap(s) \/ \E angle \in Angles : ServoSet(s, angle)
     /\ UNCHANGED <<pyroVars, beeperVars, shown>>
  \/ LedSet /\ UNCHANGED <<queueVars, pyroVars, beeperVars, servoVars>>

Spec == Init /\ [][Next]_vars

\* Delays end, the work queue is a cooperative thread above its callers, and a
\* call of pyros_fire that has begun goes on.
FairSpec ==
  /\ Spec
  /\ \A w \in Work : WF_vars(DelayEnds(w))
  /\ WF_vars(QueueThread)
  /\ WF_vars(FireEnds)

TypeOK ==
  /\ initialised \subseteq Work /\ delayed \subseteq Work /\ workq \in Seq(Work)
  /\ fault \in BOOLEAN
  /\ pin \in [Pyro -> BOOLEAN] /\ stuck \subseteq Pyro /\ firing \in Pyro \cup {0}
  /\ beeps \in BOOLEAN /\ logic \in {"loop", "beepn", "sleep"}
  /\ lock \in 0..1 /\ count \in 0..2 /\ tone \in BOOLEAN /\ failed \in BOOLEAN
  /\ min_us \in [Servo -> Nat] /\ max_us \in [Servo -> Nat] /\ pulse \in [Servo -> Nat]
  /\ shown \in [1..3 -> Byte]
================================================================================
