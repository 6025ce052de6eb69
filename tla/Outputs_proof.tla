----------------------------- MODULE Outputs_proof -----------------------------
(***************************************************************************)
(* The invariants of the outputs, for any number of pyro channels and      *)
(* servos and any angles and colours.  Lemmas on the work queue say what   *)
(* each of its calls does to the items that are pending; the argument about *)
(* channels and beeps then needs no sequences.                             *)
(***************************************************************************)
EXTENDS Outputs, TLAPS

USE DEF Pending

QueueTypes == initialised \subseteq Work /\ delayed \subseteq Work /\ workq \in Seq(Work)

\* An item is pending at most once: submitted once, or waiting for its delay.
PendingOnce ==
  /\ \A i, j \in 1..Len(workq) : workq[i] = workq[j] => i = j
  /\ \A w \in delayed : ~Contains(workq, w)

QueueOK == QueueTypes /\ PendingOnce

\* A submitted item is contained in the queue, and no other item is added.
LEMMA ContainsAppend ==
  ASSUME NEW S, NEW s \in Seq(S), NEW e \in S, NEW x
  PROVE  Contains(Append(s, e), x) <=> Contains(s, x) \/ x = e
BY DEF Contains

\* The items behind the first one of a sequence without doubles.
LEMMA ContainsTail ==
  ASSUME NEW S, NEW s \in Seq(S), s # <<>>, NEW x,
         \A i, j \in 1..Len(s) : s[i] = s[j] => i = j
  PROVE  Contains(Tail(s), x) <=> Contains(s, x) /\ x # Head(s)
<1>1. /\ Len(s) \in Nat /\ Len(s) > 0 /\ Len(Tail(s)) = Len(s) - 1 /\ Head(s) = s[1]
      /\ \A i \in 1..Len(Tail(s)) : Tail(s)[i] = s[i + 1]
  OBVIOUS
<1>2. ASSUME Contains(Tail(s), x) PROVE Contains(s, x) /\ x # Head(s)
  <2>1. PICK i \in 1..Len(Tail(s)) : Tail(s)[i] = x  BY <1>2 DEF Contains
  <2>2. i + 1 \in 1..Len(s) /\ s[i + 1] = x /\ i + 1 # 1  BY <1>1, <2>1
  <2>3. 1 \in 1..Len(s)  BY <1>1
  <2> QED  BY <1>1, <2>2, <2>3 DEF Contains
<1>3. ASSUME Contains(s, x), x # Head(s) PROVE Contains(Tail(s), x)
  <2>1. PICK i \in 1..Len(s) : s[i] = x  BY <1>3 DEF Contains
  <2>2. i - 1 \in 1..Len(Tail(s)) /\ Tail(s)[i - 1] = x  BY <1>1, <1>3, <2>1
  <2> QED  BY <2>2 DEF Contains
<1> QED  BY <1>2, <1>3

\* k_work_schedule makes its item pending and changes nothing for the others.
LEMMA SchedulePends ==
  ASSUME QueueOK, NEW w \in Work, Schedule(w)
  PROVE  QueueOK' /\ \A x : Pending(x)' <=> Pending(x) \/ x = w
BY DEF QueueOK, QueueTypes, PendingOnce, Schedule

\* A forgotten item that was not pending is pending after it was submitted.
LEMMA SubmitPends ==
  ASSUME QueueOK, NEW w \in Work, ~Pending(w), InitAndSchedule(w)
  PROVE  QueueOK' /\ \A x : Pending(x)' <=> Pending(x) \/ x = w
<1>1. \A x : Contains(workq, x)' <=> Contains(workq, x) \/ x = w
  BY ContainsAppend DEF QueueOK, QueueTypes, InitAndSchedule
<1>2. QueueTypes'  BY DEF QueueOK, QueueTypes, InitAndSchedule
<1>3. \A i \in 1..Len(workq) : workq[i] # w  BY DEF Contains
<1>4. \A i, j \in 1..Len(workq') : workq'[i] = workq'[j] => i = j
  BY <1>3 DEF QueueOK, QueueTypes, PendingOnce, InitAndSchedule
<1> QED  BY <1>1, <1>2, <1>4 DEF QueueOK, PendingOnce, InitAndSchedule

\* The end of a delay leaves the same items pending.
LEMMA TimeoutPends ==
  ASSUME QueueOK, NEW w \in Work, Timeout(w)
  PROVE  QueueOK' /\ \A x : Pending(x)' <=> Pending(x)
<1>1. \A x : Contains(workq, x)' <=> Contains(workq, x) \/ x = w
  BY ContainsAppend DEF QueueOK, QueueTypes, Timeout
<1>2. QueueTypes'  BY DEF QueueOK, QueueTypes, Timeout
<1>3. \A i \in 1..Len(workq) : workq[i] # w  BY DEF Contains, Timeout, QueueOK, PendingOnce
<1>4. \A i, j \in 1..Len(workq') : workq'[i] = workq'[j] => i = j
  BY <1>3 DEF QueueOK, QueueTypes, PendingOnce, Timeout
<1> QED  BY <1>1, <1>2, <1>4 DEF QueueOK, PendingOnce, Timeout

\* The item that was run is pending again only if its handler says so.
LEMMA HandledPends ==
  ASSUME QueueOK, NEW w \in Work, NEW again \in BOOLEAN, Runs(w), Handled(w, again)
  PROVE  /\ QueueOK'
         /\ \A x : Pending(x)' <=> IF x = w THEN again ELSE Pending(x)
<1>1. \A x : Contains(workq, x)' <=> Contains(workq, x) /\ x # w
  BY ContainsTail DEF QueueOK, QueueTypes, PendingOnce, Runs, Handled
<1>2. QueueTypes'  BY DEF QueueOK, QueueTypes, Handled, Runs
<1>3. workq # <<>> /\ workq \in Seq(Work) /\ workq' = Tail(workq)
  BY DEF QueueOK, QueueTypes, Runs, Handled
<1>4. \A i, j \in 1..Len(workq') : workq'[i] = workq'[j] => i = j
  BY <1>3 DEF QueueOK, PendingOnce
<1>5. \A x \in delayed' : ~Contains(workq, x)'
  BY <1>1 DEF QueueOK, PendingOnce, Handled
<1>6. Contains(workq, w)  BY <1>3 DEF Runs, Contains
<1>7. w \notin delayed  BY <1>6 DEF QueueOK, PendingOnce
<1> QED  BY <1>1, <1>2, <1>4, <1>5, <1>7 DEF QueueOK, PendingOnce, Handled
--------------------------------------------------------------------------------
(* Pyro channels and beeper *)

PyroTypes == pin \in [Pyro -> BOOLEAN] /\ stuck \subseteq Pyro /\ firing \in Pyro \cup {0}

BeeperFlags == beeps \in BOOLEAN /\ tone \in BOOLEAN /\ failed \in BOOLEAN

BeeperPlaces == logic \in {"loop", "beepn", "sleep"} /\ lock \in 0..1 /\ count \in 0..2

\* A pending beep has steps left, and one that is about to be submitted is not
\* pending yet: why its work item is not initialised under its feet.
BeepSteps ==
  /\ logic = "beepn" => ~Pending(Beep) /\ count = 2
  /\ Pending(Beep) => count \in 1..2

PyroInv == PyroTypes /\ SwitchOffPending

BeeperInv == BeeperFlags /\ BeeperPlaces /\ BeepSteps /\ BeepLockOwned /\ SilentWhenFree

QueueInv == QueueOK /\ PyroInv /\ BeeperInv

LEMMA WorkItems == Work = Pyro \cup {Beep} /\ Beep \notin Pyro /\ Beep = 0
BY OutputsAssumption DEF Pyro, Beep

\* Neither channels nor beeps are disturbed by a change of what is pending that
\* leaves their own items alone.
LEMMA PyroUndisturbed ==
  ASSUME PyroInv, UNCHANGED pyroVars, \A c \in Pyro : Pending(c)' <=> Pending(c)
  PROVE  PyroInv'
BY DEF PyroInv, PyroTypes, SwitchOffPending, pyroVars

LEMMA BeeperUndisturbed ==
  ASSUME BeeperInv, UNCHANGED beeperVars, Pending(Beep)' <=> Pending(Beep)
  PROVE  BeeperInv'
<1>1. BeeperFlags' /\ SilentWhenFree'
  BY Zenon DEF BeeperInv, BeeperFlags, SilentWhenFree, beeperVars
<1>2. BeeperPlaces' /\ BeepSteps' /\ BeepLockOwned'
  BY DEF BeeperInv, BeeperPlaces, BeepSteps, BeepLockOwned, beeperVars
<1> QED  BY <1>1, <1>2 DEF BeeperInv

LEMMA QueueUndisturbed ==
  ASSUME QueueOK, UNCHANGED queueVars
  PROVE  QueueOK' /\ \A w : Pending(w)' <=> Pending(w)
BY DEF QueueOK, QueueTypes, PendingOnce, queueVars

LEMMA QueueInit0 == Init => QueueInv
<1> SUFFICES ASSUME Init PROVE QueueInv  OBVIOUS
<1>1. PICK ready \in SUBSET Pyro : PyrosInit(ready) /\ QueueInit(ready)  BY DEF Init
<1>2. QueueOK /\ \A w : ~Pending(w)
  BY <1>1, WorkItems DEF QueueInit, QueueOK, QueueTypes, PendingOnce, Contains
<1>3. PyroInv  BY <1>1 DEF PyrosInit, PyroInv, PyroTypes, SwitchOffPending
<1>4. BeeperInv
  <2>1. BeeperPlaces /\ BeepSteps /\ BeepLockOwned
    BY <1>2 DEF Init, BeeperInit, BeeperPlaces, BeepSteps, BeepLockOwned
  <2>2. BeeperFlags /\ SilentWhenFree
    BY Zenon DEF Init, BeeperInit, BeeperFlags, SilentWhenFree
  <2> QED  BY <2>1, <2>2 DEF BeeperInv
<1> QED  BY <1>2, <1>3, <1>4 DEF QueueInv

LEMMA FireKeeps ==
  ASSUME QueueInv, NEW c \in Pyro, Fire(c), UNCHANGED beeperVars
  PROVE  QueueInv'
<1>1. QueueOK' /\ \A w : Pending(w)' <=> Pending(w)
  BY QueueUndisturbed DEF QueueInv, Fire
<1>2. PyroTypes'  BY DEF QueueInv, PyroInv, PyroTypes, Fire
<1>3. firing' = c /\ stuck' = stuck /\ \A d \in Pyro : d # c => pin'[d] = pin[d]
  BY DEF QueueInv, PyroInv, PyroTypes, Fire
<1>4. SwitchOffPending'
  <2> SUFFICES ASSUME NEW d \in Pyro, pin'[d], d # c PROVE Pending(d)' \/ d \in stuck'
    BY <1>3, Zenon DEF SwitchOffPending
  <2>1. firing # d  BY DEF Fire, Pyro
  <2> QED  BY <1>1, <1>3, <2>1, Zenon DEF QueueInv, PyroInv, SwitchOffPending
<1> QED  BY <1>1, <1>2, <1>4, BeeperUndisturbed DEF QueueInv, PyroInv

LEMMA ScheduleOffKeeps ==
  ASSUME QueueInv, ScheduleOff, UNCHANGED beeperVars
  PROVE  QueueInv'
<1>1. firing \in Pyro /\ firing \in Work
  BY WorkItems DEF QueueInv, PyroInv, PyroTypes, ScheduleOff
<1>2. QueueOK' /\ \A x : Pending(x)' <=> Pending(x) \/ x = firing
  BY <1>1, SchedulePends DEF QueueInv, ScheduleOff
<1>3. PyroInv'
  BY <1>2 DEF QueueInv, PyroInv, PyroTypes, SwitchOffPending, ScheduleOff
<1> QED  BY <1>1, <1>2, <1>3, WorkItems, BeeperUndisturbed DEF QueueInv

LEMMA BeeperStepKeeps ==
  ASSUME QueueInv, BeeperStep, UNCHANGED pyroVars
  PROVE  QueueInv'
<1>1. CASE Advance \/ LogicBeeps \/ LogicWakes
  <2>1. QueueOK' /\ \A w : Pending(w)' <=> Pending(w)
    BY <1>1, QueueUndisturbed DEF QueueInv, Advance, LogicBeeps, LogicWakes
  <2>2. BeeperFlags'
    BY <1>1, Zenon DEF QueueInv, BeeperInv, BeeperFlags, Advance, LogicBeeps, LogicWakes
  <2>3. BeeperPlaces' /\ BeepSteps' /\ BeepLockOwned'
    BY <1>1, <2>1 DEF QueueInv, BeeperInv, BeeperPlaces, BeepSteps, BeepLockOwned,
                      Advance, LogicBeeps, LogicWakes
  <2>4. lock' = 1 => lock = 1
    BY <1>1 DEF QueueInv, BeeperInv, BeeperPlaces, Advance, LogicBeeps, LogicWakes
  <2>5. SilentWhenFree'
    BY <1>1, <2>4, Zenon DEF QueueInv, BeeperInv, SilentWhenFree, Advance, LogicBeeps, LogicWakes
  <2> QED  BY <2>1, <2>2, <2>3, <2>5, PyroUndisturbed DEF QueueInv, BeeperInv
<1>2. CASE BeepStarts
  <2>1. QueueOK' /\ \A x : Pending(x)' <=> Pending(x) \/ x = Beep
    BY <1>2, SubmitPends, WorkItems DEF QueueInv, BeeperInv, BeepSteps, BeepStarts
  <2>2. BeeperPlaces' /\ BeepSteps' /\ BeepLockOwned'
    BY <1>2, <2>1 DEF QueueInv, BeeperInv, BeeperPlaces, BeepSteps, BeepLockOwned, BeepStarts
  <2>3. BeeperFlags' /\ SilentWhenFree'
    BY <1>2, Zenon DEF QueueInv, BeeperInv, BeeperFlags, SilentWhenFree, BeepStarts
  <2> QED  BY <2>1, <2>2, <2>3, PyroUndisturbed, WorkItems DEF QueueInv, BeeperInv
<1> QED  BY <1>1, <1>2 DEF BeeperStep

LEMMA DelayEndsKeeps ==
  ASSUME QueueInv, NEW w \in Work, DelayEnds(w)
  PROVE  QueueInv'
<1>1. QueueOK' /\ \A x : Pending(x)' <=> Pending(x)
  BY TimeoutPends DEF QueueInv, DelayEnds
<1> QED  BY <1>1, PyroUndisturbed, BeeperUndisturbed DEF QueueInv, DelayEnds

LEMMA PyroHandlerKeeps ==
  ASSUME QueueInv, NEW c \in Pyro, PyroHandler(c), UNCHANGED beeperVars
  PROVE  QueueInv'
<1>1. QueueOK' /\ \A x : Pending(x)' <=> IF x = c THEN FALSE ELSE Pending(x)
  BY HandledPends, WorkItems DEF QueueInv, PyroHandler
<1>2. PyroInv'
  BY <1>1 DEF QueueInv, PyroInv, PyroTypes, SwitchOffPending, PyroHandler
<1> QED  BY <1>1, <1>2, WorkItems, BeeperUndisturbed DEF QueueInv

LEMMA BeepHandlerKeeps ==
  ASSUME QueueInv, BeepHandler, UNCHANGED pyroVars
  PROVE  QueueInv'
<1>1. Pending(Beep) /\ count \in 1..2 /\ logic # "beepn"
  <2>1. Contains(workq, Beep)
    BY DEF QueueInv, QueueOK, QueueTypes, BeepHandler, Runs, Contains
  <2> QED  BY <2>1 DEF QueueInv, BeeperInv, BeepSteps
<1>2. count % 2 \in 0..1 /\ (count = 2 => count % 2 = 0) /\ (count = 1 => count % 2 = 1)
  BY <1>1
<1>3. \E again \in BOOLEAN :
        /\ Handled(Beep, again)
        /\ lock' = IF again THEN 0 ELSE 1
        /\ again => count' = 1 /\ count = 2
  <2>1. CASE failed' = TRUE /\ lock' = 1 /\ Handled(Beep, FALSE)
    BY <2>1
  <2>2. CASE /\ count' = count - 1
             /\ lock' = IF count' = 0 THEN 1 ELSE 0
             /\ Handled(Beep, count' > 0)
    <3>1. CASE count = 1
      <4>1. count' = 0 /\ (count' > 0) = FALSE  BY <2>2, <3>1
      <4> QED  BY <2>2, <4>1, Zenon
    <3>2. CASE count = 2
      <4>1. count' = 1 /\ (count' > 0) = TRUE /\ 1 # 0  BY <2>2, <3>2
      <4> QED  BY <2>2, <3>2, <4>1, Zenon
    <3> QED  BY <1>1, <3>1, <3>2
  <2> QED  BY <2>1, <2>2 DEF BeepHandler
<1>4. PICK again \in BOOLEAN :
        /\ Handled(Beep, again)
        /\ lock' = IF again THEN 0 ELSE 1
        /\ again => count' = 1 /\ count = 2
  BY <1>3
<1>5. QueueOK' /\ \A x : Pending(x)' <=> IF x = Beep THEN again ELSE Pending(x)
  BY <1>4, HandledPends, WorkItems DEF QueueInv, BeepHandler
<1>6. BeeperFlags'
  BY Zenon DEF QueueInv, BeeperInv, BeeperFlags, BeepHandler
<1>7. BeeperPlaces'
  <2>1. count' \in {count, count - 1}  BY DEF BeepHandler
  <2>2. count' \in 0..2 /\ lock' \in 0..1  BY <1>1, <1>4, <2>1
  <2> QED  BY <2>2 DEF QueueInv, BeeperInv, BeeperPlaces, BeepHandler
<1>8. SilentWhenFree'
  <2>1. CASE failed' = TRUE  BY <2>1, Zenon DEF SilentWhenFree
  <2>2. CASE tone' = (count % 2 = 0) /\ count' = count - 1 /\ lock' = IF count' = 0 THEN 1 ELSE 0
    <3>1. lock' = 1 => count = 1  BY <1>1, <2>2
    <3>2. lock' = 1 => count % 2 # 0  BY <1>2, <3>1
    <3> QED  BY <2>2, <3>2, Zenon DEF SilentWhenFree
  <2> QED  BY <2>1, <2>2, Zenon DEF BeepHandler
<1>9. BeepSteps' /\ BeepLockOwned'
  BY <1>1, <1>4, <1>5 DEF BeepSteps, BeepLockOwned, BeepHandler
<1> QED
  BY <1>5, <1>6, <1>7, <1>8, <1>9, PyroUndisturbed, WorkItems DEF QueueInv, BeeperInv

LEMMA QueueThreadKeeps ==
  ASSUME QueueInv, QueueThread
  PROVE  QueueInv'
<1>1. CASE \E c \in Pyro : PyroHandler(c) /\ UNCHANGED <<beeperVars, servoVars, shown>>
  BY <1>1, PyroHandlerKeeps
<1>2. CASE BeepHandler /\ UNCHANGED <<pyroVars, servoVars, shown>>
  BY <1>2, BeepHandlerKeeps
<1>3. CASE \E w \in Work : RunsNothing(w) /\ UNCHANGED <<pyroVars, beeperVars, servoVars, shown>>
  <2>1. QueueOK' /\ \A w : Pending(w)' <=> Pending(w)
    BY <1>3 DEF QueueInv, QueueOK, QueueTypes, PendingOnce, RunsNothing
  <2> QED  BY <1>3, <2>1, PyroUndisturbed, BeeperUndisturbed DEF QueueInv
<1> QED  BY <1>1, <1>2, <1>3 DEF QueueThread
--------------------------------------------------------------------------------
(* Servos and LED *)

\* The limits of a servo never change and are in order.
ServoTypes ==
  /\ min_us \in [Servo -> Nat] /\ max_us \in [Servo -> Nat] /\ pulse \in [Servo -> Nat]
  /\ \A s \in Servo : min_us[s] <= max_us[s]

ServoInv == ServoTypes /\ ServoPulseInRange

\* A clamped pulse is within the limits.
LEMMA ClampInRange ==
  ASSUME NEW us \in Int, NEW low \in Nat, NEW high \in Nat, low <= high
  PROVE  Clamp(us, low, high) \in low..high
BY DEF Clamp

LEMMA ServosInitially == ServosInit => ServoInv
BY DEF ServosInit, ServoInv, ServoTypes, ServoPulseInRange

LEMMA SetAngleKeeps ==
  ASSUME ServoInv, NEW s \in Servo, NEW angle \in Angles, SetAngle(s, angle)
  PROVE  ServoInv'
<1> DEFINE us == Width(angle, min_us[s], max_us[s])
           p == Clamp(us, min_us[s], max_us[s])
<1>1. /\ min_us[s] \in Nat /\ max_us[s] \in Nat /\ min_us[s] <= max_us[s]
      /\ angle \in Int
  BY ServosAssumption DEF ServoInv, ServoTypes
<1>2. us \in Int
  <2>1. angle % 256 \in Int  BY <1>1
  <2>2. (max_us[s] - min_us[s]) * (angle % 256) \in Int  BY <1>1, <2>1
  <2> QED  BY <1>1, <2>2 DEF Width
<1>3. p \in min_us[s]..max_us[s]  BY <1>1, <1>2, ClampInRange
<1>4. /\ pulse' \in {pulse, [pulse EXCEPT ![s] = p]}
      /\ UNCHANGED <<min_us, max_us>>
  BY DEF SetAngle
<1> HIDE DEF p
<1> QED  BY <1>1, <1>3, <1>4 DEF ServoInv, ServoTypes, ServoPulseInRange

LedInv == shown \in [1..3 -> Byte]

LEMMA SetColourKeeps ==
  ASSUME LedInv, NEW w \in [1..4 -> Byte], SetColour(w)
  PROVE  LedInv'
<1>1. Bytes(w) \in [1..3 -> Byte]  BY DEF Bytes
<1>2. PICK ok \in 0..3 : shown' = [i \in 1..3 |-> IF i <= ok THEN Bytes(w)[i] ELSE shown[i]]
  BY DEF SetColour
<1> QED  BY <1>1, <1>2 DEF LedInv

LEMMA LedCallKeeps == LedInv /\ LedCall => LedInv'
BY LedAssumption, SetColourKeeps DEF LedCall

LEMMA LedInitially == LedInit => LedInv
BY DEF LedInit, LedInv, Byte
--------------------------------------------------------------------------------

IInv == QueueInv /\ ServoInv /\ LedInv /\ fault \in BOOLEAN

LEMMA Initially == Init => IInv
<1>1. Init => fault \in BOOLEAN  BY Zenon DEF Init, QueueInit
<1> QED  BY <1>1, QueueInit0, ServosInitially, LedInitially DEF Init, IInv

\* Every step leaves the processor without a fault or takes one.
LEMMA FaultKeeps == IInv /\ [Next]_vars => fault' \in BOOLEAN
<1> SUFFICES ASSUME IInv, [Next]_vars PROVE fault' = fault \/ fault' = TRUE
  BY Zenon DEF IInv
<1>1. CASE PyroCall /\ UNCHANGED <<beeperVars, servoVars, shown>>
  BY <1>1 DEF PyroCall, Fire, ScheduleOff, Schedule, queueVars
<1>2. CASE BeeperStep /\ UNCHANGED <<pyroVars, servoVars, shown>>
  BY <1>2 DEF BeeperStep, Advance, LogicBeeps, BeepStarts, LogicWakes, InitAndSchedule, queueVars
<1>3. ASSUME NEW w \in Work, DelayEnds(w) PROVE fault' = fault
  BY <1>3 DEF DelayEnds, Timeout
<1>4. CASE QueueThread
  BY <1>4, Zenon DEF QueueThread, PyroHandler, BeepHandler, Handled, RunsNothing
<1>5. ASSUME NEW s \in Servo, ServoTrap(s) \/ \E angle \in Angles : ServoSet(s, angle)
      PROVE  fault' = fault \/ fault' = TRUE
  BY <1>5, Zenon DEF ServoTrap, ServoSet, queueVars
<1>6. CASE LedSet /\ UNCHANGED <<queueVars, pyroVars, beeperVars, servoVars>>
  BY <1>6 DEF queueVars
<1>7. CASE UNCHANGED vars
  BY <1>7 DEF vars, queueVars
<1> QED  BY <1>1, <1>2, <1>3, <1>4, <1>5, <1>6, <1>7 DEF Next

LEMMA StepKeeps == IInv /\ [Next]_vars => IInv'
<1> SUFFICES ASSUME IInv, [Next]_vars PROVE QueueInv' /\ ServoInv' /\ LedInv'
  BY FaultKeeps DEF IInv
<1> QueueInv /\ ServoInv /\ LedInv  BY DEF IInv
<1>1. ASSUME UNCHANGED servoVars PROVE ServoInv'
  BY <1>1 DEF ServoInv, ServoTypes, ServoPulseInRange, servoVars
<1>2. ASSUME UNCHANGED <<queueVars, pyroVars, beeperVars>> PROVE QueueInv'
  BY <1>2, QueueUndisturbed, PyroUndisturbed, BeeperUndisturbed DEF QueueInv
<1>3. ASSUME UNCHANGED shown PROVE LedInv'
  BY <1>3 DEF LedInv
<1>4. CASE PyroCall /\ UNCHANGED <<beeperVars, servoVars, shown>>
  BY <1>1, <1>3, <1>4, FireKeeps, ScheduleOffKeeps DEF PyroCall
<1>5. CASE BeeperStep /\ UNCHANGED <<pyroVars, servoVars, shown>>
  BY <1>1, <1>3, <1>5, BeeperStepKeeps
<1>6. ASSUME NEW w \in Work, DelayEnds(w) PROVE QueueInv' /\ ServoInv' /\ LedInv'
  BY <1>1, <1>3, <1>6, DelayEndsKeeps DEF DelayEnds
<1>7. CASE QueueThread
  BY <1>1, <1>3, <1>7, QueueThreadKeeps DEF QueueThread
<1>8. ASSUME NEW s \in Servo, NEW angle \in Angles, ServoSet(s, angle),
             UNCHANGED <<pyroVars, beeperVars, shown>>
      PROVE  QueueInv' /\ ServoInv' /\ LedInv'
  BY <1>2, <1>3, <1>8, SetAngleKeeps DEF ServoSet
<1>9. ASSUME NEW s \in Servo, ServoTrap(s), UNCHANGED <<pyroVars, beeperVars, shown>>
      PROVE  QueueInv' /\ ServoInv' /\ LedInv'
  <2>1. QueueOK' /\ \A w : Pending(w)' <=> Pending(w)
    BY <1>9 DEF QueueInv, QueueOK, QueueTypes, PendingOnce, ServoTrap
  <2> QED
    BY <1>1, <1>3, <1>9, <2>1, PyroUndisturbed, BeeperUndisturbed DEF QueueInv, ServoTrap
<1>10. CASE LedSet /\ UNCHANGED <<queueVars, pyroVars, beeperVars, servoVars>>
  BY <1>1, <1>2, <1>10, LedCallKeeps DEF LedSet
<1>11. CASE UNCHANGED vars
  BY <1>1, <1>2, <1>3, <1>11 DEF vars
<1> QED  BY <1>4, <1>5, <1>6, <1>7, <1>8, <1>9, <1>10, <1>11 DEF Next

LEMMA Inductive == Spec => []IInv
BY Initially, StepKeeps, PTL DEF Spec

\* The type invariant of the outputs, for any number of channels and servos and
\* whatever angles, negative ones among them, and colour words they are given.
THEOREM TypeCorrect == Spec => []TypeOK
<1>1. IInv => TypeOK
  <2> SUFFICES ASSUME IInv PROVE TypeOK  OBVIOUS
  <2>1. QueueTypes /\ PyroTypes  BY DEF IInv, QueueInv, QueueOK, PyroInv
  <2>2. BeeperPlaces /\ BeeperFlags  BY DEF IInv, QueueInv, BeeperInv
  <2>3. ServoTypes /\ LedInv /\ fault \in BOOLEAN  BY DEF IInv, ServoInv
  <2> QED
    BY <2>1, <2>2, <2>3, Zenon
    DEF TypeOK, QueueTypes, PyroTypes, BeeperPlaces, BeeperFlags, ServoTypes, LedInv
<1> QED  BY <1>1, Inductive, PTL

\* No pyro channel stays on unattended: for any number of channels and whatever
\* order of fires, timeouts and handlers, a channel that is on has its switch-off
\* pending, is just being fired, or could not be switched off.
THEOREM SwitchOffCorrect == Spec => []SwitchOffPending
<1>1. IInv => SwitchOffPending  BY DEF IInv, QueueInv, PyroInv
<1> QED  BY <1>1, Inductive, PTL

\* The semaphore of the beeper is taken exactly while a beep is under way.
THEOREM BeepLockCorrect == Spec => []BeepLockOwned
<1>1. IInv => BeepLockOwned  BY DEF IInv, QueueInv, BeeperInv
<1> QED  BY <1>1, Inductive, PTL

\* Between two beeps there is silence, unless a PWM call failed.
THEOREM SilenceCorrect == Spec => []SilentWhenFree
<1>1. IInv => SilentWhenFree  BY DEF IInv, QueueInv, BeeperInv
<1> QED  BY <1>1, Inductive, PTL

\* A servo gets no pulse or one within its limits, whatever angle is asked for.
THEOREM PulseCorrect == Spec => []ServoPulseInRange
<1>1. IInv => ServoPulseInRange  BY DEF IInv, ServoInv
<1> QED  BY <1>1, Inductive, PTL
================================================================================
