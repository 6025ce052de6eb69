--------------------------------- MODULE Beeper ---------------------------------
(***************************************************************************)
(* The beeper (beeper.c) and the thread that tells the state of the        *)
(* mission by beeps (beeper_logic.c).  A beep is a sequence of steps of    *)
(* one work item; a semaphore keeps a second beep from starting meanwhile. *)
(***************************************************************************)
EXTENDS WorkQueue, Integers

VARIABLES
  beeps,     \* the mission is in a state that is told by beeps
  logic,     \* where rocket_beeper_logic_worker is: "loop", "beepn" or "sleep"
  lock,      \* the semaphore
  count,     \* steps of the sequence still to do
  tone,      \* the PWM gives a tone
  failed     \* the last PWM call failed

beeperVars == <<beeps, logic, lock, count, tone, failed>>

Beep == 0  \* its work item; those of the pyro channels have the numbers of their channels

BeeperInit ==
  /\ beeps = FALSE /\ logic = "loop"
  /\ lock = 1 /\ count = 0 /\ tone = FALSE /\ failed = FALSE

\* The mission moves on: it beeps on the pad and after the landing, not during
\* the start-up and the flight.
Advance ==
  /\ ~fault
  /\ beeps' = ~beeps
  /\ UNCHANGED <<logic, lock, count, tone, failed, queueVars>>

\* rocket_beeper_logic_worker and beepn up to the semaphore.  A beep is dropped
\* while another one goes on.
LogicBeeps ==
  /\ ~fault /\ logic = "loop" /\ beeps
  /\ IF lock = 1 THEN lock' = 0 /\ count' = 2 /\ logic' = "beepn"
                 ELSE logic' = "sleep" /\ UNCHANGED <<lock, count>>
  /\ UNCHANGED <<beeps, tone, failed, queueVars>>

\* beepn after the semaphore.
BeepStarts ==
  /\ ~fault /\ logic = "beepn"
  /\ logic' = "sleep"
  /\ InitAndSchedule(Beep)
  /\ UNCHANGED <<beeps, lock, count, tone, failed>>

\* The sleep between two beeps ends.  Only "sleep" gives the processor to the
\* threads of a lower priority; in the other states of the mission the thread
\* stays in its loop.
LogicWakes ==
  /\ ~fault /\ logic = "sleep"
  /\ logic' = "loop"
  /\ UNCHANGED <<beeps, lock, count, tone, failed, queueVars>>

\* Mutant of BeepHandler: the semaphore is given back at the last step but one.
BeepHandlerEarly ==
  /\ Runs(Beep)
  /\ tone' = (count % 2 = 0) /\ failed' = FALSE /\ count' = count - 1
  /\ lock' = IF count' <= 1 THEN 1 ELSE 0
  /\ Handled(Beep, count' > 0)
  /\ UNCHANGED <<beeps, logic>>

\* Mutant of BeepHandler: the steps begin with silence.
BeepHandlerSwapped ==
  /\ Runs(Beep)
  /\ \/ /\ tone' = (count % 2 = 1) /\ failed' = FALSE /\ count' = count - 1
        /\ lock' = IF count' = 0 THEN 1 ELSE 0
        /\ Handled(Beep, count' > 0)
     \/ failed' = TRUE /\ lock' = 1 /\ Handled(Beep, FALSE) /\ UNCHANGED <<tone, count>>
  /\ UNCHANGED <<beeps, logic>>

\* beep_work_handler: even steps give the tone, odd ones silence; a PWM call that
\* fails ends the sequence.
BeepHandler ==
  /\ Runs(Beep)
  /\ \/ /\ tone' = (count % 2 = 0) /\ failed' = FALSE /\ count' = count - 1
        /\ lock' = IF count' = 0 THEN 1 ELSE 0
        /\ Handled(Beep, count' > 0)
     \/ failed' = TRUE /\ lock' = 1 /\ Handled(Beep, FALSE) /\ UNCHANGED <<tone, count>>
  /\ UNCHANGED <<beeps, logic>>

\* The semaphore is taken exactly while a beep is under way: no second beep can
\* initialise the work item under the first one, and no failure keeps the lock.
BeepLockOwned == lock = 0 <=> (logic = "beepn" \/ Pending(Beep))

\* When no beep is under way there is silence, unless a PWM call failed.
SilentWhenFree == lock = 1 /\ ~failed => ~tone
================================================================================
