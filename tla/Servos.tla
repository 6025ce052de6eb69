--------------------------------- MODULE Servos ---------------------------------
(***************************************************************************)
(* The servos (servos.c), set by the Lua thread and by the shell.          *)
(***************************************************************************)
EXTENDS Integers

CONSTANTS
  NUM_SERVOS,
  Angles      \* angles a script or a user asks for

ASSUME ServosAssumption == NUM_SERVOS \in Nat /\ Angles \subseteq Int

VARIABLES
  min_us, max_us, \* per servo, the limits of its pulse
  pulse           \* per servo, the pulse the PWM gives, in microseconds

servoVars == <<min_us, max_us, pulse>>

Servo == 0..(NUM_SERVOS - 1)

\* servo_init gives up at the first servo whose device is not ready; the others
\* keep the zeros of their static data.
ServosInit ==
  /\ \E k \in 0..NUM_SERVOS :
       /\ min_us = [s \in Servo |-> IF s < k THEN 800 ELSE 0]
       /\ max_us = [s \in Servo |-> IF s < k THEN 2200 ELSE 0]
  /\ pulse = [s \in Servo |-> 0]

\* Mutant of Clamp: no upper limit.
ClampBelow(us, low, high) == IF us < low THEN low ELSE us

Clamp(us, low, high) == IF us > high THEN high ELSE IF us < low THEN low ELSE us

\* The conversion of servo_set_angle; the angle is cut to 8 bits.
Width(angle, low, high) == low + ((high - low) * (angle % 256)) \div 180

\* The division that computes the setpoint traps for a servo without limits.
Traps(s) == max_us[s] = min_us[s]

\* servo_set_angle and servo_set_us; the PWM call may fail.
SetAngle(s, angle) ==
  /\ ~Traps(s)
  /\ pulse' \in {pulse, [pulse EXCEPT ![s] =
                   Clamp(Width(angle, min_us[s], max_us[s]), min_us[s], max_us[s])]}
  /\ UNCHANGED <<min_us, max_us>>

\* Whatever angle is asked for, a servo gets no pulse or one within its limits.
ServoPulseInRange == \A s \in Servo : pulse[s] = 0 \/ pulse[s] \in min_us[s]..max_us[s]
================================================================================
