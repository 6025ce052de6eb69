----------------------------- MODULE FlightHistory -----------------------------
(***************************************************************************)
(* FlightState with history variables: what the samples really showed, kept*)
(* independently of the edge detectors, to say when the state machine may  *)
(* change its state.                                                       *)
(***************************************************************************)
EXTENDS FlightState

VARIABLES
  accSince,     \* first sample of the unbroken run of samples, up to the
                \*   apogee, that show a burning motor; -1 if the last did not
  heightSince,  \* the same, up to the liftoff, for the liftoff height
  stillSince,   \* the same, after the apogee, for the landing window
  heightFirst   \* the height detector decided the liftoff

history == <<accSince, heightSince, stillSince, heightFirst>>
hvars == <<pc, now, sp_state, offset_sample_counter, state, detector,
           ignition_count, burnout_count, trace,
           accSince, heightSince, stillSince, heightFirst>>

HInit ==
  /\ Init
  /\ accSince = -1 /\ heightSince = -1 /\ stillSince = -1
  /\ heightFirst = FALSE

Since(old, cond) == IF ~cond THEN -1 ELSE IF old = -1 THEN now ELSE old

BeforeLiftoff == state \in {"STARTUP", "PAD_IDLE", "PAD_READY"}
AfterApogee == state \in {"DESCENDING", "LANDED"}

Observe(s) ==
  /\ accSince' = Since(accSince, ~AfterApogee /\ AccAboveThreshold(s))
  /\ heightSince' = Since(heightSince, BeforeLiftoff /\ HeightAboveThreshold(s))
  /\ stillSince' = Since(stillSince, AfterApogee /\ InLandingWindow(s))
  /\ heightFirst' = (heightFirst \/ (state = "PAD_READY" /\ HeightLiftoff(s)))

HNext ==
  \/ (Boot \/ SignalProcessingMain) /\ UNCHANGED history
  \/ \E s \in Samples : FlightstateUpdate(s) /\ Observe(s)

HSpec == HInit /\ [][HNext]_hvars
--------------------------------------------------------------------------------
HeldFor(since, hold) == since # -1 /\ now - since >= hold

\* No liftoff on a glitch: PAD_READY is left only after every sample of at
\* least 50 ms showed the acceleration of a burning motor, or after every
\* sample of at least 50 ms showed the liftoff height.
LiftoffHeld ==
  [][state = "PAD_READY" /\ state' = "BOOST" =>
       HeldFor(accSince', 50) \/ HeldFor(heightSince', 50)]_hvars

\* A further ignition is held for 50 ms as well, with one exception, the
\* acceleration detector left armed when the height detector decided the
\* liftoff: the second ignition of such a flight may come from one sample.
ReignitionHeld ==
  [][state = "COAST" /\ state' = "BOOST" =>
       \/ HeldFor(accSince', 50)
       \/ heightFirst /\ ignition_count = 1]_hvars

\* A touchdown is announced only after every sample of at least 1000 ms was in
\* the landing window, and all of those samples lie after the apogee: the rest
\* on the pad and the standstill at the apogee do not count towards it.
TouchdownHeld ==
  [][state = "DESCENDING" /\ state' = "LANDED" =>
       HeldFor(stillSince', 1000)]_hvars
================================================================================
