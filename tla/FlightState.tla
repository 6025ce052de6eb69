------------------------------ MODULE FlightState ------------------------------
(***************************************************************************)
(* The flight state machine (rocket/flightstate.c) on top of the start-up  *)
(* phase of the signal processing (rocket/signal_processing.c), driven by  *)
(* the main loop of main.c.                                                *)
(*                                                                         *)
(* An iteration of the main loop is two steps: signal_processing_main,     *)
(* which blocks in daq_sync until the next sample (this is where time      *)
(* passes), and flightstate_update, which runs one state of the machine on *)
(* that sample.  Both run on the cooperative main thread.  Times are       *)
(* milliseconds; accelerations, heights and velocities are integers on and *)
(* next to the thresholds of the code.                                     *)
(***************************************************************************)
EXTENDS EdgeDetector, Sequences

CONSTANTS
  OffsetSamples,  \* samples averaged on the pad; offset_samples, 100
  TimeSteps,      \* possible delays between two samples
  Accs,           \* values of signal_a_w, vertical component
  Vels,           \* values of signal_v_w, vertical component
  Heights,        \* values of signal_h
  MaxIgnitions    \* bound: no sample arrives after more ignitions than this

ASSUME FlightAssumption ==
  /\ OffsetSamples \in Nat \ {0}
  /\ TimeSteps \subseteq Nat \ {0}
  /\ Accs \subseteq Int
  /\ Vels \subseteq Int
  /\ Heights \subseteq Int
  /\ MaxIgnitions \in Nat

VARIABLES
  pc,                     \* "boot", then "signal" and "flight" in turn
  now,                    \* k_uptime_get()
  sp_state,               \* state of the signal processing
  offset_sample_counter,
  state,                  \* state of the flight state machine
  detector,               \* the five edge detectors
  ignition_count,
  burnout_count,
  trace                   \* the events fired so far

vars == <<pc, now, sp_state, offset_sample_counter, state, detector,
          ignition_count, burnout_count, trace>>

ignition_acceleration_threshold == 20
liftoff_height == 5
landing_window_width == 5
apogee_velocity_limit == 300

Missions == {"STARTUP", "PAD_IDLE", "PAD_READY", "BOOST", "COAST",
             "DESCENDING", "LANDED"}

\* Mutant of MinHold: the landing is held for a tenth of its time.
MinHoldHasty == [apogee |-> 0, burnout |-> 0, ignition |-> 50,
                 landing |-> 100, height_liftoff |-> 50]

\* Minimum hold times, as flightstate_init passes them to edge_detector_init.
MinHold == [apogee |-> 0, burnout |-> 0, ignition |-> 50,
            landing |-> 1000, height_liftoff |-> 50]

Samples == [acc : Accs, vel : Vels, height : Heights]

\* flightstate_init and signal_processing_init, before the 1 s sleep of main.
Init ==
  /\ pc = "boot"
  /\ now = 0
  /\ sp_state = "STARTING"
  /\ offset_sample_counter = 0
  /\ state = "STARTUP"
  /\ detector = [d \in DOMAIN MinHold |-> DetectorInit(MinHold[d])]
  /\ ignition_count = 0
  /\ burnout_count = 0
  /\ trace = <<>>

\* main fires event_boot and enters the loop.
Boot ==
  /\ pc = "boot"
  /\ pc' = "signal"
  /\ trace' = Append(trace, "boot")
  /\ UNCHANGED <<now, sp_state, offset_sample_counter, state, detector,
                 ignition_count, burnout_count>>
--------------------------------------------------------------------------------
(* signal_processing_main: daq_sync returns when the next sample is there. *)

\* sample_offsets: another sample of the pad altitude; the last one ends the
\* start-up of the signal processing.
SampleOffsets ==
  /\ sp_state = "STARTING"
  /\ offset_sample_counter' = offset_sample_counter + 1
  /\ IF offset_sample_counter + 1 >= OffsetSamples
     THEN sp_state' = "ON_GROUND" /\ trace' = Append(trace, "processing_ready")
     ELSE UNCHANGED <<sp_state, trace>>

ProcessSample ==
  /\ sp_state = "ON_GROUND"
  /\ UNCHANGED <<sp_state, offset_sample_counter, trace>>

SignalProcessingMain ==
  /\ pc = "signal"
  /\ pc' = "flight"
  /\ ignition_count <= MaxIgnitions
  /\ \E dt \in TimeSteps : now' = now + dt
  /\ SampleOffsets \/ ProcessSample
  /\ UNCHANGED <<state, detector, ignition_count, burnout_count>>
--------------------------------------------------------------------------------
(* flightstate_update: the run function of the current state. *)

AccAboveThreshold(s) == CondGt(s.acc, ignition_acceleration_threshold)
HeightAboveThreshold(s) == CondGt(s.height, liftoff_height)
InLandingWindow(s) == CondWindow(s.vel, 0, landing_window_width)

\* Mutant of AccIgnitionDetector: a report does not reset the detector.
AccIgnitionUnreset(s) == Updated(detector.ignition, AccAboveThreshold(s), now)

\* acc_ignition_detector: the value it returns, and the detector it leaves
\* behind; unlike the others this detector is reset by a report.
AccIgnition(s) == Reports(detector.ignition, AccAboveThreshold(s), now)
AccIgnitionDetector(s) ==
  IF AccIgnition(s)
  THEN Reset(Updated(detector.ignition, AccAboveThreshold(s), now))
  ELSE Updated(detector.ignition, AccAboveThreshold(s), now)

\* Mutants of BoostEntry: every ignition is a liftoff, only the first ignition
\* fires its event, the ignition is not counted.
BoostEntryLiftoffs ==
  /\ state' = "BOOST"
  /\ ignition_count' = ignition_count + 1
  /\ trace' = Append(Append(trace, "ignition"), "liftoff")
  /\ UNCHANGED burnout_count

BoostEntryUncounted ==
  /\ state' = "BOOST"
  /\ trace' = Append(Append(trace, "ignition"), "liftoff")
  /\ UNCHANGED <<ignition_count, burnout_count>>

\* boost_entry, given the events its caller has already fired.
BoostEntry ==
  /\ state' = "BOOST"
  /\ ignition_count' = ignition_count + 1
  /\ trace' = IF ignition_count + 1 = 1
              THEN Append(Append(trace, "ignition"), "liftoff")
              ELSE Append(trace, "ignition")
  /\ UNCHANGED burnout_count

Stay == UNCHANGED <<state, ignition_count, burnout_count, trace>>

\* Mutant of Enter: the arguments are swapped.
EnterSwapped(st, e) ==
  /\ state' = e
  /\ trace' = Append(trace, st)
  /\ UNCHANGED <<ignition_count, burnout_count>>

\* smf_set_state to a state without counters to keep, firing e on the way.
Enter(st, e) ==
  /\ state' = st
  /\ trace' = Append(trace, e)
  /\ UNCHANGED <<ignition_count, burnout_count>>

\* Mutant of StartupRun: the pad altitude is not waited for.
StartupRunEager == state = "STARTUP" /\ Enter("PAD_IDLE", "pad_idle") /\ UNCHANGED detector

StartupRun ==
  /\ state = "STARTUP"
  /\ IF sp_state = "ON_GROUND" THEN Enter("PAD_IDLE", "pad_idle") ELSE Stay
  /\ UNCHANGED detector

PadIdleRun ==
  /\ state = "PAD_IDLE"
  /\ Enter("PAD_READY", "pad_ready")
  /\ UNCHANGED detector

\* The disjunction short-circuits: a report of the height detector leaves the
\* acceleration detector as it was.
HeightLiftoff(s) ==
  Reports(detector.height_liftoff, HeightAboveThreshold(s), now)

PadReadyRun(s) ==
  /\ state = "PAD_READY"
  /\ detector' = [detector EXCEPT
       !.height_liftoff = Updated(@, HeightAboveThreshold(s), now),
       !.ignition = IF HeightLiftoff(s) THEN @ ELSE AccIgnitionDetector(s)]
  /\ IF HeightLiftoff(s) \/ AccIgnition(s) THEN BoostEntry ELSE Stay

\* burnout_count is kept by boost_exit, which runs before COAST is current.
BoostRun(s) ==
  /\ state = "BOOST"
  /\ LET cond == CondSt(s.acc, 0) IN
     IF Reports(detector.burnout, cond, now)
     THEN /\ detector' = [detector EXCEPT !.burnout = Reset(Updated(@, cond, now))]
          /\ state' = "COAST"
          /\ burnout_count' = burnout_count + 1
          /\ trace' = Append(trace, "burnout")
          /\ UNCHANGED ignition_count
     ELSE /\ detector' = [detector EXCEPT !.burnout = Updated(@, cond, now)]
          /\ Stay

\* A sample that is fast enough skips the apogee detector; an apogee returns
\* before the ignition detector sees the sample.
CoastRun(s) ==
  /\ state = "COAST"
  /\ LET slow == s.vel < apogee_velocity_limit
         cond == CondSt(s.vel, 0)
         apogee == IF slow THEN Updated(detector.apogee, cond, now)
                           ELSE detector.apogee
     IN  IF slow /\ Reports(detector.apogee, cond, now)
         THEN /\ detector' = [detector EXCEPT !.apogee = apogee]
              /\ Enter("DESCENDING", "apogee")
         ELSE /\ detector' = [detector EXCEPT !.apogee = apogee,
                                              !.ignition = AccIgnitionDetector(s)]
              /\ IF AccIgnition(s) THEN BoostEntry ELSE Stay

DescendingRun(s) ==
  /\ state = "DESCENDING"
  /\ detector' = [detector EXCEPT !.landing = Updated(@, InLandingWindow(s), now)]
  /\ IF Reports(detector.landing, InLandingWindow(s), now)
     THEN Enter("LANDED", "touchdown") ELSE Stay

LandedRun == state = "LANDED" /\ Stay /\ UNCHANGED detector

Run(s) == \/ StartupRun \/ PadIdleRun \/ PadReadyRun(s) \/ BoostRun(s)
          \/ CoastRun(s) \/ DescendingRun(s) \/ LandedRun

FlightstateUpdate(s) ==
  /\ pc = "flight"
  /\ pc' = "signal"
  /\ Run(s)
  /\ UNCHANGED <<now, sp_state, offset_sample_counter>>

Next == Boot \/ SignalProcessingMain \/ \E s \in Samples : FlightstateUpdate(s)

Spec == Init /\ [][Next]_vars
--------------------------------------------------------------------------------
(* Properties *)

M == INSTANCE MissionEvents

\* The variables keep their types.
TypeOK ==
  /\ pc \in {"boot", "signal", "flight"}
  /\ now \in Nat
  /\ sp_state \in {"STARTING", "ON_GROUND"}
  /\ offset_sample_counter \in Nat
  /\ state \in Missions
  /\ detector \in [DOMAIN MinHold -> Detector]
  /\ ignition_count \in Nat
  /\ burnout_count \in Nat
  /\ trace \in Seq(M!Events)

\* The state machine implements the order of events promised to the callbacks
\* (MissionEvents), whatever the samples are.
MissionEventsRefined == M!Spec

\* The events this machine fires are in mission order, and the burns among them
\* alternate: no second ignition without a burnout between, and no burnout without
\* an ignition.
MissionOrder == M!MissionOrder /\ M!BurnsAlternate

\* The two counters agree with the state: a motor burns exactly in BOOST, and
\* before the first ignition nothing is counted.  flightstate_get_burnout_count
\* and the liftoff test of boost_entry rely on it.
CountersAgree ==
  /\ ignition_count = burnout_count + (IF state = "BOOST" THEN 1 ELSE 0)
  /\ ignition_count = 0 <=> state \in {"STARTUP", "PAD_IDLE", "PAD_READY"}
================================================================================
