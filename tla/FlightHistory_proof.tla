-------------------------- MODULE FlightHistory_proof --------------------------
(***************************************************************************)
(* Proofs about the flight state machine, for all samples and all delays   *)
(* between them.  First FlightState: its types, its two counters, and that *)
(* it implements MissionEvents; then the order of the events in that       *)
(* abstract specification, carried over to the flight state machine.  Then *)
(* the hold times: a liftoff, a further ignition and a touchdown are       *)
(* announced only when the samples really showed them for long enough.     *)
(***************************************************************************)
EXTENDS FlightHistory, TLAPS

LEMMA UpdatedIsDetector ==
  ASSUME NEW d \in Detector, NEW cond \in BOOLEAN, NEW t \in Nat
  PROVE  /\ Updated(d, cond, t) \in Detector
         /\ Reset(d) \in Detector
         /\ Reports(d, cond, t) \in BOOLEAN
<1>1. /\ d.min_hold_time \in Nat /\ d.last_edge_time \in Int
      /\ d.last_state \in BOOLEAN
  BY DEF Detector
<1>2. EdgeTime(d, cond, t) \in Int
  BY <1>1 DEF EdgeTime
<1>3. Reports(d, cond, t) \in BOOLEAN
  BY Zenon DEF Reports
<1> DEFINE last == IF Reports(d, cond, t) THEN d.last_state ELSE cond
<1>4. last \in BOOLEAN
  BY <1>1, Zenon
<1>5. Updated(d, cond, t) = [d EXCEPT !.last_edge_time = EdgeTime(d, cond, t),
                                     !.last_state = last]
  BY DEF Updated
<1> HIDE DEF last
<1>6. Updated(d, cond, t) \in Detector
  BY <1>2, <1>4, <1>5 DEF Detector
<1> DEFINE off == FALSE
<1>7. off \in BOOLEAN /\ -1 \in Int
  OBVIOUS
<1>8. Reset(d) = [d EXCEPT !.last_state = off, !.last_edge_time = -1]
  BY DEF Reset
<1> HIDE DEF off
<1>9. Reset(d) \in Detector
  BY <1>7, <1>8 DEF Detector
<1> QED
  BY <1>3, <1>6, <1>9

\* What a run of a state may do to everything but the detectors.
Moves ==
  \/ Stay
  \/ state = "STARTUP" /\ sp_state = "ON_GROUND" /\ Enter("PAD_IDLE", "pad_idle")
  \/ state = "PAD_IDLE" /\ Enter("PAD_READY", "pad_ready")
  \/ state \in {"PAD_READY", "COAST"} /\ BoostEntry
  \/ /\ state = "BOOST"
     /\ state' = "COAST"
     /\ burnout_count' = burnout_count + 1
     /\ trace' = Append(trace, "burnout")
     /\ UNCHANGED ignition_count
  \/ state = "COAST" /\ Enter("DESCENDING", "apogee")
  \/ state = "DESCENDING" /\ Enter("LANDED", "touchdown")

LEMMA RunMoves ==
  ASSUME NEW s \in Samples, Run(s)
  PROVE  Moves
BY DEF Run, Moves, StartupRun, PadIdleRun, PadReadyRun, BoostRun, CoastRun,
       DescendingRun, LandedRun

LEMMA RunDetectors ==
  ASSUME TypeOK, NEW s \in Samples, Run(s)
  PROVE  detector' \in [DOMAIN MinHold -> Detector]
<1> DEFINE a == AccAboveThreshold(s)
           h == HeightAboveThreshold(s)
           w == InLandingWindow(s)
           b == CondSt(s.acc, 0)
           v == CondSt(s.vel, 0)
<1>1. a \in BOOLEAN /\ h \in BOOLEAN /\ w \in BOOLEAN /\ b \in BOOLEAN /\ v \in BOOLEAN
  BY DEF AccAboveThreshold, HeightAboveThreshold, InLandingWindow, CondGt,
         CondSt, CondWindow
<1>2. now \in Nat /\ detector \in [DOMAIN MinHold -> Detector]
  BY DEF TypeOK
<1>3. DOMAIN MinHold = {"apogee", "burnout", "ignition", "landing", "height_liftoff"}
  BY DEF MinHold
<1>4. /\ detector.apogee \in Detector
      /\ detector.burnout \in Detector
      /\ detector.ignition \in Detector
      /\ detector.landing \in Detector
      /\ detector.height_liftoff \in Detector
  BY <1>2, <1>3
<1>5. AccIgnitionDetector(s) \in Detector
  BY <1>1, <1>2, <1>4, UpdatedIsDetector DEF AccIgnitionDetector
<1>6. /\ Updated(detector.apogee, v, now) \in Detector
      /\ Updated(detector.burnout, b, now) \in Detector
      /\ Reset(Updated(detector.burnout, b, now)) \in Detector
      /\ Updated(detector.landing, w, now) \in Detector
      /\ Updated(detector.height_liftoff, h, now) \in Detector
  BY <1>1, <1>2, <1>4, UpdatedIsDetector
<1> HIDE DEF a, h, w, b, v
<1>7. CASE StartupRun \/ PadIdleRun \/ LandedRun
  BY <1>2, <1>7 DEF StartupRun, PadIdleRun, LandedRun
<1>8. CASE PadReadyRun(s)
  BY <1>2, <1>3, <1>4, <1>5, <1>6, <1>8 DEF PadReadyRun, h
<1>9. CASE BoostRun(s)
  BY <1>2, <1>3, <1>6, <1>9 DEF BoostRun, b
<1>10. CASE CoastRun(s)
  BY <1>2, <1>3, <1>4, <1>5, <1>6, <1>10 DEF CoastRun, v
<1>11. CASE DescendingRun(s)
  BY <1>2, <1>3, <1>6, <1>11 DEF DescendingRun, w
<1> QED
  BY <1>7, <1>8, <1>9, <1>10, <1>11 DEF Run

\* Every variable keeps its type.
THEOREM TypeCorrect == Spec => []TypeOK
<1> USE FlightAssumption
<1>1. Init => TypeOK
  BY DEF Init, TypeOK, Missions, M!Events, DetectorInit, Detector, MinHold
<1>2. TypeOK /\ [Next]_vars => TypeOK'
  <2> SUFFICES ASSUME TypeOK, [Next]_vars PROVE TypeOK'
    OBVIOUS
  <2>1. CASE Boot
    BY <2>1 DEF Boot, TypeOK, M!Events
  <2>2. CASE SignalProcessingMain
    BY <2>2 DEF SignalProcessingMain, SampleOffsets, ProcessSample, TypeOK, M!Events
  <2>3. ASSUME NEW s \in Samples, FlightstateUpdate(s) PROVE TypeOK'
    <3>1. Moves /\ detector' \in [DOMAIN MinHold -> Detector]
      BY <2>3, RunMoves, RunDetectors DEF FlightstateUpdate
    <3>2. /\ pc' \in {"boot", "signal", "flight"} /\ now' \in Nat
          /\ sp_state' \in {"STARTING", "ON_GROUND"}
          /\ offset_sample_counter' \in Nat
      BY <2>3 DEF FlightstateUpdate, TypeOK
    <3>3. state' \in Missions /\ ignition_count' \in Nat /\ burnout_count' \in Nat
      BY <3>1 DEF Moves, Stay, Enter, BoostEntry, TypeOK, Missions
    <3>4. \A tr \in Seq(M!Events), e \in M!Events : Append(tr, e) \in Seq(M!Events)
      OBVIOUS
    <3>5. trace \in Seq(M!Events)
      BY DEF TypeOK
    <3>6. {"pad_idle", "pad_ready", "ignition", "liftoff", "burnout", "apogee",
           "touchdown"} \subseteq M!Events
      BY DEF M!Events
    <3>7. \/ trace' = trace
          \/ \E e \in M!Events : trace' = Append(trace, e)
          \/ \E e, f \in M!Events : trace' = Append(Append(trace, e), f)
      BY <3>1, <3>6 DEF Moves, Stay, Enter, BoostEntry
    <3>8. trace' \in Seq(M!Events)
      BY <3>4, <3>5, <3>7
    <3> QED
      BY <3>1, <3>2, <3>3, <3>8 DEF TypeOK
  <2>4. CASE UNCHANGED vars
    BY <2>4 DEF vars, TypeOK
  <2> QED
    BY <2>1, <2>2, <2>3, <2>4 DEF Next
<1> QED
  BY <1>1, <1>2, PTL DEF Spec
--------------------------------------------------------------------------------
\* The burn counters agree with the state.
THEOREM CountersCorrect == Spec => []CountersAgree
<1>1. Init => CountersAgree
  BY DEF Init, CountersAgree
<1>2. TypeOK /\ CountersAgree /\ [Next]_vars => CountersAgree'
  <2> SUFFICES ASSUME TypeOK, CountersAgree, [Next]_vars PROVE CountersAgree'
    OBVIOUS
  <2>1. CASE Boot \/ SignalProcessingMain \/ UNCHANGED vars
    BY <2>1 DEF Boot, SignalProcessingMain, vars, CountersAgree
  <2>2. ASSUME NEW s \in Samples, FlightstateUpdate(s) PROVE CountersAgree'
    <3>1. Moves
      BY <2>2, RunMoves DEF FlightstateUpdate
    <3> QED
      BY <3>1 DEF Moves, Stay, Enter, BoostEntry, CountersAgree, TypeOK, Missions
  <2> QED
    BY <2>1, <2>2 DEF Next
<1> QED
  BY <1>1, <1>2, TypeCorrect, PTL DEF Spec
--------------------------------------------------------------------------------
\* The last event fired, for every state of the machine: what the abstract
\* specification has instead of a state.
LastEventFits ==
  /\ pc = "boot" => trace = <<>> /\ state = "STARTUP" /\ sp_state = "STARTING"
  /\ pc # "boot" => trace # <<>>
  /\ sp_state = "STARTING" => state = "STARTUP"
  /\ (pc # "boot" /\ sp_state = "STARTING") => M!Last(trace) = "boot"
  /\ (state = "STARTUP" /\ sp_state = "ON_GROUND") => M!Last(trace) = "processing_ready"
  /\ state = "PAD_IDLE" => M!Last(trace) = "pad_idle"
  /\ state = "PAD_READY" => M!Last(trace) = "pad_ready"
  /\ state = "BOOST" => M!Last(trace) \in {"ignition", "liftoff"}
  /\ state = "COAST" => M!Last(trace) = "burnout"
  /\ state = "DESCENDING" => M!Last(trace) = "apogee"
  /\ state = "LANDED" => M!Last(trace) = "touchdown"

LEMMA LastAppend ==
  ASSUME NEW S, NEW tr \in Seq(S), NEW e \in S
  PROVE  /\ M!Last(Append(tr, e)) = e
         /\ Append(tr, e) # <<>>
         /\ Append(tr, e) \in Seq(S)
BY DEF M!Last

\* One step of the flight computer is a step of the abstract specification,
\* or leaves the events alone.
LEMMA StepRefines ==
  ASSUME TypeOK, CountersAgree, LastEventFits, [Next]_vars
  PROVE  [M!Next]_trace /\ LastEventFits'
<1>1. trace \in Seq(M!Events)
  BY DEF TypeOK
<1>2. \A e \in M!Events : /\ M!Last(Append(trace, e)) = e
                          /\ Append(trace, e) # <<>>
                          /\ Append(trace, e) \in Seq(M!Events)
  BY <1>1, LastAppend
<1>3. \A e, f \in M!Events : /\ M!Last(Append(Append(trace, e), f)) = f
                             /\ Append(Append(trace, e), f) # <<>>
  BY <1>2, LastAppend
<1>4. CASE Boot
  <2>1. M!Boot
    BY <1>4 DEF Boot, LastEventFits, M!Boot, M!FireAfter, M!Last
  <2>2. LastEventFits'
    BY <1>2, <1>4 DEF Boot, LastEventFits, M!Events
  <2> QED
    BY <2>1, <2>2 DEF M!Next
<1>5. CASE SignalProcessingMain
  <2>1. CASE SampleOffsets
    <3>1. M!ProcessingReady \/ UNCHANGED trace
      BY <1>5, <2>1 DEF SignalProcessingMain, SampleOffsets, LastEventFits,
         M!ProcessingReady, M!FireAfter
    <3>2. LastEventFits'
      BY <1>2, <1>5, <2>1 DEF SignalProcessingMain, SampleOffsets, LastEventFits,
         M!Events, TypeOK
    <3> QED
      BY <3>1, <3>2 DEF M!Next
  <2>2. CASE ProcessSample
    BY <1>5, <2>2 DEF SignalProcessingMain, ProcessSample, LastEventFits
  <2> QED
    BY <1>5, <2>1, <2>2 DEF SignalProcessingMain
<1>6. ASSUME NEW s \in Samples, FlightstateUpdate(s) PROVE [M!Next]_trace /\ LastEventFits'
  <2>0. /\ pc = "flight" /\ pc' = "signal" /\ sp_state' = sp_state /\ Moves
        /\ sp_state \in {"STARTING", "ON_GROUND"}
    BY <1>6, RunMoves DEF FlightstateUpdate, TypeOK
  <2>1. CASE Stay
    BY <2>0, <2>1 DEF Stay, LastEventFits
  <2>2. CASE state = "STARTUP" /\ sp_state = "ON_GROUND" /\ Enter("PAD_IDLE", "pad_idle")
    <3>1. M!PadIdle
      BY <2>2 DEF Enter, LastEventFits, M!PadIdle, M!FireAfter
    <3> QED
      BY <1>2, <2>0, <2>2, <3>1 DEF Enter, LastEventFits, M!Events, M!Next
  <2>3. CASE state = "PAD_IDLE" /\ Enter("PAD_READY", "pad_ready")
    <3>1. M!PadReady
      BY <2>3 DEF Enter, LastEventFits, M!PadReady, M!FireAfter
    <3> QED
      BY <1>2, <2>0, <2>3, <3>1 DEF Enter, LastEventFits, M!Events, M!Next
  <2>4. CASE state = "PAD_READY" /\ BoostEntry
    <3>1. ignition_count = 0
      BY <2>4 DEF CountersAgree
    <3>2. trace' = Append(Append(trace, "ignition"), "liftoff")
      BY <2>4, <3>1 DEF BoostEntry
    <3>3. M!Liftoff
      BY <2>4, <3>2 DEF LastEventFits, M!Liftoff
    <3>4. M!Last(trace') = "liftoff" /\ trace' # <<>>
      BY <1>3, <3>2 DEF M!Events
    <3>5. LastEventFits'
      BY <2>0, <2>4, <3>4 DEF BoostEntry, LastEventFits
    <3> QED
      BY <3>3, <3>5 DEF M!Next
  <2>5. CASE state = "COAST" /\ BoostEntry
    <3>1. ignition_count \in Nat /\ ignition_count # 0
      BY <2>5 DEF CountersAgree, TypeOK
    <3>2. trace' = Append(trace, "ignition")
      BY <2>5, <3>1 DEF BoostEntry
    <3>3. M!Reignition
      BY <2>5, <3>2 DEF LastEventFits, M!Reignition, M!FireAfter
    <3>4. M!Last(trace') = "ignition" /\ trace' # <<>>
      BY <1>2, <3>2 DEF M!Events
    <3>5. LastEventFits'
      BY <2>0, <2>5, <3>4 DEF BoostEntry, LastEventFits
    <3> QED
      BY <3>3, <3>5 DEF M!Next
  <2>6. CASE state = "BOOST" /\ state' = "COAST" /\ trace' = Append(trace, "burnout")
    <3>1. M!Burnout
      BY <2>6 DEF LastEventFits, M!Burnout, M!FireAfter
    <3> QED
      BY <1>2, <2>0, <2>6, <3>1 DEF LastEventFits, M!Events, M!Next
  <2>7. CASE state = "COAST" /\ Enter("DESCENDING", "apogee")
    <3>1. M!Apogee
      BY <2>7 DEF Enter, LastEventFits, M!Apogee, M!FireAfter
    <3> QED
      BY <1>2, <2>0, <2>7, <3>1 DEF Enter, LastEventFits, M!Events, M!Next
  <2>8. CASE state = "DESCENDING" /\ Enter("LANDED", "touchdown")
    <3>1. M!Touchdown
      BY <2>8 DEF Enter, LastEventFits, M!Touchdown, M!FireAfter
    <3> QED
      BY <1>2, <2>0, <2>8, <3>1 DEF Enter, LastEventFits, M!Events, M!Next
  <2> QED
    BY <2>0, <2>1, <2>2, <2>3, <2>4, <2>5, <2>6, <2>7, <2>8 DEF Moves
<1>7. CASE UNCHANGED vars
  BY <1>7 DEF vars, LastEventFits
<1> QED
  BY <1>4, <1>5, <1>6, <1>7 DEF Next

\* The flight state machine implements the order of events its listeners rely
\* on.
THEOREM RefinesMissionEvents == Spec => MissionEventsRefined
<1>1. Init => M!Init /\ LastEventFits
  BY DEF Init, M!Init, LastEventFits
<1>2. TypeOK /\ CountersAgree /\ LastEventFits /\ [Next]_vars
        => [M!Next]_trace /\ LastEventFits'
  BY StepRefines
<1> QED
  BY <1>1, <1>2, TypeCorrect, CountersCorrect, PTL
     DEF Spec, MissionEventsRefined, M!Spec
--------------------------------------------------------------------------------
(* The order of events: what it means for a whole flight, proved of the        *)
(* abstract specification and so of everything that implements it.             *)

TraceOK == trace \in Seq(M!Events)

LEMMA Stages ==
  /\ \A e \in M!Events : M!Stage(e) \in 0..6
  /\ M!Stage("boot") = 0 /\ M!Stage("processing_ready") = 1
  /\ M!Stage("pad_idle") = 2 /\ M!Stage("pad_ready") = 3
  /\ M!Stage("ignition") = 4 /\ M!Stage("liftoff") = 4 /\ M!Stage("burnout") = 4
  /\ M!Stage("apogee") = 5 /\ M!Stage("touchdown") = 6
BY DEF M!Stage, M!Events

\* Appending an event every earlier one allows keeps the order.
LEMMA AppendOrder ==
  ASSUME TraceOK, M!MissionOrder, NEW e \in M!Events,
         trace' = Append(trace, e),
         \A i \in 1..Len(trace) : M!MayFollow(trace[i], e)
  PROVE  M!MissionOrder' /\ TraceOK'
<1>1. /\ Len(trace) \in Nat /\ Len(trace') = Len(trace) + 1
      /\ trace'[Len(trace) + 1] = e
      /\ \A i \in 1..Len(trace) : trace'[i] = trace[i]
      /\ TraceOK'
  BY DEF TraceOK
<1> QED
  BY <1>1 DEF M!MissionOrder

\* In an ordered trace, an event of a later stage than the last event, or one
\* that may repeat in its stage, is allowed by every event so far.
LEMMA LastAllows ==
  ASSUME TraceOK, M!MissionOrder, NEW e \in M!Events,
         \/ trace = <<>>
         \/ M!Stage(M!Last(trace)) < M!Stage(e)
         \/ M!Stage(M!Last(trace)) = M!Stage(e) /\ e \notin M!OnceEvents
  PROVE  \A i \in 1..Len(trace) : M!MayFollow(trace[i], e)
<1> SUFFICES ASSUME NEW i \in 1..Len(trace) PROVE M!MayFollow(trace[i], e)
  OBVIOUS
<1>1. /\ Len(trace) \in Nat /\ trace[i] \in M!Events /\ trace # <<>>
      /\ M!Last(trace) = trace[Len(trace)] /\ M!Last(trace) \in M!Events
  BY DEF TraceOK, M!Last
<1>2. M!Stage(trace[i]) <= M!Stage(M!Last(trace))
  BY <1>1, Stages DEF M!MissionOrder, M!MayFollow
<1>3. /\ M!Stage(trace[i]) \in Int /\ M!Stage(M!Last(trace)) \in Int /\ M!Stage(e) \in Int
  BY <1>1, Stages
<1>4. M!Stage(trace[i]) <= M!Stage(e) /\ (trace[i] = e => e \notin M!OnceEvents)
  BY <1>1, <1>2, <1>3
<1> QED
  BY <1>4 DEF M!MayFollow

\* The stages of a flight follow one another and only ignitions and burnouts
\* repeat.
THEOREM EventOrderCorrect == M!Spec => [](TraceOK /\ M!MissionOrder)
<1>1. M!Init => TraceOK /\ M!MissionOrder
  BY DEF M!Init, TraceOK, M!MissionOrder
<1>2. TraceOK /\ M!MissionOrder /\ [M!Next]_trace => (TraceOK /\ M!MissionOrder)'
  <2> SUFFICES ASSUME TraceOK, M!MissionOrder, M!Next PROVE (TraceOK /\ M!MissionOrder)'
    BY DEF TraceOK, M!MissionOrder
  <2>1. ASSUME NEW e \in M!Events, trace' = Append(trace, e),
               \/ trace = <<>>
               \/ M!Stage(M!Last(trace)) < M!Stage(e)
               \/ M!Stage(M!Last(trace)) = M!Stage(e) /\ e \notin M!OnceEvents
        PROVE  (TraceOK /\ M!MissionOrder)'
    BY <2>1, LastAllows, AppendOrder
  <2>2. CASE M!Liftoff
    <3>1. \A i \in 1..Len(trace) : trace[i] \in M!Events /\ M!Stage(trace[i]) <= 3
      <4> SUFFICES ASSUME NEW i \in 1..Len(trace)
                   PROVE trace[i] \in M!Events /\ M!Stage(trace[i]) <= 3
        OBVIOUS
      <4>1. /\ Len(trace) \in Nat /\ trace[i] \in M!Events
            /\ trace[Len(trace)] = "pad_ready"
        BY <2>2 DEF M!Liftoff, M!Last, TraceOK
      <4>2. M!Stage(trace[i]) <= M!Stage(trace[Len(trace)])
        BY <4>1, Stages DEF M!MissionOrder, M!MayFollow
      <4> QED
        BY <4>1, <4>2, Stages
    <3>2. /\ Len(trace) \in Nat /\ Len(trace') = Len(trace) + 2
          /\ trace'[Len(trace) + 1] = "ignition"
          /\ trace'[Len(trace) + 2] = "liftoff"
          /\ \A i \in 1..Len(trace) : trace'[i] = trace[i]
          /\ TraceOK'
      BY <2>2 DEF M!Liftoff, TraceOK, M!Events
    <3>3. M!MayFollow("ignition", "liftoff")
      BY Stages DEF M!MayFollow
    <3>4. \A i \in 1..Len(trace) :
             M!MayFollow(trace[i], "ignition") /\ M!MayFollow(trace[i], "liftoff")
      BY <3>1, Stages DEF M!MayFollow
    <3>5. ASSUME NEW i \in 1..Len(trace'), NEW j \in 1..Len(trace'), i < j
          PROVE  M!MayFollow(trace'[i], trace'[j])
      <4>1. CASE j <= Len(trace)
        BY <3>2, <3>5, <4>1 DEF M!MissionOrder
      <4>2. CASE j > Len(trace)
        BY <3>2, <3>3, <3>4, <3>5, <4>2
      <4> QED
        BY <3>2, <4>1, <4>2
    <3> QED
      BY <3>2, <3>5 DEF M!MissionOrder
  <2>3. CASE M!Burnout \/ M!Reignition
    BY <2>1, <2>3, Stages DEF M!Burnout, M!Reignition, M!FireAfter, M!OnceEvents, M!Events
  <2>4. CASE M!Boot \/ M!ProcessingReady \/ M!PadIdle \/ M!PadReady \/ M!Apogee \/ M!Touchdown
    <3>1. M!Last(trace) = "none" => trace = <<>>
      BY DEF M!Last, TraceOK, M!Events
    <3> QED
      BY <2>1, <2>4, <3>1, Stages DEF M!Boot, M!ProcessingReady, M!PadIdle, M!PadReady,
         M!Apogee, M!Touchdown, M!FireAfter, M!Events
  <2> QED
    BY <2>2, <2>3, <2>4 DEF M!Next
<1> QED
  BY <1>1, <1>2, PTL DEF M!Spec
--------------------------------------------------------------------------------
\* The last event of a trace whose burns alternate decides what keeps it so.
LEMMA AppendAlternates ==
  ASSUME TraceOK, M!BurnsAlternate, NEW e \in M!Events, trace' = Append(trace, e),
         e = "burnout" => M!Last(trace) \in {"ignition", "liftoff"},
         e # "liftoff",
         M!Last(trace) = "ignition" => e = "burnout"
  PROVE  M!BurnsAlternate'
<1>1. /\ Len(trace) \in Nat /\ Len(trace') = Len(trace) + 1
      /\ trace'[Len(trace) + 1] = e
      /\ \A i \in 1..Len(trace) : trace'[i] = trace[i]
  BY DEF TraceOK
<1>2. trace # <<>> => Len(trace) > 0 /\ M!Last(trace) = trace[Len(trace)]
  BY DEF TraceOK, M!Last
<1>3. M!Last(trace) \in {"ignition", "liftoff"} => trace # <<>>
  BY DEF M!Last
<1>4. Len(trace) > 0 => trace # <<>>
  BY DEF TraceOK
<1> SUFFICES ASSUME NEW i \in 1..Len(trace')
             PROVE  /\ trace'[i] = "burnout" =>
                         i > 1 /\ trace'[i - 1] \in {"ignition", "liftoff"}
                    /\ trace'[i] = "liftoff" => i > 1 /\ trace'[i - 1] = "ignition"
                    /\ (trace'[i] = "ignition" /\ i < Len(trace')) =>
                         trace'[i + 1] \in {"liftoff", "burnout"}
  BY DEF M!BurnsAlternate
<1>5. CASE i < Len(trace)
  BY <1>1, <1>5 DEF M!BurnsAlternate
<1>6. CASE i = Len(trace)
  BY <1>1, <1>2, <1>4, <1>6 DEF M!BurnsAlternate
<1>7. CASE i = Len(trace) + 1
  BY <1>1, <1>2, <1>3, <1>7
<1> QED
  BY <1>1, <1>5, <1>6, <1>7

\* Ignitions and burnouts alternate.
THEOREM EventBurnsCorrect == M!Spec => []M!BurnsAlternate
<1>1. M!Init => M!BurnsAlternate
  BY DEF M!Init, M!BurnsAlternate
<1>2. TraceOK /\ M!BurnsAlternate /\ [M!Next]_trace => M!BurnsAlternate'
  <2> SUFFICES ASSUME TraceOK, M!BurnsAlternate, M!Next PROVE M!BurnsAlternate'
    BY DEF M!BurnsAlternate
  <2>1. CASE M!Liftoff
    <3>1. /\ Len(trace) \in Nat \ {0} /\ Len(trace') = Len(trace) + 2
          /\ trace[Len(trace)] = "pad_ready"
          /\ trace'[Len(trace) + 1] = "ignition"
          /\ trace'[Len(trace) + 2] = "liftoff"
          /\ \A i \in 1..Len(trace) : trace'[i] = trace[i]
      BY <2>1 DEF M!Liftoff, M!Last, TraceOK
    <3> SUFFICES ASSUME NEW i \in 1..Len(trace')
                 PROVE  /\ trace'[i] = "burnout" =>
                             i > 1 /\ trace'[i - 1] \in {"ignition", "liftoff"}
                        /\ trace'[i] = "liftoff" => i > 1 /\ trace'[i - 1] = "ignition"
                        /\ (trace'[i] = "ignition" /\ i < Len(trace')) =>
                             trace'[i + 1] \in {"liftoff", "burnout"}
      BY DEF M!BurnsAlternate
    <3>2. CASE i < Len(trace)
      BY <3>1, <3>2 DEF M!BurnsAlternate
    <3>3. CASE i = Len(trace) \/ i = Len(trace) + 1 \/ i = Len(trace) + 2
      BY <3>1, <3>3 DEF M!BurnsAlternate
    <3> QED
      BY <3>1, <3>2, <3>3
  <2>2. ASSUME NEW e \in M!Events, trace' = Append(trace, e),
               e = "burnout" => M!Last(trace) \in {"ignition", "liftoff"},
               e # "liftoff",
               M!Last(trace) = "ignition" => e = "burnout"
        PROVE  M!BurnsAlternate'
    BY <2>2, AppendAlternates
  <2>3. CASE M!Next /\ ~M!Liftoff
    BY <2>2, <2>3 DEF M!Next, M!Boot, M!ProcessingReady, M!PadIdle, M!PadReady, M!Burnout,
       M!Reignition, M!Apogee, M!Touchdown, M!FireAfter, M!Events
  <2> QED
    BY <2>1, <2>3
<1> QED
  BY <1>1, <1>2, EventOrderCorrect, PTL DEF M!Spec
--------------------------------------------------------------------------------
\* The events of every flight are in mission order: liftoff, apogee and touchdown
\* come once each, no stage comes back, and the burns alternate.  What implements
\* the abstract order of events has its properties.
THEOREM FlightOrderCorrect == Spec => []MissionOrder
<1>1. M!MissionOrder /\ M!BurnsAlternate => MissionOrder
  BY DEF MissionOrder
<1>2. M!Spec => []MissionOrder
  BY <1>1, EventOrderCorrect, EventBurnsCorrect, PTL
<1> QED
  BY <1>2, RefinesMissionEvents, PTL DEF MissionEventsRefined
--------------------------------------------------------------------------------
\* A detector whose condition was last seen true has measured from no earlier
\* than the unbroken run of samples that show the condition.
Tracks(d, since) == d.last_state => since # -1 /\ since <= d.last_edge_time

Recent(since) == since \in Int /\ since <= now

\* One update keeps a detector on track, and its report is backed by samples.
LEMMA UpdateTracks ==
  ASSUME NEW d \in Detector, NEW cond \in BOOLEAN, NEW since \in Int,
         now \in Nat, since <= now, Tracks(d, since)
  PROVE  /\ Tracks(Updated(d, cond, now), Since(since, cond))
         /\ Reports(d, cond, now) => HeldFor(Since(since, cond), d.min_hold_time)
         /\ Recent(Since(since, cond))
         /\ Updated(d, cond, now).min_hold_time = d.min_hold_time
         /\ Reset(Updated(d, cond, now)).min_hold_time = d.min_hold_time
         /\ ~Reset(Updated(d, cond, now)).last_state
<1>1. /\ d.min_hold_time \in Nat /\ d.last_edge_time \in Int
      /\ d.last_state \in BOOLEAN
      /\ DOMAIN d = {"min_hold_time", "last_edge_time", "last_state"}
  BY DEF Detector
<1> DEFINE edge == EdgeTime(d, cond, now)
           last == IF Reports(d, cond, now) THEN d.last_state ELSE cond
           u == Updated(d, cond, now)
<1>2. u = [d EXCEPT !.last_edge_time = edge, !.last_state = last]
  BY DEF Updated
<1>3. u.last_edge_time = edge /\ u.last_state = last /\ u.min_hold_time = d.min_hold_time
  <2> HIDE DEF edge, last
  <2> QED
    BY <1>1, <1>2
<1>4. Reset(u).min_hold_time = d.min_hold_time /\ Reset(u).last_state = FALSE
  <2>1. u \in Detector
    BY UpdatedIsDetector
  <2>2. DOMAIN u = {"min_hold_time", "last_edge_time", "last_state"}
    BY <2>1 DEF Detector
  <2> HIDE DEF u
  <2> QED
    BY <1>3, <2>2 DEF Reset
<1>5. CASE cond = FALSE
  <2>1. Reports(d, cond, now) = FALSE
    BY <1>5, Zenon DEF Reports
  <2>2. u.last_state = FALSE
    BY <1>3, <1>5, <2>1
  <2>3. Since(since, cond) = -1
    BY <1>5 DEF Since
  <2> QED
    BY <1>3, <1>4, <2>1, <2>2, <2>3 DEF Tracks, Recent
<1>6. CASE cond = TRUE /\ d.last_state = TRUE
  <2>1. since # -1 /\ since <= d.last_edge_time
    BY <1>6 DEF Tracks
  <2>2. Since(since, cond) = since /\ edge = d.last_edge_time
    BY <1>6, <2>1 DEF Since, EdgeTime
  <2>3. Reports(d, cond, now) => now - d.last_edge_time >= d.min_hold_time
    BY <2>2 DEF Reports
  <2>4. Reports(d, cond, now) => now - since >= d.min_hold_time
    BY <1>1, <2>1, <2>3
  <2> QED
    BY <1>3, <1>4, <2>1, <2>2, <2>4 DEF Tracks, HeldFor, Recent
<1>7. CASE cond = TRUE /\ d.last_state = FALSE
  <2>1. edge = now
    BY <1>7 DEF EdgeTime
  <2>2. Since(since, cond) # -1 /\ Since(since, cond) <= now /\ Since(since, cond) \in Int
    BY <1>7 DEF Since
  <2>3. Reports(d, cond, now) => now - now >= d.min_hold_time
    BY <2>1 DEF Reports
  <2>4. Reports(d, cond, now) => now - Since(since, cond) >= d.min_hold_time
    BY <1>1, <2>2, <2>3
  <2> QED
    BY <1>3, <1>4, <2>1, <2>2, <2>4 DEF Tracks, HeldFor, Recent
<1> QED
  BY <1>1, <1>5, <1>6, <1>7

\* The second ignition of a flight whose liftoff the height decided is the one
\* the detector may report at once.
Armed == heightFirst /\ ignition_count = 1

HoldTimesKept == \A n \in DOMAIN MinHold : detector[n].min_hold_time = MinHold[n]

HeldInv ==
  /\ Recent(accSince) /\ Recent(heightSince) /\ Recent(stillSince)
  /\ HoldTimesKept
  /\ state \in {"STARTUP", "PAD_IDLE"} =>
       ~detector.ignition.last_state /\ ~detector.height_liftoff.last_state
  /\ state = "PAD_READY" => /\ Tracks(detector.ignition, accSince)
                            /\ Tracks(detector.height_liftoff, heightSince)
  /\ state = "BOOST" => ~detector.ignition.last_state \/ Armed
  /\ state = "COAST" => Tracks(detector.ignition, accSince) \/ Armed
  /\ ~AfterApogee => ~detector.landing.last_state
  /\ state = "DESCENDING" => Tracks(detector.landing, stillSince)

Announcements ==
  /\ state = "PAD_READY" /\ state' = "BOOST" =>
       HeldFor(accSince', 50) \/ HeldFor(heightSince', 50)
  /\ state = "COAST" /\ state' = "BOOST" => HeldFor(accSince', 50) \/ Armed
  /\ state = "DESCENDING" /\ state' = "LANDED" => HeldFor(stillSince', 1000)

\* What a sample does in COAST.
LEMMA CoastDetectors ==
  ASSUME NEW s \in Samples, CoastRun(s), detector \in [DOMAIN MinHold -> Detector]
  PROVE  /\ state = "COAST"
         /\ detector'.apogee
              \in {detector.apogee, Updated(detector.apogee, CondSt(s.vel, 0), now)}
         /\ detector'.burnout = detector.burnout
         /\ detector'.landing = detector.landing
         /\ detector'.height_liftoff = detector.height_liftoff
         /\ \/ detector'.ignition = detector.ignition /\ state' = "DESCENDING"
            \/ /\ detector'.ignition = AccIgnitionDetector(s)
               /\ (AccIgnition(s) /\ state' = "BOOST") \/ Stay
<1> DEFINE slow == s.vel < apogee_velocity_limit
           ap == IF slow THEN Updated(detector.apogee, CondSt(s.vel, 0), now)
                         ELSE detector.apogee
<1>1. ap \in {detector.apogee, Updated(detector.apogee, CondSt(s.vel, 0), now)}
  OBVIOUS
<1>2. DOMAIN detector = {"apogee", "burnout", "ignition", "landing", "height_liftoff"}
  BY DEF MinHold
<1>3. CASE slow /\ Reports(detector.apogee, CondSt(s.vel, 0), now)
  <2>1. state = "COAST" /\ state' = "DESCENDING" /\ detector' = [detector EXCEPT !.apogee = ap]
    BY <1>3 DEF CoastRun, Enter
  <2> HIDE DEF ap
  <2> QED
    BY <1>1, <1>2, <2>1
<1>4. CASE ~(slow /\ Reports(detector.apogee, CondSt(s.vel, 0), now))
  <2>1. /\ state = "COAST"
        /\ detector' = [detector EXCEPT !.apogee = ap,
                                         !.ignition = AccIgnitionDetector(s)]
        /\ (AccIgnition(s) /\ state' = "BOOST") \/ Stay
    BY <1>4, Zenon DEF CoastRun, BoostEntry
  <2> HIDE DEF ap
  <2> QED
    BY <1>1, <1>2, <2>1
<1> QED
  BY <1>3, <1>4

LEMMA UpdateStep ==
  ASSUME TypeOK, CountersAgree, HeldInv, NEW s \in Samples,
         FlightstateUpdate(s), Observe(s)
  PROVE  HeldInv' /\ Announcements
<1> DEFINE a == AccAboveThreshold(s)
           h == HeightAboveThreshold(s)
           w == InLandingWindow(s)
           b == CondSt(s.acc, 0)
           v == CondSt(s.vel, 0)
<1>1. a \in BOOLEAN /\ h \in BOOLEAN /\ w \in BOOLEAN /\ b \in BOOLEAN /\ v \in BOOLEAN
  BY DEF AccAboveThreshold, HeightAboveThreshold, InLandingWindow, CondGt,
         CondSt, CondWindow
<1>2. /\ now \in Nat /\ now' = now /\ detector \in [DOMAIN MinHold -> Detector]
      /\ state \in Missions /\ ignition_count \in Nat /\ Run(s)
      /\ heightFirst => heightFirst'
  BY DEF TypeOK, FlightstateUpdate, Observe
<1>3. /\ DOMAIN MinHold = {"apogee", "burnout", "ignition", "landing", "height_liftoff"}
      /\ MinHold.ignition = 50 /\ MinHold.height_liftoff = 50 /\ MinHold.landing = 1000
  BY DEF MinHold
<1>4. /\ detector.apogee \in Detector
      /\ detector.burnout \in Detector
      /\ detector.ignition \in Detector
      /\ detector.landing \in Detector
      /\ detector.height_liftoff \in Detector
  BY <1>2, <1>3
<1>5. /\ accSince \in Int /\ accSince <= now
      /\ heightSince \in Int /\ heightSince <= now
      /\ stillSince \in Int /\ stillSince <= now
  BY DEF HeldInv, Recent
<1>6. /\ detector.ignition.min_hold_time = 50
      /\ detector.height_liftoff.min_hold_time = 50
      /\ detector.landing.min_hold_time = 1000
      /\ HoldTimesKept
  BY <1>3 DEF HeldInv, HoldTimesKept
<1>7. Recent(accSince)' /\ Recent(heightSince)' /\ Recent(stillSince)'
  BY <1>2, <1>5 DEF Observe, Since, Recent
<1>8. detector' \in [DOMAIN MinHold -> Detector]
  BY <1>2, RunDetectors
<1>9. \A d \in Detector, c \in BOOLEAN :
         /\ Updated(d, c, now).min_hold_time = d.min_hold_time
         /\ Reset(Updated(d, c, now)).min_hold_time = d.min_hold_time
         /\ Reset(Updated(d, c, now)).last_state = FALSE
  <2> SUFFICES ASSUME NEW d \in Detector, NEW c \in BOOLEAN
               PROVE  /\ Updated(d, c, now).min_hold_time = d.min_hold_time
                      /\ Reset(Updated(d, c, now)).min_hold_time = d.min_hold_time
                      /\ Reset(Updated(d, c, now)).last_state = FALSE
    OBVIOUS
  <2>1. Updated(d, c, now) \in Detector
    BY <1>2, UpdatedIsDetector
  <2>2. \A x \in Detector : DOMAIN x = {"min_hold_time", "last_edge_time", "last_state"}
    BY DEF Detector
  <2>3. Updated(d, c, now).min_hold_time = d.min_hold_time
    BY <2>2 DEF Updated
  <2> QED
    BY <2>1, <2>2, <2>3 DEF Reset
<1>10. HoldTimesKept'
  <2>1. AccIgnitionDetector(s).min_hold_time = detector.ignition.min_hold_time
    BY <1>1, <1>4, <1>9 DEF AccIgnitionDetector
  <2>2. /\ Updated(detector.apogee, v, now).min_hold_time = detector.apogee.min_hold_time
        /\ Updated(detector.burnout, b, now).min_hold_time = detector.burnout.min_hold_time
        /\ Reset(Updated(detector.burnout, b, now)).min_hold_time
             = detector.burnout.min_hold_time
        /\ Updated(detector.landing, w, now).min_hold_time = detector.landing.min_hold_time
        /\ Updated(detector.height_liftoff, h, now).min_hold_time
             = detector.height_liftoff.min_hold_time
    BY <1>1, <1>4, <1>9
  <2> HIDE DEF a, h, w, b, v
  <2>3. CASE StartupRun \/ PadIdleRun \/ LandedRun
    BY <1>6, <2>3 DEF StartupRun, PadIdleRun, LandedRun, HoldTimesKept
  <2>4. CASE PadReadyRun(s)
    <3>1. /\ detector'.height_liftoff = Updated(detector.height_liftoff, h, now)
          /\ detector'.ignition \in {detector.ignition, AccIgnitionDetector(s)}
          /\ detector'.apogee = detector.apogee
          /\ detector'.burnout = detector.burnout
          /\ detector'.landing = detector.landing
      BY <1>2, <1>3, <2>4 DEF PadReadyRun, h
    <3> QED
      BY <1>2, <1>3, <1>6, <2>1, <2>2, <3>1 DEF HoldTimesKept
  <2>5. CASE BoostRun(s)
    BY <1>2, <1>3, <1>6, <2>2, <2>5 DEF BoostRun, HoldTimesKept, b
  <2>6. CASE CoastRun(s)
    <3>1. /\ detector'.apogee \in {detector.apogee, Updated(detector.apogee, v, now)}
          /\ detector'.ignition \in {detector.ignition, AccIgnitionDetector(s)}
          /\ detector'.burnout = detector.burnout
          /\ detector'.landing = detector.landing
          /\ detector'.height_liftoff = detector.height_liftoff
      BY <1>2, <2>6, CoastDetectors DEF v
    <3> QED
      BY <1>2, <1>3, <1>6, <2>1, <2>2, <3>1 DEF HoldTimesKept
  <2>7. CASE DescendingRun(s)
    BY <1>2, <1>3, <1>6, <2>2, <2>7 DEF DescendingRun, HoldTimesKept, w
  <2> QED
    BY <1>2, <2>3, <2>4, <2>5, <2>6, <2>7 DEF Run
<1>11. ASSUME Tracks(detector.ignition, accSince), ~AfterApogee
       PROVE  /\ AccIgnition(s) => HeldFor(accSince', 50)
              /\ Tracks(AccIgnitionDetector(s), accSince')
  <2>1. accSince' = Since(accSince, a)
    BY <1>11 DEF Observe, Since, a
  <2>2. /\ Tracks(Updated(detector.ignition, a, now), Since(accSince, a))
        /\ Reports(detector.ignition, a, now) => HeldFor(Since(accSince, a), 50)
    BY <1>1, <1>2, <1>4, <1>5, <1>6, <1>11, UpdateTracks
  <2>3. Reset(Updated(detector.ignition, a, now)).last_state = FALSE
    BY <1>1, <1>4, <1>9
  <2> QED
    BY <2>1, <2>2, <2>3 DEF AccIgnition, AccIgnitionDetector, Tracks
<1>12. AccIgnition(s) => AccIgnitionDetector(s).last_state = FALSE
  BY <1>1, <1>4, <1>9 DEF AccIgnition, AccIgnitionDetector
<1>13. ASSUME state = "PAD_READY"
       PROVE  /\ HeightLiftoff(s) => HeldFor(heightSince', 50)
              /\ Tracks(Updated(detector.height_liftoff, h, now), heightSince')
  <2>1. heightSince' = Since(heightSince, h)
    BY <1>13 DEF Observe, BeforeLiftoff, Since, h
  <2> QED
    BY <1>1, <1>2, <1>4, <1>5, <1>6, <1>13, <2>1, UpdateTracks
       DEF HeldInv, HeightLiftoff
<1>14. ASSUME state = "DESCENDING"
       PROVE  /\ Reports(detector.landing, w, now) => HeldFor(stillSince', 1000)
              /\ Tracks(Updated(detector.landing, w, now), stillSince')
  <2>1. stillSince' = Since(stillSince, w)
    BY <1>14 DEF Observe, AfterApogee, Since, w
  <2> QED
    BY <1>1, <1>2, <1>4, <1>5, <1>6, <1>14, <2>1, UpdateTracks DEF HeldInv
<1> HIDE DEF a, h, w, b, v
<1>15. CASE StartupRun
  <2>1. state = "STARTUP" /\ detector' = detector /\ state' \in {"STARTUP", "PAD_IDLE"}
    BY <1>15 DEF StartupRun, Stay, Enter
  <2> QED
    BY <1>7, <1>10, <2>1 DEF HeldInv, Announcements, AfterApogee
<1>16. CASE PadIdleRun
  <2>1. state = "PAD_IDLE" /\ detector' = detector /\ state' = "PAD_READY"
    BY <1>16 DEF PadIdleRun, Enter
  <2> QED
    BY <1>7, <1>10, <2>1 DEF HeldInv, Announcements, AfterApogee, Tracks
<1>17. CASE PadReadyRun(s)
  <2>1. /\ state = "PAD_READY" /\ ignition_count = 0
        /\ detector'.landing = detector.landing
        /\ ~detector.landing.last_state
        /\ Tracks(detector.ignition, accSince) /\ ~AfterApogee
    BY <1>2, <1>3, <1>17 DEF PadReadyRun, CountersAgree, HeldInv, AfterApogee
  <2>2. CASE HeightLiftoff(s)
    <3>1. state' = "BOOST" /\ ignition_count' = 1
      BY <1>17, <2>1, <2>2 DEF PadReadyRun, BoostEntry
    <3>3. heightFirst'
      BY <2>1, <2>2, Zenon DEF Observe
    <3>2. Armed'
      BY <3>1, <3>3 DEF Armed
    <3> QED
      BY <1>7, <1>10, <1>13, <2>1, <2>2, <3>1, <3>2 DEF HeldInv, Announcements, AfterApogee
  <2>3. CASE ~HeightLiftoff(s) /\ AccIgnition(s)
    <3>1. state' = "BOOST" /\ detector'.ignition = AccIgnitionDetector(s)
      BY <1>2, <1>3, <1>17, <2>3 DEF PadReadyRun, BoostEntry
    <3> QED
      BY <1>7, <1>10, <1>11, <1>12, <2>1, <2>3, <3>1 DEF HeldInv, Announcements, AfterApogee
  <2>4. CASE ~HeightLiftoff(s) /\ ~AccIgnition(s)
    <3>1. /\ state' = state /\ detector'.ignition = AccIgnitionDetector(s)
          /\ detector'.height_liftoff = Updated(detector.height_liftoff, h, now)
      BY <1>2, <1>3, <1>17, <2>4 DEF PadReadyRun, Stay, h
    <3> QED
      BY <1>7, <1>10, <1>11, <1>13, <2>1, <3>1 DEF HeldInv, Announcements, AfterApogee
  <2> QED
    BY <2>2, <2>3, <2>4
<1>18. CASE BoostRun(s)
  <2>1. /\ state = "BOOST" /\ state' \in {"BOOST", "COAST"}
        /\ detector'.ignition = detector.ignition
        /\ detector'.landing = detector.landing
        /\ ignition_count' = ignition_count
    BY <1>2, <1>3, <1>18 DEF BoostRun, Stay
  <2>2. Armed => Armed'
    BY <1>2, <2>1 DEF Armed
  <2> QED
    BY <1>7, <1>10, <2>1, <2>2 DEF HeldInv, Announcements, AfterApogee, Tracks
<1>19. CASE CoastRun(s)
  <2>1. /\ state = "COAST" /\ ~AfterApogee
        /\ detector'.landing = detector.landing
        /\ ~detector.landing.last_state
        /\ Tracks(detector.ignition, accSince) \/ Armed
    BY <1>2, <1>19, CoastDetectors DEF HeldInv, AfterApogee
  <2>2. CASE state' = "DESCENDING"
    BY <1>7, <1>10, <2>1, <2>2 DEF HeldInv, Announcements, AfterApogee, Tracks
  <2>3. CASE state' = "BOOST" /\ AccIgnition(s) /\ detector'.ignition = AccIgnitionDetector(s)
    BY <1>7, <1>10, <1>11, <1>12, <2>1, <2>3 DEF HeldInv, Announcements, AfterApogee
  <2>4. CASE Stay /\ detector'.ignition = AccIgnitionDetector(s)
    <3>1. state' = "COAST" /\ (Armed => Armed')
      BY <1>2, <2>1, <2>4 DEF Stay, Armed
    <3> QED
      BY <1>7, <1>10, <1>11, <2>1, <2>4, <3>1 DEF HeldInv, Announcements, AfterApogee
  <2> QED
    BY <1>2, <1>19, <2>2, <2>3, <2>4, CoastDetectors
<1>20. CASE DescendingRun(s)
  <2>1. /\ state = "DESCENDING" /\ detector'.landing = Updated(detector.landing, w, now)
        /\ \/ state' = "LANDED" /\ Reports(detector.landing, w, now)
           \/ state' = "DESCENDING"
    BY <1>2, <1>3, <1>20 DEF DescendingRun, Enter, Stay, w
  <2> QED
    BY <1>7, <1>10, <1>14, <2>1 DEF HeldInv, Announcements, AfterApogee
<1>21. CASE LandedRun
  <2>1. state = "LANDED" /\ state' = "LANDED"
    BY <1>21 DEF LandedRun, Stay
  <2> QED
    BY <1>7, <1>10, <2>1 DEF HeldInv, Announcements, AfterApogee
<1> QED
  BY <1>2, <1>15, <1>16, <1>17, <1>18, <1>19, <1>20, <1>21 DEF Run

LEMMA HeldInvInit == HInit => HeldInv
BY DEF HInit, Init, HeldInv, Recent, HoldTimesKept, MinHold, DetectorInit,
       AfterApogee

LEMMA HeldInvStep ==
  ASSUME TypeOK, CountersAgree, HeldInv, [HNext]_hvars
  PROVE  HeldInv' /\ Announcements
<1>1. ASSUME Boot \/ SignalProcessingMain \/ UNCHANGED hvars, UNCHANGED history
      PROVE  HeldInv' /\ Announcements
  <2>1. /\ state' = state /\ detector' = detector /\ ignition_count' = ignition_count
        /\ now' \in Nat /\ now <= now' /\ UNCHANGED history
    BY <1>1, FlightAssumption DEF Boot, SignalProcessingMain, hvars, TypeOK
  <2>2. Recent(accSince)' /\ Recent(heightSince)' /\ Recent(stillSince)'
    BY <2>1 DEF HeldInv, Recent, history, TypeOK
  <2> QED
    BY <2>1, <2>2 DEF HeldInv, Announcements, HoldTimesKept, Armed, AfterApogee, history
<1>2. CASE UNCHANGED hvars
  BY <1>1, <1>2 DEF hvars, history
<1> QED
  BY <1>1, <1>2, UpdateStep DEF HNext

LEMMA HistorySpec == HSpec => Spec
<1>1. HInit => Init
  BY DEF HInit
<1>2. [HNext]_hvars => [Next]_vars
  BY DEF HNext, Next, hvars, vars
<1> QED
  BY <1>1, <1>2, PTL DEF HSpec, Spec

LEMMA HeldInvCorrect == HSpec => [](TypeOK /\ CountersAgree /\ HeldInv)
<1>1. TypeOK /\ CountersAgree /\ HeldInv /\ [HNext]_hvars => HeldInv'
  BY HeldInvStep
<1> QED
  BY <1>1, HeldInvInit, HistorySpec, TypeCorrect, CountersCorrect, PTL DEF HSpec

\* No liftoff without 50 ms of samples that show it.
THEOREM LiftoffCorrect == HSpec => LiftoffHeld
<1>1. TypeOK /\ CountersAgree /\ HeldInv /\ [HNext]_hvars
        => [state = "PAD_READY" /\ state' = "BOOST" =>
              HeldFor(accSince', 50) \/ HeldFor(heightSince', 50)]_hvars
  BY HeldInvStep DEF Announcements
<1> QED
  BY <1>1, HeldInvCorrect, PTL DEF HSpec, LiftoffHeld

\* No further ignition without 50 ms of samples that show it, unless the height
\* decided the liftoff and it is the second ignition.
THEOREM ReignitionCorrect == HSpec => ReignitionHeld
<1>1. TypeOK /\ CountersAgree /\ HeldInv /\ [HNext]_hvars
        => [state = "COAST" /\ state' = "BOOST" =>
              \/ HeldFor(accSince', 50)
              \/ heightFirst /\ ignition_count = 1]_hvars
  BY HeldInvStep DEF Announcements, Armed
<1> QED
  BY <1>1, HeldInvCorrect, PTL DEF HSpec, ReignitionHeld

\* No touchdown without 1000 ms of samples after the apogee that show it.
THEOREM TouchdownCorrect == HSpec => TouchdownHeld
<1>1. TypeOK /\ CountersAgree /\ HeldInv /\ [HNext]_hvars
        => [state = "DESCENDING" /\ state' = "LANDED" =>
              HeldFor(stillSince', 1000)]_hvars
  BY HeldInvStep DEF Announcements
<1> QED
  BY <1>1, HeldInvCorrect, PTL DEF HSpec, TouchdownHeld
================================================================================
