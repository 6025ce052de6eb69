----------------------------- MODULE MissionEvents -----------------------------
(***************************************************************************)
(* What the flight state machine promises to whoever registered a callback *)
(* with events2.c (the data logger, main.c, the Lua scripts): the order in *)
(* which the mission events may fire.  The promise is stated in terms of   *)
(* the events alone: what may fire next depends on the last event fired,   *)
(* never on a sample, a detector or a state of the machine.                *)
(***************************************************************************)
EXTENDS Integers, Sequences

VARIABLE trace  \* the events fired since power-up, in firing order

Events == {"boot", "processing_ready", "pad_idle", "pad_ready", "ignition",
           "liftoff", "burnout", "apogee", "touchdown"}

Last(tr) == IF tr = <<>> THEN "none" ELSE tr[Len(tr)]

\* event2_fire(e) in a situation where the last event fired was one of After.
FireAfter(After, e) == Last(trace) \in After /\ trace' = Append(trace, e)

Init == trace = <<>>

Boot            == FireAfter({"none"}, "boot")
ProcessingReady == FireAfter({"boot"}, "processing_ready")
PadIdle         == FireAfter({"processing_ready"}, "pad_idle")
PadReady        == FireAfter({"pad_idle"}, "pad_ready")
Burnout         == FireAfter({"ignition", "liftoff"}, "burnout")
Reignition      == FireAfter({"burnout"}, "ignition")
Apogee          == FireAfter({"burnout"}, "apogee")
Touchdown       == FireAfter({"apogee"}, "touchdown")

\* The first ignition and the liftoff fire back to back: nothing can fire,
\* and no callback of another event can run, between the two.
Liftoff ==
  /\ Last(trace) = "pad_ready"
  /\ trace' = Append(Append(trace, "ignition"), "liftoff")

Next == \/ Boot \/ ProcessingReady \/ PadIdle \/ PadReady \/ Liftoff
        \/ Burnout \/ Reignition \/ Apogee \/ Touchdown

Spec == Init /\ [][Next]_trace
--------------------------------------------------------------------------------
\* The events that fire at most once in a flight.
OnceEvents == Events \ {"ignition", "burnout"}

\* The stage of the mission an event belongs to.
Stage(e) == CASE e = "boot" -> 0
              [] e = "processing_ready" -> 1
              [] e = "pad_idle" -> 2
              [] e = "pad_ready" -> 3
              [] e \in {"ignition", "liftoff", "burnout"} -> 4
              [] e = "apogee" -> 5
              [] OTHER -> 6

\* Event e may come after an event d of the same flight.
MayFollow(d, e) == Stage(d) <= Stage(e) /\ (d = e => e \notin OnceEvents)

\* A mission never goes back a stage, and every event but ignition and burnout
\* fires at most once: in particular one liftoff, one apogee, one touchdown, in
\* this order, and no ignition after the apogee.
MissionOrder ==
  \A i, j \in 1..Len(trace) : i < j => MayFollow(trace[i], trace[j])

\* Ignitions and burnouts alternate: between two ignitions there is a burnout,
\* an ignition is followed by a burnout before anything but the liftoff, and
\* every burnout ends an ignition.
BurnsAlternate ==
  \A i \in 1..Len(trace) :
     /\ trace[i] = "burnout" =>
          i > 1 /\ trace[i - 1] \in {"ignition", "liftoff"}
     /\ trace[i] = "liftoff" => i > 1 /\ trace[i - 1] = "ignition"
     /\ (trace[i] = "ignition" /\ i < Len(trace)) =>
          trace[i + 1] \in {"liftoff", "burnout"}
================================================================================
