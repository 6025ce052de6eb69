-------------------------------- MODULE LuaCalls --------------------------------
(***************************************************************************)
(* What the Lua engine promises to a script, without threads, work items   *)
(* or memory.  The script itself is one call; every fire of an event it    *)
(* subscribed to and every expiry of a timer it armed becomes owed as one  *)
(* call more, at that moment; calls are made one at a time, in the order   *)
(* in which they became owed.  The promise ends when the program faults.   *)
(***************************************************************************)
EXTENDS Integers, Sequences

CONSTANTS
  Events,
  Timers

VARIABLES
  alive,       \* the program has not faulted
  booted,      \* the script has become a call
  fires,       \* per event, how often it fired
  expiries,    \* per timer, how often it expired, modulo 2
  subscribed,  \* events some script registered a callback for
  mode,        \* per timer "off", "oneshot" or "cyclic"
  owed,        \* calls owed, the oldest first
  serving      \* the call that is being made, or NoCall

callVars == <<alive, booted, fires, expiries, subscribed, mode, owed, serving>>

ScriptCall == [fcn |-> "file", arg |-> 0]
EventCall(e) == [fcn |-> "event", arg |-> e]
TimerCall(t) == [fcn |-> "timer", arg |-> t]
NoCall == [fcn |-> "none", arg |-> 0]

Init ==
  /\ alive = TRUE /\ booted = FALSE
  /\ fires = [e \in Events |-> 0] /\ expiries = [t \in Timers |-> 0]
  /\ subscribed = {} /\ mode = [t \in Timers |-> "off"]
  /\ owed = <<>> /\ serving = NoCall

Load ==
  /\ ~booted /\ booted' = TRUE
  /\ owed' = Append(owed, ScriptCall)
  /\ UNCHANGED <<alive, fires, expiries, subscribed, mode, serving>>

\* Only the script subscribes and sets timers, and it runs only in a call.
Subscribe(e) ==
  /\ serving # NoCall
  /\ subscribed' = subscribed \cup {e}
  /\ UNCHANGED <<alive, booted, fires, expiries, mode, owed, serving>>

SetTimer(t, m) ==
  /\ serving # NoCall
  /\ mode' = [mode EXCEPT ![t] = m]
  /\ UNCHANGED <<alive, booted, fires, expiries, subscribed, owed, serving>>

Fire(e) ==
  /\ fires' = [fires EXCEPT ![e] = @ + 1]
  /\ owed' = IF e \in subscribed THEN Append(owed, EventCall(e)) ELSE owed
  /\ UNCHANGED <<alive, booted, expiries, subscribed, mode, serving>>

\* A one-shot timer expires once per start.
Expire(t) ==
  /\ mode[t] # "off"
  /\ expiries' = [expiries EXCEPT ![t] = 1 - @]
  /\ owed' = Append(owed, TimerCall(t))
  /\ mode' = [mode EXCEPT ![t] = IF @ = "oneshot" THEN "off" ELSE @]
  /\ UNCHANGED <<alive, booted, fires, subscribed, serving>>

Serve ==
  /\ serving = NoCall /\ owed # <<>>
  /\ serving' = Head(owed) /\ owed' = Tail(owed)
  /\ UNCHANGED <<alive, booted, fires, expiries, subscribed, mode>>

Return ==
  /\ serving # NoCall /\ serving' = NoCall
  /\ UNCHANGED <<alive, booted, fires, expiries, subscribed, mode, owed>>

\* Nothing is promised of the step that faults, and there is none after it.
Fail == alive' = FALSE

Next ==
  /\ alive
  /\ \/ Load \/ Serve \/ Return \/ Fail
     \/ \E e \in Events : Subscribe(e) \/ Fire(e)
     \/ \E t \in Timers : Expire(t) \/ \E m \in {"off", "oneshot", "cyclic"} : SetTimer(t, m)

Spec == Init /\ [][Next]_callVars
================================================================================
