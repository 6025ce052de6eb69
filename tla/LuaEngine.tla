------------------------------- MODULE LuaEngine -------------------------------
(***************************************************************************)
(* The Lua engine: the work queue of lua_execution_engine.c and its        *)
(* thread, the event library (lua_eventlib.c with events2.c) and the timer *)
(* library (lua_timerlib.c with eventtimer.c).                             *)
(*                                                                         *)
(* Three actors: the main thread queues the script and fires events; timer *)
(* interrupts queue expiries; the Lua thread takes the items and runs the  *)
(* script or a callback, which may call the libraries at any point.  Main  *)
(* and interrupts preempt the Lua thread between any two actions.  A       *)
(* script is any sequence of library calls.                                *)
(***************************************************************************)
EXTENDS Integers, Sequences, FiniteSets, SequencesExt

CONSTANTS
  Events,       \* the events a script can register for
  TimerCount,   \* length of event_timers
  RefCount,     \* CONFIG_EVENT_TIMERS_NUMBER, length of callback_refs
  Numbers,      \* timer numbers a script passes
  HeapBlocks,   \* bound: blocks of the kernel heap held by the engine
  MaxCallbacks, \* bound: callbacks per event
  MaxFires      \* bound: fires per event

ASSUME LuaAssumption ==
  /\ TimerCount \in 1..256 /\ RefCount \in Nat
  /\ Numbers \subseteq Int
  /\ HeapBlocks \in Nat /\ MaxCallbacks \in Nat /\ MaxFires \in Nat

VARIABLES
  booted,     \* main has queued the script and registered its own callbacks
  listeners,  \* per event, the list of callbacks at event->root
  callbacks,  \* per event, length of its table of Lua callbacks; 0: no table
  fires,      \* per event, how often it fired
  mode,       \* per timer "off", "oneshot" or "cyclic"
  due,        \* per timer, less than 1 ms to go: k_timer_remaining_get returns 0
  expiries,   \* per timer, how often it expired, modulo 2 (history)
  queue,      \* lua_work_fifo
  job,        \* the item the Lua thread works on (File when it has none)
  pc,         \* where the Lua thread is
  left,       \* callbacks of the item still to run after the current one
  blocks,     \* blocks of the kernel heap held by the engine
  fault       \* why the program is in undefined behaviour, or "none"

mainVars == <<booted, fires>>
timerVars == <<mode, due, expiries>>
workVars == <<job, pc, left>>
vars == <<mainVars, listeners, callbacks, timerVars, queue, workVars, blocks, fault>>

Timers == 0..(TimerCount - 1)

Items == [fcn : {"file"}, arg : {0}] \cup [fcn : {"event"}, arg : Events]
           \cup [fcn : {"timer"}, arg : Timers]

File == [fcn |-> "file", arg |-> 0]
EventItem(e) == [fcn |-> "event", arg |-> e]
TimerItem(t) == [fcn |-> "timer", arg |-> t]

\* Blocks of an item: itself and, except for events, its data.
Size(item) == IF item.fcn = "event" THEN 1 ELSE 2

Alive == fault = "none"

\* The Lua thread is at l.
At(l) == Alive /\ pc = l

Init ==
  /\ booted = FALSE
  /\ listeners = [e \in Events |-> <<>>]
  /\ callbacks = [e \in Events |-> 0]
  /\ fires = [e \in Events |-> 0]
  /\ mode = [t \in Timers |-> "off"] /\ due = [t \in Timers |-> FALSE]
  /\ expiries = [t \in Timers |-> 0]
  /\ queue = <<>> /\ job = File /\ pc = "idle" /\ left = 0
  /\ blocks = 0 /\ fault = "none"
--------------------------------------------------------------------------------
(* Work items *)

Undefined(why) == fault' = why /\ UNCHANGED <<queue, blocks>>

\* Mutant of Enqueue: without memory the item is left out.
EnqueueIfRoom(item, n) ==
  \/ /\ blocks + n * Size(item) <= HeapBlocks
     /\ blocks' = blocks + n * Size(item)
     /\ queue' = queue \o [i \in 1..n |-> item]
     /\ UNCHANGED fault
  \/ n > 0 /\ UNCHANGED <<queue, blocks, fault>>

\* get_lua_work_item and lua_engine_enque_work as the callers combine them, for
\* n callers of one item.  An allocation can fail at any time, the heap is
\* shared; an item without data is refused, too, if the field that was not set
\* happens to be 0.  The callers do not test the result: they write through a
\* null pointer.
Enqueue(item, n) ==
  \/ /\ blocks + n * Size(item) <= HeapBlocks
     /\ blocks' = blocks + n * Size(item)
     /\ queue' = queue \o [i \in 1..n |-> item]
     /\ UNCHANGED fault
  \/ n > 0 /\ Undefined("no_memory")
  \/ n > 0 /\ item.fcn = "event" /\ Undefined("not_set")

\* Mutant of Take: the newest item first.
TakeLast ==
  /\ At("idle") /\ queue # <<>>
  /\ job' = Last(queue) /\ queue' = Front(queue) /\ pc' = "start"
  /\ UNCHANGED <<mainVars, listeners, callbacks, timerVars, left, blocks, fault>>

\* work_handler: k_fifo_get.
Take ==
  /\ At("idle") /\ queue # <<>>
  /\ job' = Head(queue) /\ queue' = Tail(queue) /\ pc' = "start"
  /\ UNCHANGED <<mainVars, listeners, callbacks, timerVars, left, blocks, fault>>

\* work_handler: k_free of the item.  The name of the file is never freed.
Finish ==
  /\ At("free")
  /\ pc' = "idle" /\ job' = File /\ blocks' = blocks - 1
  /\ UNCHANGED <<mainVars, listeners, callbacks, timerVars, queue, left, fault>>

Enter(l, n) == pc' = l /\ left' = n /\ UNCHANGED <<queue, job>>

\* dofile_impl and lua_reader: the file may be missing or not compile; the
\* size of a failed read is taken for a length.
DofileImpl ==
  /\ At("start") /\ job.fcn = "file"
  /\ \/ Enter("free", 0) /\ UNCHANGED fault
     \/ Enter("script", 0) /\ UNCHANGED fault
     \/ fault' = "bounds" /\ UNCHANGED <<workVars, queue>>
  /\ UNCHANGED <<mainVars, listeners, callbacks, timerVars, blocks>>

\* execute_callback_impl of the event library: the callbacks there are now.
EventImpl ==
  /\ At("start") /\ job.fcn = "event"
  /\ IF callbacks[job.arg] = 0 THEN Enter("free", 0) ELSE Enter("script", callbacks[job.arg] - 1)
  /\ UNCHANGED <<mainVars, listeners, callbacks, timerVars, blocks, fault>>

\* Mutant of TimerImpl: the number of the timer is not freed.
TimerImplKeeping ==
  /\ At("start") /\ job.fcn = "timer"
  /\ Enter("free", 0) \/ Enter("script", 0)
  /\ UNCHANGED <<mainVars, listeners, callbacks, timerVars, blocks, fault>>

\* execute_callback_impl of the timer library and timer_expire: no callback is
\* registered, or it runs.
TimerImpl ==
  /\ At("start") /\ job.fcn = "timer"
  /\ Enter("free", 0) \/ Enter("script", 0)
  /\ blocks' = blocks - 1
  /\ UNCHANGED <<mainVars, listeners, callbacks, timerVars, fault>>

\* The script or a callback returns or fails; a failed callback does not keep
\* the next one from running.
ScriptEnds ==
  /\ At("script")
  /\ IF left > 0 THEN Enter("script", left - 1) ELSE Enter("free", 0)
  /\ UNCHANGED <<mainVars, listeners, callbacks, timerVars, blocks, fault>>
--------------------------------------------------------------------------------
(* The libraries, called by the script.  A call that raises an error changes *)
(* nothing; the script may catch it or end.                                   *)

\* event2_register_callback: without memory for the node nothing is registered.
Listen(e, callback) ==
  listeners' \in {listeners, [listeners EXCEPT ![e] = Append(@, callback)]}

\* register_callback of the event library: the first callback of an event
\* registers the library with the event.
RegisterEvent(e) ==
  /\ At("script") /\ callbacks[e] < MaxCallbacks
  /\ IF callbacks[e] = 0 THEN Listen(e, "execute_callback") ELSE UNCHANGED listeners
  /\ callbacks' = [callbacks EXCEPT ![e] = @ + 1]
  /\ UNCHANGED <<mainVars, timerVars, queue, workVars, blocks, fault>>

\* register_callback of the timer library stores without a test of the number;
\* outside callback_refs anything may be overwritten.
RegisterTimer(n) ==
  /\ At("script") /\ n \notin 0..(RefCount - 1)
  /\ fault' = "bounds"
  /\ UNCHANGED <<mainVars, listeners, callbacks, timerVars, queue, workVars, blocks>>

\* start and event_timer_start: the number is cut to 8 bits; a timer with at
\* least 1 ms to go is left alone; the period 0 makes a one-shot timer.
StartTimer(n, count, cyclic) ==
  LET t == n % 256 IN
  /\ At("script") /\ t < TimerCount
  /\ mode[t] = "off" \/ due[t]
  /\ mode' = [mode EXCEPT ![t] = IF cyclic /\ count > 0 THEN "cyclic" ELSE "oneshot"]
  /\ due' = [due EXCEPT ![t] = count = 0]
  /\ UNCHANGED <<mainVars, listeners, callbacks, expiries, queue, workVars, blocks, fault>>

\* Mutant of StopTimer: the timeout of the timer is not taken back.
StopTimerFlagOnly(n) ==
  LET t == n % 256 IN
  /\ At("script") /\ t < TimerCount
  /\ mode' = [mode EXCEPT ![t] = "off"]
  /\ UNCHANGED <<mainVars, listeners, callbacks, due, expiries, queue, workVars, blocks, fault>>

\* stop and event_timer_stop; an expiry that is already queued stays queued.
StopTimer(n) ==
  LET t == n % 256 IN
  /\ At("script") /\ t < TimerCount
  /\ mode' = [mode EXCEPT ![t] = "off"] /\ due' = [due EXCEPT ![t] = FALSE]
  /\ UNCHANGED <<mainVars, listeners, callbacks, expiries, queue, workVars, blocks, fault>>
--------------------------------------------------------------------------------
(* Timer interrupts *)

LastMillisecond(t) ==
  /\ Alive /\ mode[t] # "off" /\ ~due[t]
  /\ due' = [due EXCEPT ![t] = TRUE]
  /\ UNCHANGED <<mainVars, listeners, callbacks, mode, expiries, queue, workVars, blocks, fault>>

\* The mode of a timer after its expiry: the kernel restarts a periodic one.
Rearmed(m) == IF m = "cyclic" THEN "cyclic" ELSE "off"

\* event_timer_expr and execute_callback of the timer library.
Expire(t) ==
  /\ Alive /\ due[t]
  /\ mode' = [mode EXCEPT ![t] = Rearmed(@)] /\ due' = [due EXCEPT ![t] = FALSE]
  /\ expiries' = [expiries EXCEPT ![t] = 1 - @]
  /\ Enqueue(TimerItem(t), 1)
  /\ UNCHANGED <<mainVars, listeners, callbacks, workVars>>
--------------------------------------------------------------------------------
(* The main thread *)

\* main up to its sleep: the Lua thread has a lower priority and only then starts.
Boot ==
  /\ Alive /\ ~booted /\ booted' = TRUE
  /\ listeners' = [e \in Events |-> <<"evt_callback">>]
  /\ Enqueue(File, 1)
  /\ UNCHANGED <<fires, callbacks, timerVars, workVars>>

\* How often the library is in the list of an event.
Registered(e) == Cardinality({i \in DOMAIN listeners[e] : listeners[e][i] = "execute_callback"})

\* event2_fire: each callback of the list once; evt_callback only writes a line.
Fire(e) ==
  /\ Alive /\ booted /\ fires[e] < MaxFires
  /\ fires' = [fires EXCEPT ![e] = @ + 1]
  /\ Enqueue(EventItem(e), Registered(e))
  /\ UNCHANGED <<booted, listeners, callbacks, timerVars, workVars>>
--------------------------------------------------------------------------------
LuaThread == Take \/ DofileImpl \/ EventImpl \/ TimerImpl \/ ScriptEnds \/ Finish

LibraryCall ==
  \/ \E e \in Events : RegisterEvent(e)
  \/ \E n \in Numbers :
       \/ RegisterTimer(n) \/ StopTimer(n)
       \/ \E count \in {0, 1}, cyclic \in BOOLEAN : StartTimer(n, count, cyclic)

Next ==
  \/ LuaThread
  \/ LibraryCall
  \/ \E t \in Timers : LastMillisecond(t) \/ Expire(t)
  \/ Boot
  \/ \E e \in Events : Fire(e)

Spec == Init /\ [][Next]_vars

\* The Lua thread runs whenever the threads above it wait, and scripts end.
FairSpec == Spec /\ WF_vars(LuaThread)
--------------------------------------------------------------------------------
TypeOK ==
  /\ booted \in BOOLEAN
  /\ listeners \in [Events -> Seq({"evt_callback", "execute_callback"})]
  /\ callbacks \in [Events -> 0..MaxCallbacks]
  /\ fires \in [Events -> 0..MaxFires]
  /\ mode \in [Timers -> {"off", "oneshot", "cyclic"}]
  /\ due \in [Timers -> BOOLEAN] /\ expiries \in [Timers -> 0..1]
  /\ \A t \in Timers : due[t] => mode[t] # "off"
  /\ queue \in Seq(Items) /\ job \in Items
  /\ pc \in {"idle", "start", "script", "free"} /\ left \in 0..MaxCallbacks
  /\ blocks \in 0..HeapBlocks
  /\ fault \in {"none", "no_memory", "not_set", "bounds"}

\* Blocks of the items of a queue: their own and, except for events, their data.
QueueBlocks(q) == Len(q) + Cardinality({i \in DOMAIN q : q[i].fcn # "event"})

\* Blocks of the item in work: those it had in the queue until its handler freed
\* the data, which the one of the file never does.
JobBlocks ==
  IF pc = "idle" THEN 0 ELSE IF pc = "start" \/ job.fcn = "file" THEN Size(job) ELSE 1

\* Blocks the engine can still reach.
Held == QueueBlocks(queue) + JobBlocks

FileDone == booted /\ fault = "none" /\ ~Contains(queue, File) /\ (pc = "idle" \/ job # File)

\* The engine gives every block back, through all its callbacks and errors, but
\* for one: the name of the script file, which nobody frees.
HeapConserved == fault = "none" => blocks = Held + (IF FileDone THEN 1 ELSE 0)

\* The events the library is registered with.
Subscribed == {e \in Events : Contains(listeners[e], "execute_callback")}

\* The call in work.
Serving == IF pc = "idle" THEN [fcn |-> "none", arg |-> 0] ELSE job

Calls == INSTANCE LuaCalls
           WITH alive <- Alive, subscribed <- Subscribed, owed <- queue, serving <- Serving

\* Until the program faults, every fire of an event the library is registered
\* with and every expiry queues exactly one call, at that moment; what the thread
\* begins is the oldest call queued, and nothing leaves the queue otherwise: no
\* call is lost, doubled or overtaken, a second callback of an event does not
\* register it again, and a one-shot timer expires once per start.
CallsRefined == Calls!Spec

\* Every call that is queued is begun, however many timers go on queueing others,
\* unless the program faults.
CallsServed ==
  \A item \in Items :
    Contains(queue, item) ~> (pc = "start" /\ job = item) \/ fault # "none"

\* lua_eventlib.c: a registered callback "will be executed when event is
\* triggerd".  Each fire of an event the library is registered with queues an
\* item, unless the heap is full.
EventExecuted ==
  [][\A e \in Events :
       /\ fires'[e] # fires[e]
       /\ Contains(listeners[e], "execute_callback")
       /\ fault' # "no_memory"
       => Len(queue') > Len(queue)]_vars
================================================================================
