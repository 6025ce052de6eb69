# Alturia firmware: TLA+ models

Models, model-checking runs and proofs for the firmware of the Alturia rocket
flight computer (C on Zephyr RTOS). The sources are under `src/`; all
paths below are relative to the repository.

## 1. The system

The firmware samples sensors every 10 ms, derives height, velocity and
acceleration, runs a flight state machine on them, tells everybody who
registered about the mission events, writes a log to flash and runs user
scripts in Lua that may fire pyros, move servos and start timers.

| component | source | state it keeps | operations | talks to |
|---|---|---|---|---|
| data acquisition | `daq.c`, `daq_sensor.c` | sample buffers, interval, two mutex / condition variable pairs | timer callback, work item, sampling thread, `daq_sync`, `daq_get_sample` | main loop |
| signal processing | `rocket/signal_processing.c` | start-up state, offset counter, filter states | `signal_processing_init`, `_main` | daq, flight state (in flight?), event `processing_ready` |
| edge detector | `edge_detector.c` | last edge, last state | init, update, reset, three conditions | flight state |
| flight state machine | `rocket/flightstate.c` | state, five detectors, ignition and burnout counters | `flightstate_init`, `_update`, getters | signals, events |
| mission events | `events2.c` | a list of callbacks per event | register, fire | main, flight log, Lua |
| flight log | `rocket/data_logging.c` | log name, `log_active`, pre-buffer, delayed close | callbacks of `pad_ready`, `touchdown` and of every event, `rocket_data_logging` | datalogger |
| datalogger | `datalogger.c` | `k_heap`, `k_fifo`, open file, path | `dl_*` calls, worker thread | file system |
| Lua engine | `lua_execution_engine/` | Lua state, work queue | run a file, queue a callback, worker thread | events, timers, pyros, LED, servos, signals |
| event timers | `eventtimer.c` | 16 kernel timers, one callback | start, stop, expiry in an interrupt | Lua engine |
| pyros | `pyros.c` | pin, delayed work per channel | init, fire, switch off | Lua, work queue |
| beeper | `beeper.c`, `rocket/beeper_logic.c` | a sequence and its lock | start a sequence, step of it | flight state, work queue |
| LED | `led.c`, `pwm_rgb_led.c` | colour | set | Lua |
| servos | `servos.c`, `servo_shell.c` | limits, setpoints | set angle | Lua, shell |
| configuration | `config_yaml.c`, `config_shell.c` | object in memory, `env.json` | load, check, set, dump | main, shell |
| log store | `util.c` | the logs in the directory | count logs, name a log | main |
| numeric, atmosphere, filters | `numeric.c`, `is_atmosphere.c`, `filter/` | layers, filter states | arithmetic | signal processing |

Threads and their priorities (from `prj.conf`, `Kconfig` and the sources): the
main thread, the sampling thread and the system work queue are cooperative
(-1); the Lua worker has 0, the shell 2, the datalogger worker 3, the beeper
logic 10. Timer callbacks run in interrupts. A cooperative thread runs until it
waits, which is why a call of the datalogger, made from a cooperative thread and
never waiting, is one step in the models, and why the worker may be interrupted
anywhere.

### What is hard here, and what must hold

* *Edge detectors over time.* Whether a state of the flight changes depends on
  runs of samples, on resets in between and on an early return that skips an
  assignment. No glitch may count as a liftoff or a touchdown.
* *Order of events.* Entry, exit and run functions fire events from different
  places; the callbacks rely on their order.
* *Memory.* Items and data blocks of the datalogger change hands between
  callers, queue and worker, and every allocation may fail half-way.
* *Asynchronous writing.* The file lags behind the flight; header, events and
  the delayed close must still come out in order. Calls of the file system fail,
  power is lost.
* *Handshakes.* Timer, work item, sampling thread and main loop pass samples on
  with condition variables and try-locks; a notification nobody waits for is lost.
* *Callbacks handed to another thread.* Interrupts and the main thread queue
  calls for the Lua thread, allocating for each; the script meanwhile stops and
  restarts timers and registers for events.
* *Delayed work.* A pyro channel is switched off, and a beep continued, by work
  items that may be scheduled again while they are pending, submitted or running.
* *Starts that are broken off.* Power is lost between any two steps of loading,
  completing and saving the configuration and of naming and writing the log.

`PROJECT.json` lists every such place with its line under `hazards`, with the
properties that cover it, or the reason why none does.

## 2. The modules

```
EdgeDetector <- FlightState <- FlightHistory <- MC_FlightHistory
                   | implements
               MissionEvents  <--------------+
                                              |  (composed of)
LogJob <- LogService <- RocketLogging <- MC_RocketLogging
   ^          ^ implements
   +----- Datalogger <- MC_Datalogger

Daq <- MC_Daq

LuaEngine <- MC_LuaEngine
   | implements
LuaCalls

WorkQueue <- Pyros, Beeper  \
             Servos, Led    -> Outputs <- MC_Outputs

ConfigStore, LogStore -> Startup <- MC_Startup

FlightHistory_proof   Daq_proof          Outputs_proof    Startup_proof
LogJob_proof -> Datalogger_proof, RocketLogging_proof     LuaEngine_proof
```

**EdgeDetector** (`edge_detector.c`): the detector record and the functions on
it. `Reports` is the result of `edge_detector_update`, `Updated` the detector it
leaves: a report returns before `last_state` is stored.

**MissionEvents**: the abstract specification of the event order. Its only state
is `trace`, the events fired so far; what may fire next depends on the last one.

**FlightState** (`rocket/flightstate.c`, the start-up of
`rocket/signal_processing.c`, the loop of `main.c`): an iteration of the main
loop is `SignalProcessingMain`, where time passes, followed by
`FlightstateUpdate(s)` on a sample `s`. There is one action per run function
(`StartupRun` ... `LandedRun`); entry and exit functions are part of the action
that changes the state, in the order of the calls. Samples are arbitrary, so the
filters are over-approximated: nothing proved depends on what they compute.
`now` is `k_uptime_get()` in milliseconds.

**FlightHistory** adds history variables that record what the samples showed,
independently of the detectors: how long the acceleration, the height and the
landing window have held without a break. They only observe; the action
properties compare them with the state changes.

**LogJob** (`datalogger.c`, worker): the request in work, the open file and the
file system (external). `image` is the file as the thread sees it, `durable` what
a power loss leaves. A chunk is written element by element, each write may fail
and then the rest is abandoned. A file whose `fs_close` fails stays open, and
then no other can be opened.

**LogService**: the abstract datalogger, a queue of requests performed in order.

**Datalogger** (`datalogger.c`, all of it): heap blocks with their contents,
the queue of item addresses, one action per call of the API and the steps of the
worker: take an item, work, free the data, free the item. A block may be handed
out again the moment it is freed, and a freed block holds garbage, so a read
after a free or a double free shows up. `leaked` collects the items lost by a
failing second allocation. `PowerLoss` keeps only the durable files.

**RocketLogging** (`rocket/data_logging.c`, events and loop of `main.c`): composes
MissionEvents (when events fire) and LogService (what becomes of requests) by
instance. FlightState and Datalogger implement these two, so the large models need
not be multiplied. `todo` holds the calls the cooperative main thread still has
to make in this iteration; worker and work queue run when it is empty and the
thread waits. The delay of one second before the close is abstracted to any
delay.

**Daq** (`daq_sensor.c`, the wait in the loop of `main.c`): the timer interrupt,
the work queue, the sampling thread and the main thread. `ready` is the queue of
ready threads: they are cooperative and of one priority, so the first one runs
until it waits. An action is what a thread does between two calls of the kernel,
and an interrupt (`Tick`, `TransferDone`) may come between any two. A sample is
the colour of its round, and three colours tell a new value from an old one. The
property `LocksFree` says that no lock is ever contended: the "sample overrun"
warning (line 160) and the failing try-lock of the trigger (line 107) are dead
code. What is lost instead is lost in silence: a trigger that comes while the
sensors are being read finds nobody waiting.

**LuaEngine** (`lua_execution_engine.c`, `lua_eventlib.c`, `lua_timerlib.c`,
`eventtimer.c`, `events2.c`): the main thread fires events (`Fire`), timer
interrupts expire (`Expire`), and the Lua thread takes items (`Take`), runs the
script or a callback (`DofileImpl`, `EventImpl`, `TimerImpl`, `ScriptEnds`) and
frees the item (`Finish`). While a script runs it may call the libraries
(`RegisterEvent`, `RegisterTimer`, `StartTimer`, `StopTimer`) in any order, with
any integers for the numbers of timers; an
event may fire and a timer expire between any two of these steps, which is why
`EventImpl` calls the callbacks registered by then. A timer's remaining time is
abstracted to `due`, "less than a millisecond": the one thing
`event_timer_start` tests. `Registered` is how often the library is in the list of
an event, so how many items a fire queues. `blocks` counts the blocks of the kernel heap, `left`
the callbacks of an event still to run. `fires` and `expiries` (modulo 2) count what
happened, so that a step shows it. `Enqueue` has the two ways in which
`get_lua_work_item` returns NULL, and the callers write through it untested:
`fault` then names the cause and nothing more happens. Storing a callback reference
outside `callback_refs` is a fault as well.

**LuaCalls**: the abstract specification of the engine, without threads, items
or memory: a queue of calls, and the call being made. It counts the fires and the
expiries: a step that shows a fire of a subscribed event or an expiry must put
its call into the queue, no other step may, and only `Serve` takes a call out, which
begins it. Subscriptions and timers change only while a call is made. The
mapping is `owed <- queue`, `serving <-` the item in work; the step that faults is
`Fail`, behind which nothing is promised. What the specification does not say is
which callbacks a call runs, and that a registration succeeds: one that finds no
memory subscribes nothing.

**WorkQueue** (Zephyr, external): `k_work_schedule`, the end of a delay and the
thread that runs the items, with the two properties the code depends on: an item
that is pending is left alone, and initialising a pending item forgets it is.

**Pyros** (`pyros.c`, `lua_pyrolib.c`): `pyros_fire` in two steps, because the
work queue preempts the Lua thread between setting the pin and scheduling the
switch-off; the handler; the initialisation that gives up at the first failing
channel. A write of a pin may fail.

**Beeper** (`beeper.c`, `beeper_logic.c`): the thread that tells the state of the
mission, `beepn` before and after it takes the semaphore, and the handler that makes
one step of the sequence, each PWM call of which may fail.

**Servos** (`servos.c`, `servo_shell.c`, `lua_servolib.c`): limits, the angle cut
to 8 bits, conversion and clamp, and the division that traps for a servo
without limits.

**Led** (`led.c`, `pwm_rgb_led.c`, `lua_ledlib.c`): colour words of four bytes, the
three of them that are handed to the driver, and three PWM channels, each of which
may fail. `hsv_to_rgb` is floating point arithmetic on numbers nobody checks: any
word may come out of it, so the model takes the word as its input. On a
little-endian processor red and green come out swapped, and blue is the top byte
of the word; nothing in the repository says otherwise, so this is part of the
model and not a finding.

**Outputs** composes the four. Pyro channels and beeper share the work queue; the
Lua thread makes one call at a time, the shell may set a servo in between.

**ConfigStore** (`config_yaml.c`, `config_shell.c`): the object in memory and the
file, with `config_dump` in the steps a power loss may come between. littlefs
commits a file when it is closed, so the file keeps its contents until then; a
file that a failing dump leaves open is counted in `leaked`. A read behind the
end of the buffer (`LoadOverrun`) and the length of a null pointer (`DumpNothing`)
are faults.

**LogStore** (`util.c`): `get_log_count` entry by entry, in any order the directory
may give them (`OpenDir`, `ReadEntry`); a read that fails ends the count with what was
found so far (`ReadFails`).

**Startup** (`main.c`, `init_config`) composes the two: a start goes through
`config`, `check`, `save`, `count`, `read`, `running`, `logging`, and `PowerLoss` may end
it at any point, also after a fault. The shell changes and dumps the
configuration from the sleep of main on (`ShellReady`); a command in the moments
before is left out, and every dump goes to `env.json`, the only file that is read.

Some modules define mutants next to a definition: variants with a plausible
mistake. They take no part in the specification; a property is worth something
only if the checker finds it violated once its mutant replaces the definition.

## 3. The runs

| run | module / cfg | question | size |
|---|---|---|---|
| flight_history | MC_FlightHistory | Do the events fire in mission order, and does every change of state have its cause in the samples? | 8 400 states |
| datalogger | MC_Datalogger | Has every block one owner, and is the datalogger the service it promises? | 200 000 states |
| rocket_logging | MC_RocketLogging | Is the log of a flight decodable, ordered, complete, and closed for good? | 660 000 states |
| daq | MC_Daq | Does every announced sample reach the main loop once and whole, and does the loop go on? | 240 000 states |
| lua | MC_LuaEngine | Does every fire and every expiry queue one call, are the calls begun in order and eventually, and is all memory given back? | 250 000 states |
| outputs | MC_Outputs | Does every pyro channel go off again, do beeps never overlap, and do servos keep to their limits? | 540 000 states |
| startup | MC_Startup | Do log numbers stay fresh and the configuration whole over starts that are broken off anywhere? | 1 870 000 states |
| pre_buffer | MC_PreBuffer | violated: the 100th entry of the pre-buffer lies behind the array | |
| unsubmitted | MC_Unsubmitted | violated: a refused data block is neither queued nor freed | |
| file_overriden | MC_FileOverriden | violated: an existing file is not truncated | |
| events_lost | MC_EventsLost | violated: a flight without failures ends with a closed log that lacks its first events | |
| lua_event_lost | MC_LuaEventLost | violated: the item of an event callback is refused with memory to spare | |

Bounds, and why they are enough:

* *flight_history*: samples take a value on either side of each threshold and on
  it, so each comparison of the code has both outcomes and its boundary. The time
  steps 10, 40 and 480 ms reach 50 and 1000 ms exactly, overshoot and undershoot
  them. `OffsetSamples` = 3 replaces 100: only the last offset sample
  matters. `MaxIgnitions` = 3 stops the model one ignition after that bound: the
  first, second and later ignitions are what the code distinguishes. The `VIEW`
  identifies states that differ in absolute time only (ages are capped at the
  hold times they are compared with).
* *datalogger*: three blocks are an item with its data and one more, so a block
  is reused while another is in use, and allocation fails after none, one and two
  blocks. Four calls, one failing file system call, one power loss. (The same
  properties hold with five calls, 1.4 million states.)
* *rocket_logging*: seven samples are the shortest flight and one sample more;
  longer burns and re-ignitions cut the flight short instead. One start-up
  sample; one failure, which may be a refused allocation or any call of the file
  system, `fs_close` among them (the constraint `OneFailure`; two of
  them are left out, 5 million states and more). `PreBufferSize` plays no role for the
  properties of this run; pre_buffer has the code's 100 and 100. events_lost
  has no failure at all.
* *daq*: three sensors, a first, a last and one between. There is no other
  bound: the state space is finite.
* *lua*: one event that fires twice, before or after its registration; two timers and
  one callback reference, so that a number is within the timers and outside the
  references; the numbers 257 and -255 are timer 1 after their conversion to 8 bits.
  Six blocks hold two expiries and two fires, or the script and what it missed. Two
  callbacks per event (the first registers, the second does not); timers are not
  bounded. (Two events that fire once and five blocks hold as well, 990 000
  states.) lua_event_lost needs less: one callback, four blocks.
* *outputs*: two channels and the beeper on the work queue, one servo; the angle 200
  is above 180, 256 is 0 and -1 is 255 after the conversion; one colour word with a
  top byte. Nothing else bounds the model.
* *startup*: a key with a default value that is there, one that is missing, and a key
  without a default; two files, the log and a dump, so that one leaked file is
  in the way; logs numbered 1 to 3, with any subset of them there at first.

Deadlock is checked for daq and startup. The models of flight_history,
datalogger and rocket_logging stop at a bound (calls, samples, ignitions), those
of lua and outputs at a fault, so it is not checked there.

Fairness of the Lua thread: weak, because every thread above it waits
again and again and scripts are assumed to end (the engine has no limit for a
script that does not). `CallsServed` must hold although timers go on expiring:
nothing is assumed about them or the script. In Outputs the delays end, the work
queue goes on, being cooperative, and a `pyros_fire` that has begun goes on;
`PyroGoesOff` excepts a failing pin and a fault. Startup has safety properties
only.

Fairness of the logging: the datalogger thread gets weak fairness in Datalogger. Every thread
of a higher priority waits once per sample and the Lua and shell threads wait for
work, so the worker runs again and again. In RocketLogging the main thread has
weak fairness (a sample every 10 ms) and worker and work queue strong fairness:
they are enabled only between two iterations of the main loop, which happens
infinitely often. Nothing is assumed about calls succeeding. In Daq the
running thread goes on, and a timer, a bus transfer and the start-up end: weak
fairness for each. The first is what a processor does, the others the promises
of the kernel and the drivers; a transfer that never ends would stop the main
loop. `SamplingGoesOn` excepts one case the code does have: a missing device ends
the sampling thread without telling anybody, and the main thread waits in
`daq_sync` for good.

## 4. The proofs

TLAPS checks every theorem for all values of the constants.

* `FlightHistory_proof`, first FlightState: the type invariant, `CountersAgree`, and
  the refinement of `MissionEvents`. The refinement needs an invariant that ties the
  last event to the state of the machine (and of the signal processing in STARTUP).
  Then MissionEvents itself: `EventOrderCorrect` and `EventBurnsCorrect` say that
  its `MissionOrder` and `BurnsAlternate` hold of the abstract specification. The first
  is not inductive, because the guard of an action looks at the last event only; the
  strengthening says that the stage of every event is at most the stage of the
  last, and that once-only events before it have a smaller stage. The state
  machine inherits both through the refinement (`FlightOrderCorrect`, whose
  `MissionOrder` is the conjunction of the two), without being looked at again.
  Last the hold times: `LiftoffHeld`, `ReignitionHeld`, `TouchdownHeld`. The
  inductive invariant relates a detector with its history variable: if
  `last_state` is set, the history is not broken and its first sample is not
  later than the stored edge. For the ignition detector this holds through
  burns only when the height detector did not decide the liftoff, which is the
  exception in `ReignitionHeld`.

* `Daq_proof`: all safety properties of Daq. The inductive invariant has four parts
  beside the types. `Sched`: a thread that waits, is ready or runs is at a place
  where it can do so, and is in the queue at most once. `Owners`: only the running
  thread holds a mutex, and only between lock and unlock. `Order`: while the main
  thread is served with a sample, the sampling thread is on its way to its wait,
  waits, or stands behind it in the queue of ready threads; this is the argument
  that makes the hand-over safe, and it rests on the threads being cooperative and
  of the same priority. `Whole`: the buffers hold the round announced. Lemmas on queues and one
  per call of the kernel carry the parts through the actions.

* `Outputs_proof`: all safety properties of Outputs, for any number of channels and
  servos. Lemmas on the work queue say what each of its calls does to the set of
  pending items, provided no item is pending twice (`PendingOnce`, the part of
  the invariant the properties do not show: without it an item that was handled
  might still be queued). With them `SwitchOffPending` and `BeepLockOwned`
  are arguments about sets. The beeper needs `BeepSteps` besides: a pending
  beep has one or two steps left, and a beep that is about to be submitted is
  not pending, so initialising its item forgets nothing.
* `Startup_proof`: `ConfigNeverTorn`, which only needs to know who writes the file,
  and `StartKeepsValues`, which needs `Loaded`: from the load to the end of the save
  memory holds at least the values of the file, and no dump is under way before
  the save. `ConfigTypeCorrect` bounds the files left open by the handles there are.
  `FreshLog` and the rest of the types need `Counted`: while the directory is read, the
  maximum found bounds the logs whose entries were read. So nothing is
  assumed about the order of the entries, nor about which logs are there, and
  no induction over the directory is needed: the loop of `get_log_count` is one of
  steps of the model, and the invariant is its loop invariant.
* `LogJob_proof`: lemmas on the steps of one request. They preserve an invariant
  that implies `WholeChunks` and `MetadataDurable`. Neither is inductive:
  `ChunksContinue` adds that the element written last is continued by what is left
  of the request in work, or counts as a torn chunk. `WholeChunks` bounds the number
  of torn chunks by that of the failed calls: a step that tears a chunk is one that
  fails, and adds one place to a finite set. `MetadataSynced` adds that only the
  request that is about to sync its own metadata may owe a sync.
* `Datalogger_proof`: all safety properties of Datalogger and the refinement of
  LogService. `OneOwner` needs besides that an item points to a data block exactly if
  it is of a data chunk, and never to itself (`ItemOK`), for the queued items and
  for the thread's. Two lemmas carry most of the proof: a call either
  appends one item with at most one data block nobody else owns (`Accepted`), or
  leaves the blocks of the queue and the thread alone (`NotQueued`). Since nobody
  writes to an owned block, the requests the queued items stand for never change;
  that is the refinement. That a log that is opened was named by somebody
  is part of the type invariant: otherwise the worker would open no file.

* `RocketLogging_proof`: all safety properties of RocketLogging (`HeaderFirst`,
  `EventsInOrder`, `ClosedLogComplete`, `ClosedLogFinal`), for any number of samples,
  refused allocations, failing calls and names. The main thread, the queue and the
  thread of the datalogger are one pipeline, and none of the properties is
  inductive, for each speaks of its last end only. `PipeOn` describes it as a whole:
  a log is at a place (before it is opened, in its header after 0 to 4 requests, in its
  data, closed) with a number of events passed. The thread has it at one place
  (`WorkerAt`: what the file then holds), the main thread at another (`MainAt`:
  what is left of the calls of this iteration), and the requests in the queue lead from
  the first to the second, each by a step the order of the log allows (`Chain`). A
  call extends the chain at its end, taking an item shortens it in front, and a
  write moves the place of the thread. `PipeOn` holds until the first
  failure (`PipeInv`); `LogInv`, which holds in any case, has the types, the forms of `todo`,
  and the facts about the trace that are needed (pad_ready is the fourth event,
  a touchdown the last). `CloseOnTheWay` adds that a log whose close was submitted is
  closed or has the request still in the queue. `ClosedLogFinal` follows because a
  closed log has only samples behind it, and a sample without an open file writes
  nothing. `UsesLogService`, a theorem no run repeats, shows that the composition
  stays within LogService. It needs `LogInv` for the path: the log is opened by a
  callback registered long before main sets its name, and only the order of the
  calls ensures that it is set by then. `WholeChunks` and `MetadataDurable`, which the run of Datalogger checks,
  hold in a flight as well, by the lemmas of LogJob_proof.
* `LuaEngine_proof`: all safety properties of LuaEngine and the refinement of LuaCalls,
  for any events, timers, numbers a script passes and size of the heap. The
  invariant adds three facts to the types and `HeapConserved`, in which the blocks
  are counted by the positions of the queue that hold an item with data. `Asleep`:
  before main has queued the script nothing is queued, armed or registered.
  `FileFirst`: so the script is at the head of the queue and before any job, or
  nowhere, which is why the leaked name is counted once. `ListedOnce`: the list of an
  event has the library at most once, so that a fire queues one item if the library
  is registered and none if not. With these every step that shows a fire, an expiry
  or the boot is the one of LuaCalls that owes the call, or the program faults in it;
  a step of the thread begins the head of the queue, ends it, or is not seen.

The assumptions are those of the modules: at least one offset sample, positive
time steps, integer samples, at least one sensor, colour words of four bytes, integer angles,
default values among the keys, a work queue that is shared by the channels and
the beeper only, payloads that include the numbers of the calls (in RocketLogging
the events, the tracks and the samples), no block with the address NULL, at most
256 timers, numbers of logs that are an int and not the greatest one.

Every invariant, action property and refinement that a passing run checks is also a
theorem. Model-checked only are the five liveness properties (`HeapDrains`,
`TouchdownCloses`, `SamplingGoesOn`, `CallsServed`, `PyroGoesOff`): liveness
under fairness is out of the prover's reach and stays with TLC. Induction over data
is out of its reach as well; no property needs it any more, because what is counted
in a queue or a file is a cardinality, for which there are lemmas, and the one loop
over data is a loop of steps.

## 5. What the checks found

Five statements of the repository's comments are refuted by the code; each is a
run that must end in a violation, with the lines under `findings` in
`PROJECT.json`: the pre-buffer is written one entry behind its end at every
start; a data buffer whose submission fails is never released; an existing log is not overridden but overwritten in
place; not every event is logged, but only those from `pad_ready` on; the callback
of an event is not executed when a field that was never set happens to be 0.

A consequence of the detectors that a test would hardly reach is part of a
property instead: when the height decides the liftoff, the acceleration
detector stays armed and the second ignition may be declared from one sample.

Three more facts come out of the models without a run of their own: entries go on
being queued after the touchdown, because nothing clears `log_active`, and fail one
by one at the closed file (`ClosedLogFinal` is that they reach none); an event whose
registration found no memory is never registered again, since only the first
callback tries; and timers above `CONFIG_EVENT_TIMERS_NUMBER` can be started, for
`eventtimer.c` has 16 of them whatever is configured.

Where a property has an exception, the exception is what the code does, and a
reader should know of it: an `fs_close` that fails leaves the log open for good
(`TouchdownCloses`), as does a request the heap refuses; an item whose second
allocation fails is lost (`OneOwner`, `HeapDrains`); a sensor whose fetch fails
shows its old value in a new sample (`SampleWhole`); a read error while counting the logs gives the next log
the number of an existing one (`FreshLog`); a configuration that cannot be
parsed for lack of memory is overwritten by the defaults (`StartKeepsValues`); a write
that is cut short leaves a configuration that cannot be read (`ConfigNeverTorn`); a PWM call
that fails leaves the beeper on (`SilentWhenFree`), a pin that fails leaves a
channel on (`SwitchOffPending`); firing a channel that was not initialised, or
setting a servo that was not, ends the program.

## 6. Not modelled

* Floating point: filters, atmosphere, attitude, `numeric.c` (comparisons
  without a caller), the fade of the LED (without a caller). `signal_processing`
  is modelled without its filters: their outputs are arbitrary.
* `signals.c`, `generic.c` and their Lua library: single 32-bit variables, read by
  one load each.
* The Lua interpreter, cJSON, drivers and Zephyr: external, modelled as far as the
  code uses them. A failing allocation of the interpreter is a script that ends.
* The unbuilt PIL interface, the simulator and design scripts, the USB start.
* Functions nobody calls; `PROJECT.json` names them with their component.
* Sizes and fragmentation of the heap are abstracted to "an allocation may fail"
  (datalogger: while another block is allocated). Wear and capacity of the flash
  are not modelled; a full flash is a failing write.
* The thread of the beeper spins during the flight without a sleep and starves
  what has a lower priority, the deferred log messages; those are not modelled.

## 7. Plan

1. (done) EdgeDetector, MissionEvents, FlightState, FlightHistory with proofs.
2. (done) LogJob, LogService, Datalogger with proofs, RocketLogging.
3. (done) Daq with proofs.
4. (done) LuaEngine and its refinement of LuaCalls.
5. (done) WorkQueue, Pyros, Beeper, Servos, Led, Outputs with proofs.
6. (done) ConfigStore, LogStore, Startup with proofs.
7. (done) RocketLogging, LuaEngine and the log numbers of Startup with proofs.
8. Open: properties of the abstract specifications LogService and LuaCalls that
   the detailed modules could inherit, as FlightState does those of MissionEvents; an
   invariant of RocketLogging that bounds the data blocks lost to refused
   allocations (`orphans`); the filters and the signals, which are not modelled yet.
