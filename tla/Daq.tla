---------------------------------- MODULE Daq ----------------------------------
(***************************************************************************)
(* The data acquisition (daq_sensor.c): a timer interrupt submits a work   *)
(* item; the item, on the system work queue, triggers the sampling thread; *)
(* the sampling thread reads the sensors and announces the sample; the     *)
(* main thread waits for the announcement in daq_sync and copies it.       *)
(*                                                                         *)
(* The three threads are cooperative and have the same priority: a thread  *)
(* runs until it waits, and those that are ready run in the order they     *)
(* became ready.  An action is what a thread does between two calls of the *)
(* kernel; interrupts happen between any two actions.                      *)
(***************************************************************************)
EXTENDS Integers, Sequences

CONSTANT Sensors  \* number of entries of sensor_thread_data

ASSUME DaqAssumption == Sensors \in Nat \ {0}

VARIABLES
  ready,         \* the threads ready to run; the first one runs
  pc,            \* per thread, where it is
  owner,         \* per mutex, the thread that holds it
  timer,         \* sample_timer: "oneshot", "periodic", "stopped"
  new_interval,  \* new_sample_interval is set
  pending,       \* the work item is queued
  round,         \* colour of the samples being fetched
  sensor,        \* index of the sensor being fetched
  data,          \* press, acc, gyro: per sensor, the colour of what is stored
  stale,         \* sensors whose last fetch failed
  announced,     \* colour of the last sample announced
  fresh,         \* the main thread has not yet copied that sample
  sample         \* copy of data the main thread works on

threadVars == <<ready, pc, owner>>
timerVars == <<timer, new_interval, pending>>
dataVars == <<round, sensor, data, stale, announced, fresh, sample>>
vars == <<threadVars, timerVars, dataVars>>

Threads == {"main", "daq_sensor", "sysworkq"}
Mutexes == {"condvar_lock", "new_sample_lock"}

\* A sample has the colour of its round; three tell old from new.  Blank is the
\* colour of a value that was never fetched.
Colours == 0..2
Blank == 3

NoSample == [s \in 1..Sensors |-> Blank]

\* start of daq_sensor.c, called with a new interval set; main goes on with the
\* rest of its start-up.
Init ==
  /\ ready = <<"daq_sensor">>
  /\ pc = [main |-> "startup", daq_sensor |-> "start", sysworkq |-> "idle"]
  /\ owner = [m \in Mutexes |-> "none"]
  /\ timer = "oneshot" /\ new_interval = TRUE /\ pending = FALSE
  /\ round = 0 /\ sensor = 1 /\ data = NoSample /\ stale = {}
  /\ announced = 0 /\ fresh = FALSE /\ sample = NoSample
--------------------------------------------------------------------------------
(* The kernel *)

Runs(t, l) == ready # <<>> /\ Head(ready) = t /\ pc[t] = l

\* The running thread goes on at l.
Goto(t, l) == pc' = [pc EXCEPT ![t] = l] /\ UNCHANGED ready

\* Thread t, at l, waits; it goes on at next when it is woken.
WaitAt(t, l) == pc' = [pc EXCEPT ![t] = l] /\ ready' = Tail(ready)

\* An interrupt wakes thread t.
Wake(t, l) == pc' = [pc EXCEPT ![t] = l] /\ ready' = Append(ready, t)

\* k_mutex_lock.  That the mutex is free is a property, LocksFree: neither the
\* waits nor the errors of the code ever happen.
Lock(t, m, next) == owner' = [owner EXCEPT ![m] = t] /\ Goto(t, next)

Unlock(t, m, next) == owner' = [owner EXCEPT ![m] = "none"] /\ Goto(t, next)

\* k_condvar_wait up to the wait, and the lock after it.
CondvarWait(t, m, l) == owner' = [owner EXCEPT ![m] = "none"] /\ WaitAt(t, l)

\* k_condvar_broadcast by t: the waiter, if it waits, becomes ready.
Broadcast(t, next, waiter) ==
  IF pc[waiter] = "waiting"
  THEN /\ pc' = [pc EXCEPT ![t] = next, ![waiter] = "relock"]
       /\ ready' = Append(ready, waiter)
  ELSE Goto(t, next)
--------------------------------------------------------------------------------
(* The sample timer and the work item *)

\* Mutant of Tick: a new interval is stored, but the timer is not restarted.
TickOnce ==
  /\ timer # "stopped"
  /\ pending' = TRUE
  /\ IF pc["sysworkq"] = "idle" THEN Wake("sysworkq", "work") ELSE UNCHANGED <<ready, pc>>
  /\ timer' = IF timer = "oneshot" THEN "stopped" ELSE timer
  /\ new_interval' = FALSE
  /\ UNCHANGED <<owner, dataVars>>

\* sample_timer_callback: the interval replaces the one-shot of start.
Tick ==
  /\ timer # "stopped"
  /\ pending' = TRUE
  /\ IF pc["sysworkq"] = "idle" THEN Wake("sysworkq", "work") ELSE UNCHANGED <<ready, pc>>
  /\ timer' = IF new_interval THEN "periodic"
              ELSE IF timer = "oneshot" THEN "stopped" ELSE timer
  /\ new_interval' = FALSE
  /\ UNCHANGED <<owner, dataVars>>

\* sample_start: a trigger is lost when the sampling thread is not waiting.
SampleStartLock ==
  /\ Runs("sysworkq", "work") /\ pending
  /\ pending' = FALSE
  /\ Lock("sysworkq", "condvar_lock", "broadcast")
  /\ UNCHANGED <<timer, new_interval, dataVars>>

SampleStartBroadcast ==
  /\ Runs("sysworkq", "broadcast")
  /\ Broadcast("sysworkq", "unlock", "daq_sensor")
  /\ UNCHANGED <<owner, timerVars, dataVars>>

\* The work queue yields after every item.
SampleStartUnlock ==
  /\ Runs("sysworkq", "unlock")
  /\ owner' = [owner EXCEPT !["condvar_lock"] = "none"]
  /\ pc' = [pc EXCEPT !["sysworkq"] = "work"]
  /\ ready' = Append(Tail(ready), "sysworkq")
  /\ UNCHANGED <<timerVars, dataVars>>

WorkqueueIdle ==
  /\ Runs("sysworkq", "work") /\ ~pending
  /\ WaitAt("sysworkq", "idle")
  /\ UNCHANGED <<owner, timerVars, dataVars>>

Trigger == \/ SampleStartLock \/ SampleStartBroadcast \/ SampleStartUnlock
           \/ WorkqueueIdle
--------------------------------------------------------------------------------
(* multi_sensor_sample_thread *)

\* All devices are there and ready, or the thread ends, for good and unnoticed.
CheckDevices ==
  /\ Runs("daq_sensor", "start")
  /\ Goto("daq_sensor", "lock") \/ WaitAt("daq_sensor", "aborted")
  /\ UNCHANGED <<owner, timerVars, dataVars>>

TriggerLock ==
  /\ Runs("daq_sensor", "lock")
  /\ Lock("daq_sensor", "condvar_lock", "wait")
  /\ UNCHANGED <<timerVars, dataVars>>

TriggerWait ==
  /\ Runs("daq_sensor", "wait")
  /\ CondvarWait("daq_sensor", "condvar_lock", "waiting")
  /\ UNCHANGED <<timerVars, dataVars>>

TriggerRelock ==
  /\ Runs("daq_sensor", "relock")
  /\ Lock("daq_sensor", "condvar_lock", "unlock")
  /\ UNCHANGED <<timerVars, dataVars>>

\* Mutant of TriggerUnlock: the sensors are read before the mutex is released.
TriggerKeepLock ==
  /\ Runs("daq_sensor", "unlock")
  /\ Goto("daq_sensor", "fetch")
  /\ round' = (round + 1) % 3 /\ sensor' = 1
  /\ UNCHANGED <<owner, timerVars, data, stale, announced, fresh, sample>>

TriggerUnlock ==
  /\ Runs("daq_sensor", "unlock")
  /\ Unlock("daq_sensor", "condvar_lock", "fetch")
  /\ round' = (round + 1) % 3 /\ sensor' = 1
  /\ UNCHANGED <<timerVars, data, stale, announced, fresh, sample>>

\* sensor_sample_fetch waits for the bus; the end of the transfer is an
\* interrupt.
FetchStart ==
  /\ Runs("daq_sensor", "fetch")
  /\ WaitAt("daq_sensor", "bus")
  /\ UNCHANGED <<owner, timerVars, dataVars>>

TransferDone ==
  /\ pc["daq_sensor"] = "bus"
  /\ Wake("daq_sensor", "get")
  /\ UNCHANGED <<owner, timerVars, dataVars>>

\* Mutant of ChannelGet: the loop ends one sensor early.
ChannelGetEarly ==
  /\ Runs("daq_sensor", "get")
  /\ data' = [data EXCEPT ![sensor] = round] /\ stale' = stale \ {sensor}
  /\ sensor' = IF sensor + 1 < Sensors THEN sensor + 1 ELSE sensor
  /\ Goto("daq_sensor", IF sensor + 1 < Sensors THEN "fetch" ELSE "announce_lock")
  /\ UNCHANGED <<owner, timerVars, round, announced, fresh, sample>>

\* Mutant of ChannelGet: the index runs past the last sensor.
ChannelGetPastEnd ==
  /\ Runs("daq_sensor", "get")
  /\ data' = [data EXCEPT ![sensor] = round] /\ stale' = stale \ {sensor}
  /\ sensor' = sensor + 1
  /\ Goto("daq_sensor", IF sensor < Sensors THEN "fetch" ELSE "announce_lock")
  /\ UNCHANGED <<owner, timerVars, round, announced, fresh, sample>>

\* sensor_channel_get: after a failing fetch, which nobody notices, it delivers
\* the values of the fetch before.
ChannelGet ==
  /\ Runs("daq_sensor", "get")
  /\ \/ data' = [data EXCEPT ![sensor] = round] /\ stale' = stale \ {sensor}
     \/ stale' = stale \cup {sensor} /\ UNCHANGED data
  /\ sensor' = IF sensor < Sensors THEN sensor + 1 ELSE sensor
  /\ Goto("daq_sensor", IF sensor < Sensors THEN "fetch" ELSE "announce_lock")
  /\ UNCHANGED <<owner, timerVars, round, announced, fresh, sample>>

AnnounceLock ==
  /\ Runs("daq_sensor", "announce_lock")
  /\ Lock("daq_sensor", "new_sample_lock", "announce")
  /\ UNCHANGED <<timerVars, dataVars>>

Announce ==
  /\ Runs("daq_sensor", "announce")
  /\ Broadcast("daq_sensor", "announce_unlock", "main")
  /\ announced' = round /\ fresh' = TRUE
  /\ UNCHANGED <<owner, timerVars, round, sensor, data, stale, sample>>

AnnounceUnlock ==
  /\ Runs("daq_sensor", "announce_unlock")
  /\ Unlock("daq_sensor", "new_sample_lock", "lock")
  /\ UNCHANGED <<timerVars, dataVars>>

Sampling == \/ CheckDevices \/ TriggerLock \/ TriggerWait \/ TriggerRelock \/ TriggerUnlock
            \/ FetchStart \/ ChannelGet
            \/ AnnounceLock \/ Announce \/ AnnounceUnlock
--------------------------------------------------------------------------------
(* The main thread: start-up, then sync, get_samples and the rest of the loop. *)

StartupDone ==
  /\ pc["main"] = "startup"
  /\ Wake("main", "lock")
  /\ UNCHANGED <<owner, timerVars, dataVars>>

\* Mutant of SyncLock: the mutex is locked, the announcement is not waited for.
SyncLockOnly ==
  /\ Runs("main", "lock")
  /\ Lock("main", "new_sample_lock", "unlock")
  /\ UNCHANGED <<timerVars, dataVars>>

SyncLock ==
  /\ Runs("main", "lock")
  /\ Lock("main", "new_sample_lock", "wait")
  /\ UNCHANGED <<timerVars, dataVars>>

SyncWait ==
  /\ Runs("main", "wait")
  /\ CondvarWait("main", "new_sample_lock", "waiting")
  /\ UNCHANGED <<timerVars, dataVars>>

SyncRelock ==
  /\ Runs("main", "relock")
  /\ Lock("main", "new_sample_lock", "unlock")
  /\ UNCHANGED <<timerVars, dataVars>>

SyncUnlock ==
  /\ Runs("main", "unlock")
  /\ Unlock("main", "new_sample_lock", "get")
  /\ UNCHANGED <<timerVars, dataVars>>

GetSamples ==
  /\ Runs("main", "get")
  /\ sample' = data /\ fresh' = FALSE
  /\ Goto("main", "process")
  /\ UNCHANGED <<owner, timerVars, round, sensor, data, stale, announced>>

\* Mutant of Process: the rest of the main loop waits for something else.
ProcessSleeps ==
  /\ Runs("main", "process")
  /\ WaitAt("main", "startup")
  /\ UNCHANGED <<owner, timerVars, dataVars>>

\* The rest of the main loop does not wait.
Process ==
  /\ Runs("main", "process")
  /\ Goto("main", "lock")
  /\ UNCHANGED <<owner, timerVars, dataVars>>

Main == SyncLock \/ SyncWait \/ SyncRelock \/ SyncUnlock \/ GetSamples \/ Process

Next == Tick \/ Trigger \/ Sampling \/ TransferDone \/ StartupDone \/ Main

Spec == Init /\ [][Next]_vars

\* A running thread goes on, timers expire, transfers end, the start-up ends.
FairSpec ==
  /\ Spec
  /\ WF_vars(Trigger \/ Sampling \/ Main)
  /\ WF_vars(Tick) /\ WF_vars(TransferDone) /\ WF_vars(StartupDone)
--------------------------------------------------------------------------------
(* Properties *)

\* The variables keep their types.
TypeOK ==
  /\ ready \in Seq(Threads)
  /\ pc \in [Threads -> {"startup", "start", "aborted", "idle", "work", "broadcast", "lock", "wait",
                         "waiting", "relock", "unlock", "fetch", "bus", "get",
                         "announce_lock", "announce", "announce_unlock", "process"}]
  /\ owner \in [Mutexes -> Threads \cup {"none"}]
  /\ timer \in {"oneshot", "periodic", "stopped"}
  /\ new_interval \in BOOLEAN /\ pending \in BOOLEAN
  /\ round \in Colours /\ sensor \in 1..Sensors
  /\ data \in [1..Sensors -> Colours \cup {Blank}] /\ stale \subseteq 1..Sensors
  /\ announced \in Colours /\ fresh \in BOOLEAN
  /\ sample \in [1..Sensors -> Colours \cup {Blank}]

\* A thread that is about to lock a mutex finds it free.  So the two try-locks
\* never fail: sample_start drops no trigger for it, and the sampling thread
\* never takes the branch that reports an overrun.
LocksFree ==
  LET Free(t, l, m) == Runs(t, l) => owner[m] = "none" IN
  /\ pending => Free("sysworkq", "work", "condvar_lock")
  /\ \A l \in {"lock", "relock"} : Free("daq_sensor", l, "condvar_lock")
                                   /\ Free("main", l, "new_sample_lock")
  /\ Free("daq_sensor", "announce_lock", "new_sample_lock")

\* The sample the main thread has copied is the one announced last, and whole:
\* no sensor is of another round, but one whose fetch failed.
SampleWhole ==
  pc["main"] = "process" =>
    /\ round = announced
    /\ \A s \in 1..Sensors \ stale : sample[s] = announced

\* The main thread works on a sample once: what it copies is new.
SampleOnce == pc["main"] = "get" => fresh

\* No sample is lost between the threads: once the main thread has copied its
\* first sample, every announcement finds it waiting.
AnnouncementHeard ==
  [][announced' # announced /\ sample # NoSample => pc["main"] = "waiting"]_vars

\* The main loop runs for ever: losing triggers cannot stop it, only a sampling
\* thread that found a device missing.
SamplingGoesOn == []<>(pc["main"] = "process") \/ <>(pc["daq_sensor"] = "aborted")
================================================================================
