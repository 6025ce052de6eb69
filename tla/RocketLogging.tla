----------------------------- MODULE RocketLogging -----------------------------
(***************************************************************************)
(* The flight log: rocket/data_logging.c between the main loop of main.c,  *)
(* the mission events and the datalogger.  The order of the events is the  *)
(* one of MissionEvents and the datalogger is LogService; FlightState and  *)
(* Datalogger implement them.                                              *)
(*                                                                         *)
(* The main thread and the system work queue are cooperative: between two  *)
(* waits for a sample the main thread makes all its calls before anybody   *)
(* else runs.  todo holds the calls it still has to make; the datalogger   *)
(* thread and the work queue run while it is empty.                        *)
(***************************************************************************)
EXTENDS LogJob

CONSTANTS
  OffsetSamples,  \* samples of the start-up; offset_samples, 100
  PreBufferSize,  \* entries of pre_buffer, 100
  MaxSamples,     \* bound: samples of a flight
  MaxRefusals     \* bound: allocations that fail

ASSUME RocketLoggingAssumption ==
  /\ OffsetSamples \in Nat \ {0}
  /\ PreBufferSize \in Nat \ {0}
  /\ MaxSamples \in Nat
  /\ MaxRefusals \in Nat

VARIABLES
  queue,            \* the queue of the datalogger
  trace,            \* the events fired so far
  stage,            \* where the main thread is: "boot", "name", "sync",
                    \*   "flight", "log"
  samples,          \* samples processed
  todo,             \* calls the main thread makes before it waits again
  log_name,
  log_active,
  pre_buffer_head,  \* index of the entry handed out last
  stored,           \* indices of pre_buffer written
  close_work,       \* the delayed work of touchdown: "idle", "scheduled", "done"
  orphans,          \* data buffers allocated, not queued and not freed
  refusals

mainVars == <<trace, stage, samples>>
logVars == <<log_name, log_active, pre_buffer_head, stored, close_work, orphans>>
vars == <<queue, mainVars, todo, logVars, refusals, jobVars>>

M == INSTANCE MissionEvents
S == INSTANCE LogService

ASSUME PayloadAssumption == M!Events \cup {"track0", "track1", "sample"} \subseteq Payloads

Op(op, arg) == [op |-> op, arg |-> arg]

Init ==
  /\ S!Init /\ M!Init
  /\ stage = "boot" /\ samples = 0 /\ todo = <<>>
  /\ log_name = NoPath /\ log_active = FALSE
  /\ pre_buffer_head = 0 /\ stored = {}
  /\ close_work = "idle" /\ orphans = 0 /\ refusals = 0

\* The main thread waits: the other threads may run.
Waiting == todo = <<>> /\ stage \in {"boot", "sync"}
--------------------------------------------------------------------------------
(* The main loop fires the events; each fires the callbacks registered by  *)
(* init of data_logging.c, in the order they were registered.              *)

\* Mutants of StartLog: the log is opened last; the second track gets a wrong id.
StartLogOpenLast == <<Op("format", "track0"), Op("names", "track0"), Op("format", "track1"),
                      Op("names", "track1"), Op("open", "log"), Op("activate", "log")>>

StartLogThirdTrack == <<Op("open", "log"), Op("format", "track0"), Op("names", "track0"),
                        Op("format", "track2"), Op("names", "track2"), Op("activate", "log")>>

\* callback_pad_idle, registered for event_pad_ready.
StartLog == <<Op("open", "log"), Op("format", "track0"), Op("names", "track0"),
              Op("format", "track1"), Op("names", "track1"), Op("activate", "log")>>

\* Mutant of Callbacks: the event is logged before the log is opened.
CallbacksEventFirst(e) ==
  CASE e = "pad_ready" -> <<Op("event", e)>> \o StartLog
    [] e = "touchdown" -> <<Op("schedule_close", e), Op("event", e)>>
    [] OTHER -> <<Op("event", e)>>

Callbacks(e) ==
  CASE e = "pad_ready" -> StartLog \o <<Op("event", e)>>
    [] e = "touchdown" -> <<Op("schedule_close", e), Op("event", e)>>
    [] OTHER -> <<Op("event", e)>>

\* event2_fire of the events the step appends to the trace.
CallbacksFired(new) ==
  IF Len(new) = Len(trace) THEN <<>>
  ELSE IF Len(new) = Len(trace) + 1 THEN Callbacks(M!Last(new))
  ELSE Callbacks("ignition") \o Callbacks("liftoff")

\* main fires event_boot, then names the log.
Boot ==
  /\ stage = "boot" /\ todo = <<>>
  /\ M!Boot
  /\ todo' = CallbacksFired(trace')
  /\ stage' = "name"
  /\ UNCHANGED <<queue, samples, logVars, refusals, jobVars>>

rocket_data_logging_set_name ==
  /\ stage = "name" /\ todo = <<>>
  /\ log_name' \in Paths
  /\ stage' = "sync"
  /\ UNCHANGED <<queue, trace, samples, todo, log_active, pre_buffer_head, stored,
                 close_work, orphans, refusals, jobVars>>

\* signal_processing_main: the start-up ends with the last offset sample.
Sample ==
  /\ stage = "sync" /\ todo = <<>> /\ samples < MaxSamples
  /\ samples' = samples + 1
  /\ IF samples + 1 = OffsetSamples THEN M!ProcessingReady ELSE UNCHANGED trace
  /\ todo' = CallbacksFired(trace')
  /\ stage' = "flight"
  /\ UNCHANGED <<queue, logVars, refusals, jobVars>>

\* flightstate_update: on the pad the machine moves on by itself, in flight the
\* samples decide.
FlightstateUpdate ==
  /\ stage = "flight" /\ todo = <<>>
  /\ CASE M!Last(trace) = "processing_ready" -> M!PadIdle
       [] M!Last(trace) = "pad_idle" -> M!PadReady
       [] M!Last(trace) \in {"boot", "touchdown"} -> UNCHANGED trace
       [] OTHER -> UNCHANGED trace \/ M!Liftoff \/ M!Burnout \/ M!Reignition
                     \/ M!Apogee \/ M!Touchdown
  /\ todo' = CallbacksFired(trace')
  /\ stage' = "log"
  /\ UNCHANGED <<queue, samples, logVars, refusals, jobVars>>

\* rocket_data_logging.
RocketDataLogging ==
  /\ stage = "log" /\ todo = <<>>
  /\ todo' = <<IF log_active THEN Op("entry", "sample") ELSE Op("pre_buffer", "sample")>>
  /\ stage' = "sync"
  /\ UNCHANGED <<queue, trace, samples, logVars, refusals, jobVars>>
--------------------------------------------------------------------------------
(* The calls, in the order of todo. *)

NextOp(op) == todo # <<>> /\ Head(todo).op = op
Arg == Head(todo).arg

\* An allocation of the datalogger fails.
Refused == refusals < MaxRefusals /\ refusals' = refusals + 1

\* dl_open_log; its result is ignored.
OpenLogCall ==
  /\ NextOp("open")
  /\ \/ /\ queue' = Append(queue, [cmd |-> "OPEN_LOG", arg |-> NoPayload])
        /\ current_path' = log_name
        /\ UNCHANGED refusals
     \/ Refused /\ UNCHANGED <<queue, current_path>>
  /\ todo' = Tail(todo)
  /\ UNCHANGED <<mainVars, logVars, fileVars, job, faults>>

\* dl_start_track: a refused format skips the names; both results are ignored.
FormatCall ==
  /\ NextOp("format")
  /\ \/ S!Submit([cmd |-> "LOG_TRACK_FORMAT", arg |-> Arg])
        /\ todo' = Tail(todo) /\ UNCHANGED refusals
     \/ Refused /\ todo' = Tail(Tail(todo)) /\ UNCHANGED <<queue, jobVars>>
  /\ UNCHANGED <<mainVars, logVars>>

NamesCall ==
  /\ NextOp("names")
  /\ \/ S!Submit([cmd |-> "LOG_TRACK_NAMES", arg |-> Arg]) /\ UNCHANGED refusals
     \/ Refused /\ UNCHANGED <<queue, jobVars>>
  /\ todo' = Tail(todo)
  /\ UNCHANGED <<mainVars, logVars>>

Activate ==
  /\ NextOp("activate")
  /\ log_active' = TRUE
  /\ todo' = Tail(todo)
  /\ UNCHANGED <<queue, mainVars, log_name, pre_buffer_head, stored, close_work,
                 orphans, refusals, jobVars>>

\* dl_alloc_track_data_buffer and dl_add_track_data, in callback_event_change
\* and rocket_data_logging: the result of the second is ignored.
TrackData ==
  /\ NextOp("event") \/ NextOp("entry")
  /\ \/ S!Submit([cmd |-> "LOG_TRACK_DATA", arg |-> Arg]) /\ UNCHANGED <<orphans, refusals>>
     \/ Refused /\ UNCHANGED <<queue, jobVars>> /\ orphans' \in {orphans, orphans + 1}
  /\ todo' = Tail(todo)
  /\ UNCHANGED <<mainVars, log_name, log_active, pre_buffer_head, stored, close_work>>

\* pre_buffer_get_next and the entry it is for.
PreBuffer ==
  /\ NextOp("pre_buffer")
  /\ LET next == IF pre_buffer_head >= PreBufferSize THEN 0 ELSE pre_buffer_head + 1 IN
       /\ stored' = stored \cup {next}
       /\ pre_buffer_head' = IF pre_buffer_head >= PreBufferSize
                             THEN pre_buffer_head ELSE next
  /\ todo' = Tail(todo)
  /\ UNCHANGED <<queue, mainVars, log_name, log_active, close_work, orphans,
                 refusals, jobVars>>

\* Mutant of ScheduleClose: the callback closes the log itself.
CloseAtOnce ==
  /\ NextOp("schedule_close")
  /\ close_work' = "done"
  /\ S!Submit([cmd |-> "CLOSE_LOG", arg |-> NoPayload])
  /\ todo' = Tail(todo)
  /\ UNCHANGED <<mainVars, log_name, log_active, pre_buffer_head, stored, orphans, refusals>>

\* callback_touchdown: stop_log in a second.
ScheduleClose ==
  /\ NextOp("schedule_close")
  /\ close_work' = "scheduled"
  /\ todo' = Tail(todo)
  /\ UNCHANGED <<queue, mainVars, log_name, log_active, pre_buffer_head, stored,
                 orphans, refusals, jobVars>>

Main == \/ Boot \/ rocket_data_logging_set_name \/ Sample \/ FlightstateUpdate
        \/ RocketDataLogging \/ OpenLogCall \/ FormatCall \/ NamesCall \/ Activate
        \/ TrackData \/ PreBuffer \/ ScheduleClose
--------------------------------------------------------------------------------
\* Mutant of StopLog: the request is forgotten.
StopLogForgets ==
  /\ Waiting /\ close_work = "scheduled"
  /\ close_work' = "done"
  /\ UNCHANGED <<queue, mainVars, todo, log_name, log_active, pre_buffer_head, stored,
                 orphans, refusals, jobVars>>

\* stop_log on the system work queue: one attempt, result ignored.
StopLog ==
  /\ Waiting /\ close_work = "scheduled"
  /\ close_work' = "done"
  /\ \/ S!Submit([cmd |-> "CLOSE_LOG", arg |-> NoPayload]) /\ UNCHANGED refusals
     \/ Refused /\ UNCHANGED <<queue, jobVars>>
  /\ UNCHANGED <<mainVars, todo, log_name, log_active, pre_buffer_head, stored, orphans>>

\* A step of the datalogger thread.
Consume ==
  /\ Waiting
  /\ S!Start \/ S!Work
  /\ UNCHANGED <<mainVars, todo, logVars, refusals>>

Next == Main \/ StopLog \/ Consume

Spec == Init /\ [][Next]_vars

\* The main thread goes on with every sample; the other two can run only while
\* it waits, which it does again and again.
FairSpec == Spec /\ WF_vars(Main) /\ SF_vars(StopLog) /\ SF_vars(Consume)
--------------------------------------------------------------------------------
(* Properties *)

\* The variables keep their types.
TypeOK ==
  /\ JobTypeOK
  /\ queue \in Seq(Request)
  /\ trace \in Seq(M!Events)
  /\ stage \in {"boot", "name", "sync", "flight", "log"}
  /\ samples \in 0..MaxSamples
  /\ log_name \in Paths \cup {NoPath}
  /\ log_active \in BOOLEAN
  /\ pre_buffer_head \in Nat
  /\ stored \subseteq Nat
  /\ close_work \in {"idle", "scheduled", "done"}
  /\ orphans \in 0..MaxRefusals
  /\ refusals \in 0..MaxRefusals

NoFailure == refusals = 0 /\ faults = 0

\* What the log file holds right now.
File == IF fd # NoPath THEN image
        ELSE IF log_name # NoPath THEN durable[log_name] ELSE <<>>

Body(cmd, arg) == [part |-> "body", cmd |-> cmd, arg |-> arg]
Head2(cmd, arg) == [part |-> "head", cmd |-> cmd, arg |-> arg]
HeaderOf(track) ==
  <<Head2("LOG_TRACK_FORMAT", track), Body("LOG_TRACK_FORMAT", track),
    Head2("LOG_TRACK_NAMES", track), Body("LOG_TRACK_NAMES", track)>>
Header == HeaderOf("track0") \o HeaderOf("track1")

\* A reader can decode the log: the file starts with the format and the names
\* of both tracks, before any data.
HeaderFirst ==
  NoFailure => \A i \in 1..Len(File) : i <= Len(Header) => File[i] = Header[i]

\* The body of a data chunk that holds an event.
IsEvent(e) == e.part = "body" /\ e.cmd = "LOG_TRACK_DATA" /\ e.arg # "sample"

\* The number of events among the first n elements of a file.
EventCount(file, n) == Cardinality({i \in 1..n : IsEvent(file[i])})

\* The events from pad_ready on.  callback_event_change logs the three before it,
\* too, but while no file is open: their chunks are lost.
LoggableEvents == IF Len(trace) < 4 THEN <<>> ELSE SubSeq(trace, 4, Len(trace))

\* The k-th event in the file is the k-th of the events from pad_ready on.
TellsFlight(file) ==
  \A i \in 1..Len(file) : IsEvent(file[i]) =>
     /\ EventCount(file, i) <= Len(LoggableEvents)
     /\ file[i].arg = LoggableEvents[EventCount(file, i)]

\* The file tells the story of the flight: the events it holds are the first
\* ones of the flight, from pad_ready on, in the order they fired.
EventsInOrder == NoFailure => TellsFlight(File)

\* stop_log has run, and the thread is past its request to close.
LogClosed ==
  /\ close_work = "done"
  /\ ~(job.busy /\ job.req.cmd = "CLOSE_LOG")
  /\ \A i \in DOMAIN queue : queue[i].cmd # "CLOSE_LOG"

\* The closed log is complete: after the touchdown has closed the file, it
\* durably holds every event from pad_ready on, the touchdown included.
ClosedLogComplete ==
  NoFailure /\ LogClosed =>
    /\ fd = NoPath
    /\ TellsFlight(durable[log_name])
    /\ EventCount(durable[log_name], Len(durable[log_name])) = Len(LoggableEvents)

\* A closed log stays as it is: the entries rocket_data_logging still queues
\* after the touchdown, log_active being TRUE for good, do not reach a file.
ClosedLogFinal ==
  [][LogClosed /\ NoFailure => UNCHANGED <<fd, image, durable>>]_vars

\* The flight uses the datalogger as LogService allows: whatever the three threads
\* do, each step of theirs is a step of the service, and in particular a log is
\* opened only once it has a name.
LogServiceUsed == S!Spec

\* A touchdown closes the log, or at least the one attempt to close it is made and
\* done with: the file stays open only if the heap refused a request, or if
\* close_log has run and a call of the file system has failed.
TouchdownCloses ==
  (close_work # "idle") ~>
    (LogClosed /\ (fd = NoPath \/ refusals > 0 \/ (faults > 0 /\ ~log_open)))

\* data_logging.c declares pre_buffer[100] and fills it while not in flight: the
\* entries filled are entries of the array.
PreBufferInBounds == stored \subseteq 0..(PreBufferSize - 1)

\* datalogger.h: "If not submitted, the memory must be released": no data block
\* the datalogger refused is forgotten by its caller.
UnsubmittedReleased == orphans = 0

\* data_logging.c: "log every event change": the closed log holds every event that
\* was fired in the flight.
EveryEventLogged ==
  NoFailure /\ LogClosed =>
    EventCount(durable[log_name], Len(durable[log_name])) = Len(trace)
================================================================================
