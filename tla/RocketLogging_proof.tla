--------------------------- MODULE RocketLogging_proof ---------------------------
(***************************************************************************)
(* Proofs about the flight log, for any number of samples, of refused      *)
(* allocations and of failing file system calls, and for flights of any    *)
(* length.                                                                 *)
(*                                                                         *)
(* A log goes through seven places: 0 before it is opened, 1 to 4 while    *)
(* the k-th request of its header is awaited, 5 with the header complete,  *)
(* and 6 closed.  The argument follows the requests from the calls the     *)
(* main thread still has to make, through the queue and the job of the     *)
(* thread, into the file: every request of the queue moves the log from a  *)
(* place and a number of events on to the next.                            *)
(***************************************************************************)
EXTENDS RocketLogging, LogJob_proof, FiniteSetTheorems, SequenceTheorems

\* How far a log is: its place, and the events of the flight passed so far.
Place == [ev : Nat, at : 0..6]
At(n, k) == [ev |-> n, at |-> k]

Req(cmd, arg) == [cmd |-> cmd, arg |-> arg]
HeaderReq == <<Req("LOG_TRACK_FORMAT", "track0"), Req("LOG_TRACK_NAMES", "track0"),
               Req("LOG_TRACK_FORMAT", "track1"), Req("LOG_TRACK_NAMES", "track1")>>

IsEventReq(r) == r.cmd = "LOG_TRACK_DATA" /\ r.arg # "sample"
IsSampleReq(r) == r.cmd = "LOG_TRACK_DATA" /\ r.arg = "sample"

\* Request r takes a log of the flight tr from s to t.
Follows(tr, s, r, t) ==
  \/ /\ IsEventReq(r) /\ s.at \in {0, 5}
     /\ t = At(s.ev + 1, s.at)
     /\ t.ev <= Len(tr) /\ r.arg = tr[t.ev] /\ (s.at = 0 => t.ev <= 3)
  \/ IsSampleReq(r) /\ s.at \in {5, 6} /\ t = s
  \/ r.cmd = "OPEN_LOG" /\ s = At(3, 0) /\ t = At(3, 1)
  \/ \E k \in 1..4 : r = HeaderReq[k] /\ s = At(3, k) /\ t = At(3, k + 1)
  \/ r.cmd = "CLOSE_LOG" /\ s.at = 5 /\ t = At(s.ev, 6) /\ s.ev \in 4..Len(tr)
     /\ tr[s.ev] = "touchdown"

\* The requests of q, one after the other, take the log from s to t.
Chain(tr, q, s, t) ==
  \E p \in [0..Len(q) -> Place] :
     /\ p[0] = s /\ p[Len(q)] = t
     /\ \A i \in 1..Len(q) : Follows(tr, p[i - 1], q[i], p[i])

--------------------------------------------------------------------------------
(* The main thread *)

Event(e) == <<Op("event", e)>>
Samples == {<<Op("entry", "sample")>>, <<Op("pre_buffer", "sample")>>}
Liftoff == <<Op("event", "ignition"), Op("event", "liftoff")>>
Closing == <<Op("schedule_close", "touchdown"), Op("event", "touchdown")>>

\* What is left of the callbacks of pad_ready before each of the six calls that
\* start the log.
Starting ==
  << <<Op("open", "log"), Op("format", "track0"), Op("names", "track0"),
       Op("format", "track1"), Op("names", "track1"), Op("activate", "log"),
       Op("event", "pad_ready")>>,
     <<Op("format", "track0"), Op("names", "track0"),
       Op("format", "track1"), Op("names", "track1"), Op("activate", "log"),
       Op("event", "pad_ready")>>,
     <<Op("names", "track0"),
       Op("format", "track1"), Op("names", "track1"), Op("activate", "log"),
       Op("event", "pad_ready")>>,
     <<Op("format", "track1"), Op("names", "track1"), Op("activate", "log"),
       Op("event", "pad_ready")>>,
     <<Op("names", "track1"), Op("activate", "log"), Op("event", "pad_ready")>>,
     <<Op("activate", "log"), Op("event", "pad_ready")>> >>

\* The calls that can be left, and when.
TodoInv ==
  \/ todo = <<>>
  \/ todo \in Samples /\ (todo = <<Op("entry", "sample")>> => log_active)
  \/ trace # <<>> /\ todo = Event(trace[Len(trace)]) /\ close_work # "done"
  \/ /\ todo = Liftoff /\ Len(trace) >= 6 /\ close_work = "idle"
     /\ trace[Len(trace) - 1] = "ignition" /\ trace[Len(trace)] = "liftoff"
  \/ /\ \E k \in 1..6 : todo = Starting[k]
     /\ Len(trace) = 4 /\ close_work = "idle" /\ stage \notin {"boot", "name"}
  \/ todo = Closing /\ close_work = "idle" /\ trace # <<>> /\ trace[Len(trace)] = "touchdown"

\* Which events a flight starts with and which ends it.
TraceInv ==
  /\ \A n \in 1..4 :
       Len(trace) = n <=>
         M!Last(trace) = <<"boot", "processing_ready", "pad_idle", "pad_ready">>[n]
  /\ \A n \in 1..Len(trace) : trace[n] = "touchdown" => n = Len(trace)
  /\ close_work # "idle" => M!Last(trace) = "touchdown"
  /\ log_active => Len(trace) >= 4
  /\ stage = "boot" => trace = <<>>

\* The log has one name, and it is known when the log is opened.
NameInv ==
  /\ stage \in {"boot", "name"} => log_name = NoPath
  /\ stage \notin {"boot", "name"} => log_name \in Paths
  /\ current_path \in {NoPath, log_name}
  /\ \A i \in DOMAIN queue : queue[i].cmd = "OPEN_LOG" => current_path \in Paths

\* Where the calls of the main thread so far take the log.
MainAt(t) ==
  \/ todo \in {<<>>} \cup Samples
       /\ t = At(Len(trace), IF Len(trace) < 4 THEN 0 ELSE IF close_work = "done" THEN 6 ELSE 5)
  \/ trace # <<>> /\ todo = Event(trace[Len(trace)])
       /\ t = At(Len(trace) - 1, IF Len(trace) < 4 THEN 0 ELSE 5)
  \/ todo = Liftoff /\ t = At(Len(trace) - 2, 5)
  \/ \E k \in 1..6 : todo = Starting[k] /\ t = At(3, k - 1)
  \/ todo = Closing /\ t = At(Len(trace) - 1, 5)
--------------------------------------------------------------------------------
(* The thread and the file *)

\* No file has been opened.
Untouched == fd = NoPath /\ \A p \in Paths : durable[p] = <<>>

\* A file with its header and n events.
LogHolds(file, n) ==
  /\ Len(file) >= 8 /\ \A i \in 1..8 : file[i] = Header[i]
  /\ TellsFlight(file) /\ EventCount(file, Len(file)) = n

Writing == fd = log_name /\ log_name \in Paths /\ pos = Len(image)

\* The header is being written: k requests of it are done, or in work.
InHeader(k) ==
  /\ Writing
  /\ Len(image) + Len(job.left) = 2 * k
  /\ \A i \in 1..Len(image) : image[i] = Header[i]
  /\ \A j \in 1..Len(job.left) : job.left[j] = Header[Len(image) + j]
  /\ job.busy => job.req.cmd \in MetadataCmds

\* The body of an event is still to be written.
EventDue == job.busy /\ job.left # <<>> /\ IsEventReq(job.req)

\* n events are in the file, the one in work included.
InData(n) ==
  /\ Writing
  /\ LogHolds(image, IF EventDue THEN n - 1 ELSE n)
  /\ job.busy => job.req.cmd = "LOG_TRACK_DATA"
  /\ EventDue => n >= 1 /\ n <= Len(LoggableEvents) /\ job.req.arg = LoggableEvents[n]

\* Where the thread has the log.
WorkerAt(s) ==
  \/ s.at = 0 /\ Untouched /\ (job.busy => IsEventReq(job.req))
  \/ s = At(3, 1) /\ Untouched /\ job.busy /\ job.req.cmd = "OPEN_LOG"
  \/ \E k \in 0..4 : s = At(3, k + 1) /\ InHeader(k)
  \/ s.at = 5 /\ s.ev >= 3 /\ InData(s.ev - 3)
  \/ /\ s.at = 6 /\ s.ev \in 4..Len(trace) /\ trace[s.ev] = "touchdown"
     /\ \/ Writing /\ LogHolds(image, s.ev - 3) /\ job.busy /\ job.req.cmd = "CLOSE_LOG"
        \/ /\ fd = NoPath /\ log_name \in Paths /\ LogHolds(durable[log_name], s.ev - 3)
           /\ job.busy => IsSampleReq(job.req)

\* Once stop_log has run, the log is closed or its closing is on the way.
CloseOnTheWay(s, t) ==
  t.at = 6 => s.at = 6 \/ \E i \in DOMAIN queue : queue[i].cmd = "CLOSE_LOG"

\* The log as a whole: from where the thread has it, over the requests queued,
\* to where the main thread has it.
Pipe(s, t) ==
  WorkerAt(s) /\ MainAt(t) /\ Chain(trace, queue, s, t) /\ CloseOnTheWay(s, t)

\* The pipeline holds together, as long as nothing failed.
PipeOn == \E s, t \in Place : Pipe(s, t)
PipeInv == NoFailure => PipeOn

LogInv == /\ TypeOK /\ JobInv /\ (job.busy \/ job.left = <<>>) /\ orphans <= refusals
          /\ TodoInv /\ TraceInv /\ NameInv
--------------------------------------------------------------------------------
(* Counting events, and chains of requests *)

LEMMA CountType ==
  ASSUME NEW f, NEW n \in Nat
  PROVE  /\ IsFiniteSet({i \in 1..n : IsEvent(f[i])})
         /\ EventCount(f, n) \in Nat
<1>1. IsFiniteSet(1..n)
  BY FS_Interval
<1>2. {i \in 1..n : IsEvent(f[i])} \subseteq 1..n
  OBVIOUS
<1>3. IsFiniteSet({i \in 1..n : IsEvent(f[i])})
  BY <1>1, <1>2, FS_Subset
<1> QED
  BY <1>3, FS_CardinalityType DEF EventCount

\* A further element counts if it is an event.
LEMMA CountNext ==
  ASSUME NEW f, NEW n \in Nat
  PROVE  EventCount(f, n + 1) = EventCount(f, n) + (IF IsEvent(f[n + 1]) THEN 1 ELSE 0)
<1> DEFINE ofn == {i \in 1..n : IsEvent(f[i])}
           ofn1 == {i \in 1..(n + 1) : IsEvent(f[i])}
<1>1. IsFiniteSet(ofn) /\ Cardinality(ofn) \in Nat /\ n + 1 \notin ofn
  BY CountType DEF EventCount
<1>2. CASE IsEvent(f[n + 1])
  <2>1. ofn1 = ofn \cup {n + 1}
    BY <1>2
  <2>2. Cardinality(ofn \cup {n + 1}) = Cardinality(ofn) + 1
    <3> HIDE DEF ofn
    <3> QED  BY <1>1, FS_AddElement
  <2> QED  BY <1>2, <2>1, <2>2 DEF EventCount
<1>3. CASE ~IsEvent(f[n + 1])
  <2>1. ofn1 = ofn
    BY <1>3
  <2> QED  BY <1>1, <1>3, <2>1 DEF EventCount
<1> QED
  BY <1>2, <1>3

\* Only the elements counted matter.
LEMMA CountSame ==
  ASSUME NEW f, NEW g, NEW n \in Nat, \A i \in 1..n : f[i] = g[i]
  PROVE  EventCount(f, n) = EventCount(g, n)
<1>1. {i \in 1..n : IsEvent(f[i])} = {i \in 1..n : IsEvent(g[i])}
  OBVIOUS
<1> QED
  BY <1>1 DEF EventCount

LEMMA CountNone ==
  ASSUME NEW f, NEW n \in Nat, \A i \in 1..n : ~IsEvent(f[i])
  PROVE  EventCount(f, n) = 0
<1>1. {i \in 1..n : IsEvent(f[i])} = {}
  OBVIOUS
<1> QED
  BY <1>1, FS_EmptySet DEF EventCount

LEMMA ChainEmpty ==
  ASSUME NEW tr, NEW s \in Place
  PROVE  Chain(tr, <<>>, s, s)
<1> DEFINE p == [i \in 0..Len(<<>>) |-> s]
<1>1. p \in [0..Len(<<>>) -> Place] /\ p[0] = s /\ p[Len(<<>>)] = s
  OBVIOUS
<1>2. \A i \in 1..Len(<<>>) : Follows(tr, p[i - 1], <<>>[i], p[i])
  OBVIOUS
<1> HIDE DEF p
<1> QED
  BY <1>1, <1>2 DEF Chain

\* A request queued moves the end of the chain.
LEMMA ChainAppend ==
  ASSUME NEW tr, NEW q \in Seq(Request), NEW r \in Request,
         NEW s \in Place, NEW t \in Place, NEW u \in Place,
         Chain(tr, q, s, t), Follows(tr, t, r, u)
  PROVE  Chain(tr, Append(q, r), s, u)
<1> PICK p \in [0..Len(q) -> Place] :
       /\ p[0] = s /\ p[Len(q)] = t
       /\ \A i \in 1..Len(q) : Follows(tr, p[i - 1], q[i], p[i])
  BY DEF Chain
<1> PICK n \in Nat : n = Len(q)
  OBVIOUS
<1> DEFINE w == [i \in 0..(n + 1) |-> IF i = n + 1 THEN u ELSE p[i]]
<1>1. Len(Append(q, r)) = n + 1 /\ Append(q, r)[n + 1] = r
      /\ \A i \in 1..n : Append(q, r)[i] = q[i]
  OBVIOUS
<1>2. w \in [0..(n + 1) -> Place] /\ w[0] = s /\ w[n + 1] = u
  OBVIOUS
<1>3. ASSUME NEW i \in 1..(n + 1)
      PROVE  Follows(tr, w[i - 1], Append(q, r)[i], w[i])
  <2>1. CASE i = n + 1
    <3>1. w[i - 1] = t /\ w[i] = u /\ Append(q, r)[i] = r
      BY <1>1, <2>1
    <3> HIDE DEF w
    <3> QED  BY <3>1
  <2>2. CASE i # n + 1
    <3>1. i \in 1..n /\ w[i - 1] = p[i - 1] /\ w[i] = p[i] /\ Append(q, r)[i] = q[i]
      BY <1>1, <2>2
    <3> HIDE DEF w
    <3> QED  BY <3>1
  <2> QED  BY <2>1, <2>2
<1> HIDE DEF w
<1> QED
  BY <1>1, <1>2, <1>3 DEF Chain

\* The request taken off the queue moves its start.
LEMMA ChainTail ==
  ASSUME NEW tr, NEW q \in Seq(Request), q # <<>>,
         NEW s \in Place, NEW t \in Place, Chain(tr, q, s, t)
  PROVE  \E u \in Place : Follows(tr, s, Head(q), u) /\ Chain(tr, Tail(q), u, t)
<1> PICK p \in [0..Len(q) -> Place] :
       /\ p[0] = s /\ p[Len(q)] = t
       /\ \A i \in 1..Len(q) : Follows(tr, p[i - 1], q[i], p[i])
  BY DEF Chain
<1> PICK n \in Nat : n = Len(q)
  OBVIOUS
<1>0. n >= 1
  OBVIOUS
<1> DEFINE w == [i \in 0..(n - 1) |-> p[i + 1]]
<1>1. Len(Tail(q)) = n - 1 /\ \A i \in 1..(n - 1) : Tail(q)[i] = q[i + 1]
  OBVIOUS
<1>2. w \in [0..(n - 1) -> Place] /\ w[0] = p[1] /\ w[n - 1] = t
  BY <1>0
<1>3. ASSUME NEW i \in 1..(n - 1)
      PROVE  Follows(tr, w[i - 1], Tail(q)[i], w[i])
  <2>1. i + 1 \in 1..n /\ w[i - 1] = p[(i + 1) - 1] /\ w[i] = p[i + 1] /\ Tail(q)[i] = q[i + 1]
    BY <1>1
  <2> HIDE DEF w
  <2> QED  BY <2>1
<1> HIDE DEF w
<1>4. Chain(tr, Tail(q), p[1], t)
  BY <1>1, <1>2, <1>3 DEF Chain
<1>5. Follows(tr, s, Head(q), p[1]) /\ p[1] \in Place
  <2>1. 1 \in 1..n /\ Head(q) = q[1] /\ 1 - 1 = 0
    BY <1>0
  <2>2. Follows(tr, p[1 - 1], q[1], p[1])
    BY <2>1
  <2> QED  BY <1>0, <2>1, <2>2
<1> QED
  BY <1>4, <1>5

\* An event that fires takes nothing back.
LEMMA ChainGrows ==
  ASSUME NEW tr \in Seq(M!Events), NEW ts \in Seq(M!Events), Len(tr) <= Len(ts),
         \A i \in 1..Len(tr) : ts[i] = tr[i],
         NEW q \in Seq(Request), NEW s \in Place, NEW t \in Place, Chain(tr, q, s, t)
  PROVE  Chain(ts, q, s, t)
<1> PICK p \in [0..Len(q) -> Place] :
       /\ p[0] = s /\ p[Len(q)] = t
       /\ \A i \in 1..Len(q) : Follows(tr, p[i - 1], q[i], p[i])
  BY DEF Chain
<1>1. ASSUME NEW a \in Place, NEW b \in Place, NEW r \in Request, Follows(tr, a, r, b)
      PROVE  Follows(ts, a, r, b)
  <2>0. a.ev \in Nat
    BY DEF Place
  <2>1. CASE IsEventReq(r) /\ b = At(a.ev + 1, a.at) /\ b.ev <= Len(tr) /\ r.arg = tr[b.ev]
             /\ a.at \in {0, 5} /\ (a.at = 0 => b.ev <= 3)
    <3>1. b.ev \in 1..Len(tr)
      BY <2>0, <2>1 DEF At
    <3> QED  BY <2>1, <3>1 DEF Follows
  <2>2. CASE r.cmd = "CLOSE_LOG" /\ a.at = 5 /\ b = At(a.ev, 6) /\ a.ev \in 4..Len(tr)
             /\ tr[a.ev] = "touchdown"
    BY <2>2 DEF Follows
  <2> QED  BY <1>1, <2>1, <2>2 DEF Follows
<1>2. \A i \in 1..Len(q) : Follows(ts, p[i - 1], q[i], p[i])
  <2> SUFFICES ASSUME NEW i \in 1..Len(q) PROVE Follows(ts, p[i - 1], q[i], p[i])
    OBVIOUS
  <2>1. Len(q) \in Nat /\ q[i] \in Request
    OBVIOUS
  <2>2. i - 1 \in 0..Len(q) /\ i \in 0..Len(q)
    BY <2>1
  <2>3. p[i - 1] \in Place /\ p[i] \in Place
    BY <2>2
  <2> QED  BY <1>1, <2>1, <2>3
<1> QED
  BY <1>2 DEF Chain
--------------------------------------------------------------------------------
(* The types, and the calls that can be left *)

LEMMA StartingCalls ==
  /\ Head(Starting[1]) = Op("open", "log") /\ Head(Starting[2]) = Op("format", "track0")
  /\ Head(Starting[3]) = Op("names", "track0") /\ Head(Starting[4]) = Op("format", "track1")
  /\ Head(Starting[5]) = Op("names", "track1") /\ Head(Starting[6]) = Op("activate", "log")
  /\ Tail(Starting[1]) = Starting[2] /\ Tail(Starting[2]) = Starting[3]
  /\ Tail(Starting[3]) = Starting[4] /\ Tail(Starting[4]) = Starting[5]
  /\ Tail(Starting[5]) = Starting[6] /\ Tail(Starting[6]) = Event("pad_ready")
  /\ StartLog \o Event("pad_ready") = Starting[1]
<1>1. /\ Head(Starting[1]) = Op("open", "log") /\ Head(Starting[2]) = Op("format", "track0")
      /\ Head(Starting[3]) = Op("names", "track0") /\ Head(Starting[4]) = Op("format", "track1")
      /\ Head(Starting[5]) = Op("names", "track1") /\ Head(Starting[6]) = Op("activate", "log")
  BY DEF Starting
<1>2. Tail(Starting[1]) = Starting[2] /\ Tail(Starting[2]) = Starting[3]
  BY DEF Starting
<1>3. Tail(Starting[3]) = Starting[4] /\ Tail(Starting[4]) = Starting[5]
  BY DEF Starting
<1>4. Tail(Starting[5]) = Starting[6] /\ Tail(Starting[6]) = Event("pad_ready")
  BY DEF Starting, Event
<1>5. StartLog \o Event("pad_ready") = Starting[1]
  <2> DEFINE ops == {StartLog[i] : i \in 1..6} \cup {Op("event", "pad_ready")}
             x == StartLog \o Event("pad_ready")
  <2>1. StartLog \in Seq(ops) /\ Event("pad_ready") \in Seq(ops) /\ Starting[1] \in Seq(ops)
    BY DEF StartLog, Event, Starting
  <2>2. x \in Seq(ops) /\ Len(x) = 7 /\ Len(Starting[1]) = 7
    BY <2>1 DEF StartLog, Event, Starting
  <2>3. \A i \in 1..7 : x[i] = IF i <= 6 THEN StartLog[i] ELSE Event("pad_ready")[i - 6]
    <3> HIDE DEF ops
    <3> QED  BY <2>1 DEF StartLog, Event
  <2>4. \A i \in 1..7 : x[i] = Starting[1][i]
    <3> HIDE DEF x
    <3> SUFFICES ASSUME NEW i \in {1, 2, 3, 4, 5, 6, 7} PROVE x[i] = Starting[1][i]
      OBVIOUS
    <3> QED  BY <2>3 DEF Starting, StartLog, Event
  <2> HIDE DEF x, ops
  <2>5. x = Starting[1]
    BY <2>1, <2>2, <2>4, SeqEqual
  <2> QED  BY <2>5 DEF x
<1> QED
  BY <1>1, <1>2, <1>3, <1>4, <1>5

LEMMA OtherCalls ==
  /\ \A e : Head(Event(e)) = Op("event", e) /\ Tail(Event(e)) = <<>>
  /\ Head(Liftoff) = Op("event", "ignition") /\ Tail(Liftoff) = Event("liftoff")
  /\ Head(Closing) = Op("schedule_close", "touchdown") /\ Tail(Closing) = Event("touchdown")
  /\ Head(<<Op("entry", "sample")>>) = Op("entry", "sample")
  /\ Tail(<<Op("entry", "sample")>>) = <<>>
  /\ Head(<<Op("pre_buffer", "sample")>>) = Op("pre_buffer", "sample")
  /\ Tail(<<Op("pre_buffer", "sample")>>) = <<>>
BY DEF Liftoff, Closing, Event

\* What a call tells about the calls left.
LEMMA CallLeft ==
  ASSUME TodoInv
  PROVE  /\ NextOp("open") => todo = Starting[1]
         /\ NextOp("format") => todo \in {Starting[2], Starting[4]}
         /\ NextOp("names") => todo \in {Starting[3], Starting[5]}
         /\ NextOp("activate") => todo = Starting[6]
         /\ NextOp("event") => \/ trace # <<>> /\ todo = Event(trace[Len(trace)])
                              \/ todo = Liftoff
         /\ NextOp("entry") => todo = <<Op("entry", "sample")>>
         /\ NextOp("pre_buffer") => todo = <<Op("pre_buffer", "sample")>>
         /\ NextOp("schedule_close") => todo = Closing
<1>1. \A op, arg : Op(op, arg).op = op
  BY DEF Op
<1>2. CASE todo = <<>>
  BY <1>2 DEF NextOp
<1>3. CASE todo \in Samples
  <2>1. Head(todo) \in {Op("entry", "sample"), Op("pre_buffer", "sample")}
    BY <1>3, OtherCalls DEF Samples
  <2>2. /\ Head(todo) = Op("entry", "sample") => todo = <<Op("entry", "sample")>>
        /\ Head(todo) = Op("pre_buffer", "sample") => todo = <<Op("pre_buffer", "sample")>>
    BY <1>3, OtherCalls, <1>1 DEF Samples
  <2> QED  BY <1>1, <2>1, <2>2 DEF NextOp
<1>4. CASE trace # <<>> /\ todo = Event(trace[Len(trace)])
  BY <1>1, <1>4, OtherCalls DEF NextOp
<1>5. CASE todo = Liftoff
  BY <1>1, <1>5, OtherCalls DEF NextOp
<1>6. ASSUME NEW k \in 1..6, todo = Starting[k]
      PROVE  /\ NextOp("open") => k = 1
             /\ NextOp("format") => k \in {2, 4}
             /\ NextOp("names") => k \in {3, 5}
             /\ NextOp("activate") => k = 6
             /\ ~NextOp("event") /\ ~NextOp("entry") /\ ~NextOp("pre_buffer")
             /\ ~NextOp("schedule_close")
  <2>1. k \in {1, 2, 3, 4, 5, 6}
    OBVIOUS
  <2> QED  BY <1>1, <1>6, <2>1, StartingCalls DEF NextOp
<1>7. CASE todo = Closing
  BY <1>1, <1>7, OtherCalls DEF NextOp
<1> QED
  BY <1>2, <1>3, <1>4, <1>5, <1>6, <1>7 DEF TodoInv

\* A call changes the calls left, and may hand over one request.
LEMMA CallOK ==
  ASSUME LogInv,
         UNCHANGED <<fileVars, job, faults, trace, stage, samples, log_name>>,
         \/ UNCHANGED <<queue, current_path>>
         \/ \E r \in Request :
              /\ queue' = Append(queue, r)
              /\ \/ r.cmd = "OPEN_LOG" /\ current_path' = log_name /\ log_name \in Paths
                 \/ r.cmd # "OPEN_LOG" /\ current_path' = current_path,
         TodoInv',
         log_active' \in BOOLEAN, log_active' => Len(trace) >= 4,
         close_work' \in {"idle", "scheduled", "done"},
         close_work' # "idle" => M!Last(trace) = "touchdown",
         pre_buffer_head' \in Nat, stored' \subseteq Nat,
         refusals' \in 0..MaxRefusals, orphans' \in Nat, orphans' <= refusals'
  PROVE  LogInv'
<1>0. /\ current_path \in Paths \cup {NoPath} /\ queue \in Seq(Request)
      /\ UNCHANGED <<log_open, fd, pos, image, durable>>
  BY DEF LogInv, TypeOK, JobTypeOK, fileVars
<1>1. current_path' = current_path \/ current_path' \in Paths
  OBVIOUS
<1>2. JobInv'
  BY <1>1, CallerOK DEF LogInv
<1>3. queue' \in Seq(Request)
  BY <1>0
<1>4. orphans' \in 0..MaxRefusals
  BY RocketLoggingAssumption
<1>5. TypeOK'
  BY <1>2, <1>3, <1>4 DEF LogInv, TypeOK, JobInv
<1>6. TraceInv'
  BY DEF LogInv, TraceInv
<1>7. NameInv'
  <2>1. current_path' \in {NoPath, log_name}
    BY DEF LogInv, NameInv
  <2>2. \A i \in DOMAIN queue' : queue'[i].cmd = "OPEN_LOG" => current_path' \in Paths
    <3>1. CASE UNCHANGED <<queue, current_path>>
      BY <3>1 DEF LogInv, NameInv
    <3>2. ASSUME NEW r \in Request, queue' = Append(queue, r),
                 \/ r.cmd = "OPEN_LOG" /\ current_path' = log_name /\ log_name \in Paths
                 \/ r.cmd # "OPEN_LOG" /\ current_path' = current_path
          PROVE  \A i \in DOMAIN queue' : queue'[i].cmd = "OPEN_LOG" => current_path' \in Paths
      <4>1. /\ DOMAIN queue' = 1..(Len(queue) + 1) /\ DOMAIN queue = 1..Len(queue)
            /\ Len(queue) \in Nat
            /\ queue'[Len(queue) + 1] = r /\ \A i \in 1..Len(queue) : queue'[i] = queue[i]
        BY <1>0, <3>2
      <4>2. \A i \in 1..Len(queue) : queue[i].cmd = "OPEN_LOG" => current_path \in Paths
        BY <4>1 DEF LogInv, NameInv
      <4>3. log_name \in Paths => log_name # NoPath
        BY LogJobAssumption
      <4>4. ASSUME NEW i \in 1..(Len(queue) + 1), queue'[i].cmd = "OPEN_LOG"
            PROVE  current_path' \in Paths
        <5>1. CASE i = Len(queue) + 1
          BY <3>2, <4>1, <4>4, <5>1
        <5>2. CASE i # Len(queue) + 1
          <6>1. i \in 1..Len(queue)  BY <4>1, <5>2
          <6>2. queue[i].cmd = "OPEN_LOG"  BY <4>1, <4>4, <6>1
          <6> QED  BY <3>2, <4>2, <6>1, <6>2
        <5> QED  BY <5>1, <5>2
      <4> QED  BY <4>1, <4>4
    <3> QED  BY <3>1, <3>2
  <2> QED  BY <2>1, <2>2 DEF LogInv, NameInv
<1> QED
  BY <1>2, <1>5, <1>6, <1>7 DEF LogInv

\* LogService speaks of the thread in the same words.
LEMMA ServiceSteps ==
  /\ S!Init => JobInit /\ queue = <<>>
  /\ \A r : S!Submit(r) => /\ queue' = Append(queue, r)
                           /\ r.cmd # "OPEN_LOG" => UNCHANGED current_path
                           /\ UNCHANGED <<fileVars, job, faults>>
  /\ S!Start => queue # <<>> /\ queue' = Tail(queue) /\ StartJob(Head(queue))
  /\ S!Work => Perform /\ UNCHANGED queue
<1>1. \A r : S!Chunk(r) = Chunk(r)
  BY DEF S!Chunk, Chunk, S!Part, Part, S!DataCmds, DataCmds
<1>2. S!NoJob = NoJob
  BY DEF S!NoJob, NoJob
<1>3. S!JobInit => JobInit
  BY <1>2 DEF JobInit, S!JobInit
<1>4. \A r : S!StartJob(r) => StartJob(r)
  BY <1>1 DEF StartJob, S!StartJob, fileVars, S!fileVars
<1>5. S!Perform => Perform
  BY <1>2 DEF Perform, S!Perform, WriteElement, S!WriteElement, AbandonChunk, S!AbandonChunk,
     FinishUnsynced, S!FinishUnsynced, FinishSynced, S!FinishSynced,
     OpenLog, S!OpenLog, CloseLog, S!CloseLog, Fault, S!Fault, fileVars, S!fileVars
<1>6. \A r : S!Submit(r) => /\ queue' = Append(queue, r)
                            /\ r.cmd # "OPEN_LOG" => UNCHANGED current_path
                            /\ UNCHANGED <<fileVars, job, faults>>
  BY DEF S!Submit, S!fileVars, fileVars
<1> QED
  BY <1>3, <1>4, <1>5, <1>6 DEF S!Init, S!Start, S!Work

LEMMA LogInit == Init => LogInv
<1> SUFFICES ASSUME Init PROVE LogInv
  OBVIOUS
<1>1. JobInit /\ queue = <<>> /\ trace = <<>>
  BY ServiceSteps DEF Init, M!Init
<1>2. JobInv
  BY <1>1, JobInitOK
<1>3. TypeOK
  <2>1. <<>> \in Seq(Request) /\ <<>> \in Seq(M!Events)
    OBVIOUS
  <2>2. queue \in Seq(Request) /\ trace \in Seq(M!Events)
    BY <1>1, <2>1
  <2>3. samples \in 0..MaxSamples /\ orphans \in 0..MaxRefusals /\ refusals \in 0..MaxRefusals
    BY RocketLoggingAssumption DEF Init
  <2> QED  BY <1>2, <2>2, <2>3 DEF Init, TypeOK, JobInv
<1>4. TodoInv /\ TraceInv /\ NameInv
  BY <1>1 DEF Init, TodoInv, TraceInv, NameInv, M!Last, JobInit
<1> QED
  BY <1>1, <1>2, <1>3, <1>4 DEF LogInv, Init, JobInit, NoJob
--------------------------------------------------------------------------------
(* The calls keep LogInv *)

LEMMA LastEvent ==
  ASSUME trace \in Seq(M!Events)
  PROVE  /\ Len(trace) \in Nat /\ (trace = <<>> <=> Len(trace) = 0)
         /\ trace # <<>> => M!Last(trace) = trace[Len(trace)] /\ M!Last(trace) \in M!Events
         /\ trace = <<>> => M!Last(trace) = "none"
BY DEF M!Last

\* The calls that can be left after each call.
LEMMA NextTodo ==
  ASSUME LogInv, todo # <<>>, UNCHANGED <<trace, stage>>,
         close_work' = close_work \/ (todo = Closing /\ close_work' = "scheduled"),
         log_active' = log_active \/ todo = Starting[6],
         \/ todo' = Tail(todo)
         \/ todo \in {Starting[2], Starting[4]} /\ todo' = Tail(Tail(todo))
  PROVE  TodoInv'
<1>1. trace \in Seq(M!Events)
  BY DEF LogInv, TypeOK
<1>2. TodoInv /\ TraceInv
  BY DEF LogInv
<1>3. CASE todo \in Samples
  <2>1. todo' = <<>>
    <3>1. todo # Starting[2] /\ todo # Starting[4]
      <4>1. Head(todo).op \in {"entry", "pre_buffer"}
        BY <1>3, OtherCalls DEF Samples, Op
      <4> QED  BY <4>1, StartingCalls DEF Op
    <3> QED  BY <1>3, <3>1, OtherCalls DEF Samples
  <2> QED  BY <2>1 DEF TodoInv
<1>4. CASE trace # <<>> /\ todo = Event(trace[Len(trace)])
  <2>1. Head(todo).op = "event"
    BY <1>4, OtherCalls DEF Op
  <2>2. todo # Starting[2] /\ todo # Starting[4]
    BY <2>1, StartingCalls DEF Op
  <2>3. todo' = <<>>
    BY <1>4, <2>2, OtherCalls
  <2> QED  BY <2>3 DEF TodoInv
<1>5. CASE todo = Liftoff /\ Len(trace) >= 6 /\ close_work = "idle"
           /\ trace[Len(trace)] = "liftoff"
  <2>1. Head(todo).op = "event"
    BY <1>5, OtherCalls DEF Op
  <2>2. todo # Starting[2] /\ todo # Starting[4] /\ todo # Closing
    BY <2>1, StartingCalls, OtherCalls DEF Op
  <2>3. todo' = Event("liftoff")
    BY <1>5, <2>2, OtherCalls
  <2> QED  BY <1>1, <1>5, <2>2, <2>3, LastEvent DEF TodoInv
<1>6. ASSUME NEW k \in 1..6, todo = Starting[k], Len(trace) = 4, close_work = "idle",
             stage \notin {"boot", "name"}
      PROVE  TodoInv'
  <2>1. todo # Closing
    <3>1. k \in {1, 2, 3, 4, 5, 6}
      OBVIOUS
    <3> QED  BY <1>6, <3>1, StartingCalls, OtherCalls DEF Op
  <2>2. trace # <<>> /\ trace[Len(trace)] = "pad_ready"
    BY <1>1, <1>2, <1>6, LastEvent DEF TraceInv
  <2>3. todo' = Event("pad_ready") \/ \E j \in 1..6 : todo' = Starting[j]
    <3>1. CASE todo' = Tail(todo)
      <4>1. k \in {1, 2, 3, 4, 5, 6}
        OBVIOUS
      <4> QED  BY <1>6, <3>1, <4>1, StartingCalls
    <3>2. CASE todo \in {Starting[2], Starting[4]} /\ todo' = Tail(Tail(todo))
      <4>1. todo' = Starting[4] \/ todo' = Starting[6]
        BY <3>2, StartingCalls
      <4>2. 4 \in 1..6 /\ 6 \in 1..6
        OBVIOUS
      <4> QED  BY <4>1, <4>2
    <3> QED  BY <3>1, <3>2
  <2> QED  BY <1>6, <2>1, <2>2, <2>3 DEF TodoInv
<1>7. CASE todo = Closing /\ close_work = "idle" /\ trace # <<>>
           /\ trace[Len(trace)] = "touchdown"
  <2>1. todo # Starting[2] /\ todo # Starting[4]
    BY <1>7, StartingCalls, OtherCalls DEF Op
  <2>2. todo' = Event("touchdown")
    BY <1>7, <2>1, OtherCalls
  <2> QED  BY <1>7, <2>2 DEF TodoInv
<1> QED
  BY <1>2, <1>3, <1>4, <1>5, <1>6, <1>7 DEF TodoInv

LEMMA RequestTypes ==
  /\ Req("OPEN_LOG", NoPayload) \in Request /\ Req("CLOSE_LOG", NoPayload) \in Request
  /\ \A e \in M!Events \cup {"track0", "track1", "sample"} :
       /\ Req("LOG_TRACK_DATA", e) \in Request
       /\ Req("LOG_TRACK_FORMAT", e) \in Request
       /\ Req("LOG_TRACK_NAMES", e) \in Request
BY PayloadAssumption, LogJobAssumption DEF Req, Request, Cmds, DataCmds

\* The argument of each call.
LEMMA CallArgs ==
  ASSUME LogInv
  PROVE  /\ NextOp("format") \/ NextOp("names") => Arg \in {"track0", "track1"}
         /\ NextOp("event") => Arg \in M!Events
         /\ NextOp("entry") => Arg = "sample"
<1>1. trace \in Seq(M!Events) /\ TodoInv
  BY DEF LogInv, TypeOK
<1>2. \A op, arg : Op(op, arg).arg = arg
  BY DEF Op
<1>3. "ignition" \in M!Events
  BY DEF M!Events
<1> QED
  BY <1>1, <1>2, <1>3, CallLeft, LastEvent, StartingCalls, OtherCalls DEF Arg

\* By the time the log is opened, it has a name.
LEMMA OpenIsNamed == LogInv /\ NextOp("open") => log_name \in Paths
<1> SUFFICES ASSUME LogInv, NextOp("open") PROVE log_name \in Paths
  OBVIOUS
<1>1. Head(todo).op = "open" /\ todo # <<>>
  BY DEF NextOp
<1>2. todo \notin Samples /\ todo # Liftoff /\ todo # Closing
  BY <1>1, OtherCalls DEF Samples, Op
<1>3. \A e : todo # Event(e)
  BY <1>1, OtherCalls DEF Op
<1>4. stage \notin {"boot", "name"}
  BY <1>1, <1>2, <1>3 DEF LogInv, TodoInv
<1> QED
  BY <1>4 DEF LogInv, NameInv

LEMMA OpenLogCallOK == LogInv /\ OpenLogCall => LogInv'
<1> SUFFICES ASSUME LogInv, OpenLogCall PROVE LogInv'
  OBVIOUS
<1>1. /\ todo # <<>> /\ NextOp("open") /\ todo' = Tail(todo)
      /\ UNCHANGED <<trace, stage, samples, log_name, log_active, pre_buffer_head, stored,
                     close_work, orphans, fileVars, job, faults>>
  BY DEF OpenLogCall, NextOp, mainVars, logVars
<1>2. log_name \in Paths
  BY <1>1, OpenIsNamed
<1>3. TodoInv'
  <2>1. close_work' = close_work /\ log_active' = log_active /\ UNCHANGED <<trace, stage>>
    BY <1>1
  <2> QED  BY <1>1, <2>1, NextTodo
<1>4. /\ refusals \in 0..MaxRefusals /\ orphans \in Nat /\ orphans <= refusals
      /\ log_active \in BOOLEAN /\ (log_active => Len(trace) >= 4)
      /\ close_work \in {"idle", "scheduled", "done"}
      /\ (close_work # "idle" => M!Last(trace) = "touchdown")
      /\ pre_buffer_head \in Nat /\ stored \subseteq Nat
  BY DEF LogInv, TypeOK, TraceInv
<1>5. CASE /\ queue' = Append(queue, [cmd |-> "OPEN_LOG", arg |-> NoPayload])
           /\ current_path' = log_name /\ UNCHANGED refusals
  <2>1. Req("OPEN_LOG", NoPayload) \in Request /\ Req("OPEN_LOG", NoPayload).cmd = "OPEN_LOG"
    BY RequestTypes DEF Req
  <2>2. queue' = Append(queue, Req("OPEN_LOG", NoPayload))
    BY <1>5 DEF Req
  <2> QED  BY <1>1, <1>2, <1>3, <1>4, <1>5, <2>1, <2>2, CallOK
<1>6. CASE Refused /\ UNCHANGED <<queue, current_path>>
  <2>1. refusals' \in 0..MaxRefusals /\ orphans <= refusals'
    BY <1>4, <1>6, RocketLoggingAssumption DEF Refused
  <2> QED  BY <1>1, <1>3, <1>4, <1>6, <2>1, CallOK
<1> QED
  BY <1>5, <1>6 DEF OpenLogCall

\* What a call does not touch keeps what CallOK asks of it.
Kept == /\ refusals \in 0..MaxRefusals /\ orphans \in Nat /\ orphans <= refusals
        /\ log_active \in BOOLEAN /\ (log_active => Len(trace) >= 4)
        /\ close_work \in {"idle", "scheduled", "done"}
        /\ (close_work # "idle" => M!Last(trace) = "touchdown")
        /\ pre_buffer_head \in Nat /\ stored \subseteq Nat

LEMMA LogKept == LogInv => Kept
BY DEF LogInv, TypeOK, TraceInv, Kept

LEMMA RefusedOK ==
  ASSUME LogInv, Refused
  PROVE  refusals' \in 0..MaxRefusals /\ refusals' = refusals + 1
BY RocketLoggingAssumption DEF LogInv, TypeOK, Refused

LEMMA FormatCallOK == LogInv /\ FormatCall => LogInv'
<1> SUFFICES ASSUME LogInv, FormatCall PROVE LogInv'
  OBVIOUS
<1>1. /\ todo # <<>> /\ NextOp("format")
      /\ UNCHANGED <<trace, stage, samples, log_name, log_active, pre_buffer_head, stored,
                     close_work, orphans>>
  BY DEF FormatCall, NextOp, mainVars, logVars
<1>2. Kept /\ todo \in {Starting[2], Starting[4]}
  BY <1>1, LogKept, CallLeft DEF LogInv
<1>3. CASE /\ S!Submit([cmd |-> "LOG_TRACK_FORMAT", arg |-> Arg])
           /\ todo' = Tail(todo) /\ UNCHANGED refusals
  <2> DEFINE r == Req("LOG_TRACK_FORMAT", Arg)
  <2>1. r \in Request /\ r.cmd # "OPEN_LOG" /\ r = [cmd |-> "LOG_TRACK_FORMAT", arg |-> Arg]
    BY <1>1, CallArgs, RequestTypes DEF Req
  <2> HIDE DEF r
  <2>2. queue' = Append(queue, r) /\ UNCHANGED <<current_path, fileVars, job, faults>>
    BY <1>3, <2>1, ServiceSteps
  <2>3. TodoInv'
    BY <1>1, <1>3, NextTodo
  <2> QED  BY <1>1, <1>2, <1>3, <2>1, <2>2, <2>3, CallOK DEF Kept
<1>4. CASE Refused /\ todo' = Tail(Tail(todo)) /\ UNCHANGED <<queue, jobVars>>
  <2>1. refusals' \in 0..MaxRefusals /\ refusals' = refusals + 1
    BY <1>4, RefusedOK
  <2>2. UNCHANGED <<queue, current_path, fileVars, job, faults>>
    BY <1>4 DEF jobVars, fileVars
  <2>3. TodoInv'
    BY <1>1, <1>2, <1>4, NextTodo
  <2>4. orphans <= refusals'
    BY <1>2, <2>1 DEF Kept
  <2> QED  BY <1>1, <1>2, <2>1, <2>2, <2>3, <2>4, CallOK DEF Kept
<1> QED
  BY <1>3, <1>4 DEF FormatCall

LEMMA NamesCallOK == LogInv /\ NamesCall => LogInv'
<1> SUFFICES ASSUME LogInv, NamesCall PROVE LogInv'
  OBVIOUS
<1>1. /\ todo # <<>> /\ NextOp("names") /\ todo' = Tail(todo)
      /\ UNCHANGED <<trace, stage, samples, log_name, log_active, pre_buffer_head, stored,
                     close_work, orphans>>
  BY DEF NamesCall, NextOp, mainVars, logVars
<1>2. Kept /\ TodoInv'
  BY <1>1, LogKept, NextTodo
<1>3. CASE S!Submit([cmd |-> "LOG_TRACK_NAMES", arg |-> Arg]) /\ UNCHANGED refusals
  <2> DEFINE r == Req("LOG_TRACK_NAMES", Arg)
  <2>1. r \in Request /\ r.cmd # "OPEN_LOG" /\ r = [cmd |-> "LOG_TRACK_NAMES", arg |-> Arg]
    BY <1>1, CallArgs, RequestTypes DEF Req
  <2> HIDE DEF r
  <2>2. queue' = Append(queue, r) /\ UNCHANGED <<current_path, fileVars, job, faults>>
    BY <1>3, <2>1, ServiceSteps
  <2> QED  BY <1>1, <1>2, <1>3, <2>1, <2>2, CallOK DEF Kept
<1>4. CASE Refused /\ UNCHANGED <<queue, jobVars>>
  <2>1. refusals' \in 0..MaxRefusals /\ refusals' = refusals + 1
    BY <1>4, RefusedOK
  <2>2. UNCHANGED <<queue, current_path, fileVars, job, faults>>
    BY <1>4 DEF jobVars, fileVars
  <2>4. orphans <= refusals'
    BY <1>2, <2>1 DEF Kept
  <2> QED  BY <1>1, <1>2, <2>1, <2>2, <2>4, CallOK DEF Kept
<1> QED
  BY <1>3, <1>4 DEF NamesCall

LEMMA TrackDataOK == LogInv /\ TrackData => LogInv'
<1> SUFFICES ASSUME LogInv, TrackData PROVE LogInv'
  OBVIOUS
<1>1. /\ todo # <<>> /\ (NextOp("event") \/ NextOp("entry")) /\ todo' = Tail(todo)
      /\ UNCHANGED <<trace, stage, samples, log_name, log_active, pre_buffer_head, stored,
                     close_work>>
  BY DEF TrackData, NextOp, mainVars
<1>2. Kept /\ TodoInv'
  BY <1>1, LogKept, NextTodo
<1>3. CASE S!Submit([cmd |-> "LOG_TRACK_DATA", arg |-> Arg]) /\ UNCHANGED <<orphans, refusals>>
  <2> DEFINE r == Req("LOG_TRACK_DATA", Arg)
  <2>1. r \in Request /\ r.cmd # "OPEN_LOG" /\ r = [cmd |-> "LOG_TRACK_DATA", arg |-> Arg]
    BY <1>1, CallArgs, RequestTypes DEF Req
  <2> HIDE DEF r
  <2>2. queue' = Append(queue, r) /\ UNCHANGED <<current_path, fileVars, job, faults>>
    BY <1>3, <2>1, ServiceSteps
  <2> QED  BY <1>1, <1>2, <1>3, <2>1, <2>2, CallOK DEF Kept
<1>4. CASE Refused /\ UNCHANGED <<queue, jobVars>> /\ orphans' \in {orphans, orphans + 1}
  <2>1. refusals' \in 0..MaxRefusals /\ refusals' = refusals + 1
    BY <1>4, RefusedOK
  <2>2. UNCHANGED <<queue, current_path, fileVars, job, faults>>
    BY <1>4 DEF jobVars, fileVars
  <2>4. orphans' \in Nat /\ orphans' <= refusals'
    BY <1>2, <1>4, <2>1 DEF Kept
  <2> QED  BY <1>1, <1>2, <2>1, <2>2, <2>4, CallOK DEF Kept
<1> QED
  BY <1>3, <1>4 DEF TrackData

LEMMA QuietCallOK == LogInv /\ (Activate \/ PreBuffer \/ ScheduleClose) => LogInv'
<1> SUFFICES ASSUME LogInv, Activate \/ PreBuffer \/ ScheduleClose PROVE LogInv'
  OBVIOUS
<1>1. /\ todo # <<>> /\ todo' = Tail(todo)
      /\ UNCHANGED <<trace, stage, samples, log_name, orphans, refusals, queue, current_path,
                     fileVars, job, faults>>
  BY DEF Activate, PreBuffer, ScheduleClose, NextOp, mainVars, jobVars, fileVars
<1>2. Kept /\ TodoInv /\ trace \in Seq(M!Events) /\ TraceInv
  BY LogKept DEF LogInv, TypeOK
<1>3. CASE Activate
  <2>1. /\ todo = Starting[6] /\ log_active' = TRUE
        /\ UNCHANGED <<pre_buffer_head, stored, close_work>>
    BY <1>2, <1>3, CallLeft DEF Activate
  <2>2. Len(trace) >= 4
    <3>1. Head(todo).op = "activate"
      BY <2>1, StartingCalls DEF Op
    <3>2. todo \notin Samples /\ todo # Liftoff /\ todo # Closing
      BY <3>1, OtherCalls DEF Samples, Op
    <3>3. \A e : todo # Event(e)
      BY <3>1, OtherCalls DEF Op
    <3>4. Len(trace) = 4
      BY <1>1, <1>2, <3>2, <3>3, Zenon DEF TodoInv
    <3> QED  BY <3>4
  <2>3. TodoInv'
    BY <1>1, <2>1, NextTodo
  <2> QED  BY <1>1, <1>2, <2>1, <2>2, <2>3, CallOK DEF Kept
<1>4. CASE PreBuffer
  <2>1. UNCHANGED <<log_active, close_work>>
    BY <1>4 DEF PreBuffer
  <2> DEFINE next == IF pre_buffer_head >= PreBufferSize THEN 0 ELSE pre_buffer_head + 1
  <2>2. next \in Nat
    BY <1>2 DEF Kept
  <2>3. /\ stored' = stored \cup {next}
        /\ pre_buffer_head' = IF pre_buffer_head >= PreBufferSize THEN pre_buffer_head ELSE next
    BY <1>4 DEF PreBuffer
  <2> HIDE DEF next
  <2>4. pre_buffer_head' \in Nat /\ stored' \subseteq Nat
    BY <1>2, <2>2, <2>3 DEF Kept
  <2>5. TodoInv'
    BY <1>1, <2>1, NextTodo
  <2> QED  BY <1>1, <1>2, <2>1, <2>4, <2>5, CallOK DEF Kept
<1>5. CASE ScheduleClose
  <2>1. /\ todo = Closing /\ close_work' = "scheduled"
        /\ UNCHANGED <<pre_buffer_head, stored, log_active>>
    BY <1>2, <1>5, CallLeft DEF ScheduleClose
  <2>2. M!Last(trace) = "touchdown"
    <3>1. Head(todo).op = "schedule_close"
      BY <2>1, OtherCalls DEF Op
    <3>2. todo \notin Samples /\ todo # Liftoff
      BY <3>1, OtherCalls DEF Samples, Op
    <3>3. \A e : todo # Event(e)
      BY <3>1, OtherCalls DEF Op
    <3>4. \A k \in 1..6 : todo # Starting[k]
      <4> SUFFICES ASSUME NEW k \in {1, 2, 3, 4, 5, 6} PROVE todo # Starting[k]
        OBVIOUS
      <4> QED  BY <3>1, StartingCalls DEF Op
    <3> QED  BY <1>1, <1>2, <3>2, <3>3, <3>4, LastEvent DEF TodoInv
  <2>3. TodoInv'
    BY <1>1, <2>1, NextTodo
  <2> QED  BY <1>1, <1>2, <2>1, <2>2, <2>3, CallOK DEF Kept
<1> QED
  BY <1>3, <1>4, <1>5

LEMMA StopLogOK == LogInv /\ StopLog => LogInv'
<1> SUFFICES ASSUME LogInv, StopLog PROVE LogInv'
  OBVIOUS
<1>1. /\ todo = <<>> /\ todo' = todo /\ close_work' = "done" /\ close_work = "scheduled"
      /\ UNCHANGED <<trace, stage, samples, log_name, log_active, pre_buffer_head, stored,
                     orphans>>
  BY DEF StopLog, Waiting, mainVars
<1>2. Kept /\ TodoInv'
  BY <1>1, LogKept DEF TodoInv
<1>3. CASE S!Submit([cmd |-> "CLOSE_LOG", arg |-> NoPayload]) /\ UNCHANGED refusals
  <2> DEFINE r == Req("CLOSE_LOG", NoPayload)
  <2>1. r \in Request /\ r.cmd # "OPEN_LOG" /\ r = [cmd |-> "CLOSE_LOG", arg |-> NoPayload]
    BY RequestTypes DEF Req
  <2> HIDE DEF r
  <2>2. queue' = Append(queue, r) /\ UNCHANGED <<current_path, fileVars, job, faults>>
    BY <1>3, <2>1, ServiceSteps
  <2> QED  BY <1>1, <1>2, <1>3, <2>1, <2>2, CallOK DEF Kept
<1>4. CASE Refused /\ UNCHANGED <<queue, jobVars>>
  <2>1. refusals' \in 0..MaxRefusals /\ refusals' = refusals + 1
    BY <1>4, RefusedOK
  <2>2. UNCHANGED <<queue, current_path, fileVars, job, faults>>
    BY <1>4 DEF jobVars, fileVars
  <2>4. orphans <= refusals'
    BY <1>2, <2>1 DEF Kept
  <2> QED  BY <1>1, <1>2, <2>1, <2>2, <2>4, CallOK DEF Kept
<1> QED
  BY <1>3, <1>4 DEF StopLog
--------------------------------------------------------------------------------
(* The other steps keep LogInv *)

LEMMA AppendEvent ==
  ASSUME NEW tr \in Seq(M!Events), NEW e \in M!Events
  PROVE  /\ Append(tr, e) \in Seq(M!Events) /\ Len(Append(tr, e)) = Len(tr) + 1
         /\ Append(tr, e)[Len(tr) + 1] = e
         /\ \A i \in 1..Len(tr) : Append(tr, e)[i] = tr[i]
         /\ M!Last(Append(tr, e)) = e
BY DEF M!Last

LEMMA CallbacksOf ==
  /\ Callbacks("pad_ready") = Starting[1] /\ Callbacks("touchdown") = Closing
  /\ \A e : e \notin {"pad_ready", "touchdown"} => Callbacks(e) = Event(e)
<1>1. Callbacks("pad_ready") = StartLog \o Event("pad_ready")
  BY DEF Callbacks, Event
<1>2. Callbacks("touchdown") = Closing
  BY DEF Callbacks, Closing
<1>3. \A e : e \notin {"pad_ready", "touchdown"} => Callbacks(e) = Event(e)
  BY DEF Callbacks, Event
<1> QED
  BY <1>1, <1>2, <1>3, StartingCalls

\* What the last event fired tells of the trace.
LEMMA LastTells ==
  ASSUME trace \in Seq(M!Events), TraceInv
  PROVE  /\ M!Last(trace) = "none" => Len(trace) = 0
         /\ M!Last(trace) = "boot" => Len(trace) = 1
         /\ M!Last(trace) = "processing_ready" => Len(trace) = 2
         /\ M!Last(trace) = "pad_idle" => Len(trace) = 3
         /\ M!Last(trace) = "pad_ready" => Len(trace) = 4
         /\ M!Last(trace) \in {"ignition", "liftoff", "burnout", "apogee", "touchdown"}
              => Len(trace) >= 5
         /\ Len(trace) = 4 => M!Last(trace) = "pad_ready"
<1>1. \A n \in 1..4 :
        Len(trace) = n <=>
          M!Last(trace) = <<"boot", "processing_ready", "pad_idle", "pad_ready">>[n]
  BY DEF TraceInv
<1>2. /\ Len(trace) = 1 <=> M!Last(trace) = "boot"
      /\ Len(trace) = 2 <=> M!Last(trace) = "processing_ready"
      /\ Len(trace) = 3 <=> M!Last(trace) = "pad_idle"
      /\ Len(trace) = 4 <=> M!Last(trace) = "pad_ready"
  BY <1>1
<1>3. /\ Len(trace) \in Nat /\ (trace = <<>> <=> Len(trace) = 0)
      /\ trace # <<>> => M!Last(trace) \in M!Events
      /\ trace = <<>> => M!Last(trace) = "none"
  BY LastEvent
<1>4. "none" \notin M!Events
  BY DEF M!Events
<1>5. M!Last(trace) \in {"ignition", "liftoff", "burnout", "apogee", "touchdown"}
        => Len(trace) >= 5
  <2> SUFFICES ASSUME M!Last(trace) \in {"ignition", "liftoff", "burnout", "apogee", "touchdown"}
               PROVE  Len(trace) >= 5
    OBVIOUS
  <2>1. Len(trace) # 0 /\ Len(trace) # 1 /\ Len(trace) # 2 /\ Len(trace) # 3 /\ Len(trace) # 4
    BY <1>2, <1>3
  <2>2. \A n \in Nat : n \notin {0, 1, 2, 3, 4} => n >= 5
    OBVIOUS
  <2> QED  BY <1>3, <2>1, <2>2
<1>6. M!Last(trace) = "none" => Len(trace) = 0
  BY <1>3, <1>4
<1> QED
  BY <1>2, <1>5, <1>6

\* An event fires: the flight goes on, and its callbacks are the calls left.
LEMMA FireEvent ==
  ASSUME LogInv, todo = <<>>, NEW e \in M!Events, trace' = Append(trace, e),
         todo' = CallbacksFired(trace'), UNCHANGED <<close_work, log_active>>,
         M!Last(trace) # "touchdown", stage' # "boot",
         e = "pad_ready" => stage' # "name",
         \/ Len(trace) = 0 /\ e = "boot"
         \/ Len(trace) = 1 /\ e = "processing_ready"
         \/ Len(trace) = 2 /\ e = "pad_idle"
         \/ Len(trace) = 3 /\ e = "pad_ready"
         \/ Len(trace) >= 5 /\ e \in {"ignition", "burnout", "apogee", "touchdown"}
  PROVE  TodoInv' /\ TraceInv' /\ trace' \in Seq(M!Events)
<1>0. trace \in Seq(M!Events) /\ TraceInv /\ Len(trace) \in Nat /\ close_work = "idle"
  BY LastEvent DEF LogInv, TypeOK, TraceInv
<1>1. /\ trace' \in Seq(M!Events) /\ Len(trace') = Len(trace) + 1
      /\ trace'[Len(trace) + 1] = e
      /\ \A i \in 1..Len(trace) : trace'[i] = trace[i]
      /\ M!Last(trace') = e
  BY <1>0, AppendEvent
<1>2. trace' # <<>> /\ trace'[Len(trace')] = e
  BY <1>0, <1>1
<1>3. todo' = Callbacks(e)
  BY <1>0, <1>1 DEF CallbacksFired
<1>4. TodoInv'
  <2>1. CASE e = "pad_ready"
    <3>0. Len(trace) = 3
      BY <2>1
    <3>1. todo' = Starting[1] /\ Len(trace') = 4
      BY <1>1, <1>3, <2>1, <3>0, CallbacksOf
    <3> QED  BY <1>0, <2>1, <3>1 DEF TodoInv
  <2>2. CASE e = "touchdown"
    <3>1. todo' = Closing
      BY <1>3, <2>2, CallbacksOf
    <3> QED  BY <1>0, <1>2, <2>2, <3>1 DEF TodoInv
  <2>3. CASE e \notin {"pad_ready", "touchdown"}
    <3>1. todo' = Event(trace'[Len(trace')])
      BY <1>2, <1>3, <2>3, CallbacksOf
    <3> QED  BY <1>0, <1>2, <3>1 DEF TodoInv
  <2> QED  BY <2>1, <2>2, <2>3
<1>5. TraceInv'
  <2>1. \A n \in 1..4 :
          Len(trace') = n <=>
            M!Last(trace') = <<"boot", "processing_ready", "pad_idle", "pad_ready">>[n]
    <3> SUFFICES ASSUME NEW n \in {1, 2, 3, 4}
                 PROVE  Len(trace') = n <=>
                   M!Last(trace') = <<"boot", "processing_ready", "pad_idle", "pad_ready">>[n]
      OBVIOUS
    <3> QED  BY <1>0, <1>1
  <2>2. \A n \in 1..Len(trace') : trace'[n] = "touchdown" => n = Len(trace')
    <3> SUFFICES ASSUME NEW n \in 1..Len(trace'), trace'[n] = "touchdown", n # Len(trace')
                 PROVE  FALSE
      OBVIOUS
    <3>1. n \in 1..Len(trace) /\ trace[n] = "touchdown"
      BY <1>0, <1>1
    <3>2. n = Len(trace)
      BY <1>0, <3>1 DEF TraceInv
    <3> QED  BY <1>0, <3>1, <3>2, LastEvent
  <2>3. log_active' => Len(trace') >= 4
    BY <1>0, <1>1 DEF TraceInv
  <2> QED  BY <1>0, <2>1, <2>2, <2>3 DEF TraceInv
<1> QED
  BY <1>1, <1>4, <1>5

LEMMA PairConcat == \A a, b : <<a>> \o <<b>> = <<a, b>>
<1> SUFFICES ASSUME NEW a, NEW b PROVE <<a>> \o <<b>> = <<a, b>>
  OBVIOUS
<1>1. <<a>> \in Seq({a, b}) /\ <<b>> \in Seq({a, b}) /\ <<a, b>> \in Seq({a, b})
  OBVIOUS
<1>2. <<a>> \o <<b>> \in Seq({a, b}) /\ Len(<<a>> \o <<b>>) = 2
  BY <1>1
<1>3. (<<a>> \o <<b>>)[1] = a /\ (<<a>> \o <<b>>)[2] = b
  BY <1>1
<1>4. \A i \in 1..2 : (<<a>> \o <<b>>)[i] = <<a, b>>[i]
  BY <1>3
<1>5. Len(<<a, b>>) = 2
  OBVIOUS
<1> QED  BY <1>1, <1>2, <1>4, <1>5, SeqEqual

\* The first ignition and the liftoff fire together.
LEMMA FireLiftoff ==
  ASSUME LogInv, todo = <<>>, M!Liftoff, todo' = CallbacksFired(trace'),
         UNCHANGED <<close_work, log_active>>, stage' # "boot"
  PROVE  TodoInv' /\ TraceInv' /\ trace' \in Seq(M!Events)
<1>0. /\ trace \in Seq(M!Events) /\ TraceInv /\ Len(trace) = 4 /\ close_work = "idle"
      /\ M!Last(trace) = "pad_ready"
  BY LastTells DEF LogInv, TypeOK, TraceInv, M!Liftoff
<1>1. "ignition" \in M!Events /\ "liftoff" \in M!Events
  BY DEF M!Events
<1>2. /\ trace' \in Seq(M!Events) /\ Len(trace') = 6
      /\ trace'[5] = "ignition" /\ trace'[6] = "liftoff"
      /\ \A i \in 1..4 : trace'[i] = trace[i]
      /\ M!Last(trace') = "liftoff"
  <2>1. trace' = Append(Append(trace, "ignition"), "liftoff")
    BY DEF M!Liftoff
  <2> DEFINE tr == Append(trace, "ignition")
  <2>a. /\ tr \in Seq(M!Events) /\ Len(tr) = Len(trace) + 1
        /\ tr[Len(trace) + 1] = "ignition" /\ \A i \in 1..Len(trace) : tr[i] = trace[i]
    <3> HIDE DEF tr
    <3> QED  BY <1>0, <1>1, AppendEvent DEF tr
  <2>2. /\ tr \in Seq(M!Events) /\ Len(tr) = 5 /\ tr[5] = "ignition"
        /\ \A i \in 1..4 : tr[i] = trace[i]
    <3> HIDE DEF tr
    <3> QED  BY <1>0, <2>a
  <2> HIDE DEF tr
  <2>3. /\ Append(tr, "liftoff") \in Seq(M!Events)
        /\ Len(Append(tr, "liftoff")) = Len(tr) + 1
        /\ Append(tr, "liftoff")[Len(tr) + 1] = "liftoff"
        /\ \A i \in 1..Len(tr) : Append(tr, "liftoff")[i] = tr[i]
        /\ M!Last(Append(tr, "liftoff")) = "liftoff"
    BY <1>1, <2>2, AppendEvent
  <2>4. trace' = Append(tr, "liftoff")
    BY <2>1 DEF tr
  <2> QED  BY <2>2, <2>3, <2>4
<1>3. todo' = Liftoff
  <2>1. todo' = Callbacks("ignition") \o Callbacks("liftoff")
    BY <1>0, <1>2 DEF CallbacksFired
  <2>2. Callbacks("ignition") = Event("ignition") /\ Callbacks("liftoff") = Event("liftoff")
    BY CallbacksOf
  <2>3. \A a, b : <<a>> \o <<b>> = <<a, b>>
    BY PairConcat
  <2> QED  BY <2>1, <2>2, <2>3 DEF Event, Liftoff
<1>4. TodoInv'
  BY <1>0, <1>2, <1>3 DEF TodoInv
<1>5. TraceInv'
  <2>1. \A n \in 1..4 :
          Len(trace') = n <=>
            M!Last(trace') = <<"boot", "processing_ready", "pad_idle", "pad_ready">>[n]
    BY <1>2
  <2>2. \A n \in 1..6 : trace'[n] # "touchdown"
    <3> SUFFICES ASSUME NEW n \in 1..6, trace'[n] = "touchdown" PROVE FALSE
      OBVIOUS
    <3>1. n \in 1..4 /\ trace[n] = "touchdown"
      BY <1>2
    <3>2. n = 4
      BY <1>0, <3>1 DEF TraceInv
    <3> QED  BY <1>0, <3>1, <3>2, LastEvent
  <2> QED  BY <1>0, <1>2, <2>1, <2>2 DEF TraceInv
<1> QED
  BY <1>2, <1>4, <1>5

\* A step that fires events, or none, and changes nothing but its stage.
LEMMA FireOK ==
  ASSUME LogInv, todo = <<>>, [M!Next]_trace, todo' = CallbacksFired(trace'),
         UNCHANGED <<queue, logVars, refusals, jobVars>>,
         samples' \in 0..MaxSamples, stage' \in {"name", "flight", "log"},
         stage' = "name" => M!Boot,
         stage \in {"boot", "name"} <=> stage' \in {"boot", "name"}
  PROVE  LogInv'
<1>0. trace \in Seq(M!Events) /\ TraceInv /\ Len(trace) \in Nat
  BY LastEvent DEF LogInv, TypeOK
<1>1. TodoInv' /\ TraceInv' /\ trace' \in Seq(M!Events)
  <2>0. UNCHANGED <<close_work, log_active>> /\ stage' # "boot"
    BY DEF logVars
  <2>1. CASE UNCHANGED trace
    <3>1. todo' = <<>>
      BY <2>1 DEF CallbacksFired
    <3> QED  BY <1>0, <2>0, <2>1, <3>1 DEF TodoInv, TraceInv
  <2>2. CASE M!Liftoff
    BY <2>0, <2>2, FireLiftoff
  <2>3. ASSUME NEW e \in M!Events, trace' = Append(trace, e), M!Last(trace) # "touchdown",
               e = "pad_ready" => stage' # "name",
               \/ Len(trace) = 0 /\ e = "boot"
               \/ Len(trace) = 1 /\ e = "processing_ready"
               \/ Len(trace) = 2 /\ e = "pad_idle"
               \/ Len(trace) = 3 /\ e = "pad_ready"
               \/ Len(trace) >= 5 /\ e \in {"ignition", "burnout", "apogee", "touchdown"}
        PROVE  TodoInv' /\ TraceInv' /\ trace' \in Seq(M!Events)
    BY <2>0, <2>3, FireEvent
  <2>4. CASE M!Boot \/ M!ProcessingReady \/ M!PadIdle \/ M!PadReady
    BY <1>0, <2>3, <2>4, LastTells DEF M!Boot, M!ProcessingReady, M!PadIdle, M!PadReady,
       M!FireAfter, M!Events
  <2>5. CASE M!Burnout \/ M!Reignition \/ M!Apogee \/ M!Touchdown
    BY <1>0, <2>3, <2>5, LastTells DEF M!Burnout, M!Reignition, M!Apogee, M!Touchdown,
       M!FireAfter, M!Events
  <2> QED  BY <2>1, <2>2, <2>4, <2>5 DEF M!Next
<1>2. JobInv'
  <2>1. UNCHANGED <<fileVars, job, faults>> /\ current_path' = current_path
    BY DEF jobVars, fileVars
  <2> QED  BY <2>1, CallerOK DEF LogInv
<1>3. /\ TypeOK' /\ (job.busy \/ job.left = <<>>)' /\ (orphans <= refusals)'
  BY <1>1, <1>2 DEF LogInv, TypeOK, JobInv, logVars, jobVars
<1>4. NameInv'
  BY DEF LogInv, NameInv, logVars, jobVars
<1> QED
  BY <1>1, <1>2, <1>3, <1>4 DEF LogInv

LEMMA MainStepsOK ==
  ASSUME LogInv, Boot \/ Sample \/ FlightstateUpdate
  PROVE  LogInv'
<1>1. samples \in 0..MaxSamples
  BY DEF LogInv, TypeOK
<1>2. CASE Boot
  BY <1>1, <1>2, FireOK DEF Boot, M!Next
<1>3. CASE Sample
  <2>1. samples' \in 0..MaxSamples
    BY <1>1, <1>3, RocketLoggingAssumption DEF Sample
  <2>2. /\ todo = <<>> /\ [M!Next]_trace /\ todo' = CallbacksFired(trace')
        /\ UNCHANGED <<queue, logVars, refusals, jobVars>>
        /\ stage' = "flight" /\ stage = "sync"
    BY <1>3 DEF Sample, M!Next
  <2> QED  BY <2>1, <2>2, FireOK
<1>4. CASE FlightstateUpdate
  <2>1. [M!Next]_trace
    BY <1>4 DEF FlightstateUpdate, M!Next
  <2>2. /\ todo = <<>> /\ todo' = CallbacksFired(trace')
        /\ UNCHANGED <<queue, logVars, refusals, jobVars>> /\ samples' = samples
        /\ stage' = "log" /\ stage = "flight"
    BY <1>4 DEF FlightstateUpdate
  <2> QED  BY <1>1, <2>1, <2>2, FireOK
<1> QED
  BY <1>2, <1>3, <1>4

LEMMA SetNameOK == LogInv /\ rocket_data_logging_set_name => LogInv'
<1> SUFFICES ASSUME LogInv, rocket_data_logging_set_name PROVE LogInv'
  OBVIOUS
<1>1. /\ stage = "name" /\ todo = <<>> /\ log_name' \in Paths /\ stage' = "sync"
      /\ UNCHANGED <<queue, trace, samples, todo, log_active, pre_buffer_head, stored,
                     close_work, orphans, refusals, current_path, fileVars, job, faults>>
  BY DEF rocket_data_logging_set_name, jobVars, fileVars
<1>2. JobInv'
  BY <1>1, CallerOK DEF LogInv
<1>3. TypeOK' /\ (job.busy \/ job.left = <<>>)' /\ (orphans <= refusals)'
  BY <1>1, <1>2 DEF LogInv, TypeOK, JobInv
<1>4. TodoInv' /\ TraceInv'
  BY <1>1 DEF LogInv, TodoInv, TraceInv
<1>5. NameInv'
  BY <1>1 DEF LogInv, NameInv
<1> QED
  BY <1>2, <1>3, <1>4, <1>5 DEF LogInv

LEMMA RocketDataLoggingOK == LogInv /\ RocketDataLogging => LogInv'
<1> SUFFICES ASSUME LogInv, RocketDataLogging PROVE LogInv'
  OBVIOUS
<1>1. /\ stage = "log" /\ todo = <<>> /\ stage' = "sync"
      /\ todo' = <<IF log_active THEN Op("entry", "sample") ELSE Op("pre_buffer", "sample")>>
      /\ UNCHANGED <<queue, trace, samples, log_name, log_active, pre_buffer_head, stored,
                     close_work, orphans, refusals, current_path, fileVars, job, faults>>
  BY DEF RocketDataLogging, logVars, jobVars, fileVars
<1>2. JobInv'
  BY <1>1, CallerOK DEF LogInv
<1>3. TypeOK' /\ (job.busy \/ job.left = <<>>)' /\ (orphans <= refusals)'
  BY <1>1, <1>2 DEF LogInv, TypeOK, JobInv
<1>4. TodoInv'
  <2>1. CASE log_active
    BY <1>1, <2>1 DEF TodoInv, Samples
  <2>2. CASE ~log_active
    <3>1. todo' = <<Op("pre_buffer", "sample")>>
      BY <1>1, <2>2
    <3>2. <<Op("pre_buffer", "sample")>> # <<Op("entry", "sample")>>
      BY OtherCalls DEF Op
    <3> QED  BY <3>1, <3>2 DEF TodoInv, Samples
  <2> QED  BY <2>1, <2>2
<1>5. TraceInv' /\ NameInv'
  BY <1>1 DEF LogInv, TraceInv, NameInv
<1> QED
  BY <1>2, <1>3, <1>4, <1>5 DEF LogInv

LEMMA ConsumeOK == LogInv /\ Consume => LogInv'
<1> SUFFICES ASSUME LogInv, Consume PROVE LogInv'
  OBVIOUS
<1>1. UNCHANGED <<mainVars, todo, logVars, refusals>>
  BY DEF Consume
<1>2. /\ queue \in Seq(Request)
      /\ \A i \in DOMAIN queue : queue[i].cmd = "OPEN_LOG" => current_path \in Paths
  BY DEF LogInv, TypeOK, NameInv
<1>3. /\ JobInv' /\ queue' \in Seq(Request) /\ current_path' = current_path
      /\ (job.busy \/ job.left = <<>>)'
      /\ \A i \in DOMAIN queue' : queue'[i].cmd = "OPEN_LOG" => current_path' \in Paths
  <2>1. CASE S!Start
    <3>1. queue # <<>> /\ queue' = Tail(queue) /\ StartJob(Head(queue))
      BY <2>1, ServiceSteps
    <3>2. /\ Head(queue) \in Request /\ Head(queue) = queue[1] /\ 1 \in DOMAIN queue
          /\ queue' \in Seq(Request)
          /\ \A i \in DOMAIN queue' : i + 1 \in DOMAIN queue /\ queue'[i] = queue[i + 1]
      BY <1>2, <3>1
    <3>3. Head(queue).cmd = "OPEN_LOG" => current_path \in Paths
      BY <1>2, <3>2
    <3>4. JobInv'
      BY <3>1, <3>2, <3>3, StartJobOK DEF LogInv
    <3>5. current_path' = current_path /\ job'.busy
      BY <3>1 DEF StartJob
    <3> QED  BY <1>2, <3>2, <3>4, <3>5
  <2>2. CASE S!Work
    <3>1. Perform /\ UNCHANGED queue
      BY <2>2, ServiceSteps
    <3>2. JobInv'
      BY <3>1, PerformOK DEF LogInv
    <3>3. current_path' = current_path
      BY <3>1 DEF Perform, WriteElement, AbandonChunk, FinishUnsynced, FinishSynced,
         OpenLog, CloseLog
    <3>4. job'.busy \/ job'.left = <<>>
      <4>1. CASE WriteElement
        <5>1. job \in [req : Request, left : Seq(Element), busy : BOOLEAN]
          BY DEF LogInv, JobInv, JobTypeOK
        <5> QED  BY <4>1, <5>1 DEF WriteElement
      <4>2. CASE job' = NoJob
        BY <4>2 DEF NoJob
      <4> QED  BY <3>1, <4>1, <4>2 DEF Perform, AbandonChunk, FinishUnsynced, FinishSynced,
                 OpenLog, CloseLog
    <3> QED  BY <1>2, <3>1, <3>2, <3>3, <3>4
  <2> QED  BY <2>1, <2>2 DEF Consume
<1>4. TypeOK' /\ (orphans <= refusals)'
  BY <1>1, <1>3 DEF LogInv, TypeOK, JobInv, mainVars, logVars
<1>5. TodoInv' /\ TraceInv' /\ NameInv'
  BY <1>1, <1>3 DEF LogInv, TodoInv, TraceInv, NameInv, mainVars, logVars
<1> QED
  BY <1>3, <1>4, <1>5 DEF LogInv

LEMMA LogStep == LogInv /\ [Next]_vars => LogInv'
<1> SUFFICES ASSUME LogInv, [Next]_vars PROVE LogInv'
  OBVIOUS
<1>1. CASE Main
  BY <1>1, MainStepsOK, SetNameOK, RocketDataLoggingOK, OpenLogCallOK, FormatCallOK,
     NamesCallOK, TrackDataOK, QuietCallOK DEF Main
<1>2. CASE StopLog
  BY <1>2, StopLogOK
<1>3. CASE Consume
  BY <1>3, ConsumeOK
<1>4. CASE UNCHANGED vars
  <2>1. UNCHANGED <<fileVars, job, faults>> /\ current_path' = current_path
    BY <1>4 DEF vars, jobVars, fileVars
  <2>2. JobInv'
    BY <2>1, CallerOK DEF LogInv
  <2> QED  BY <1>4, <2>2 DEF LogInv, TypeOK, JobInv, TodoInv, TraceInv, NameInv, vars, mainVars,
             logVars, jobVars
<1> QED
  BY <1>1, <1>2, <1>3, <1>4 DEF Next

LEMMA LogInvariant == Spec => []LogInv
BY LogInit, LogStep, PTL DEF Spec

\* Every variable of the flight log and of its datalogger keeps its type, for
\* any number of samples, refused allocations and failing calls: whatever the
\* heap refuses, what is left of the calls stays one of the sequences of calls
\* the code makes.
THEOREM TypeCorrect == Spec => []TypeOK
<1>1. LogInv => TypeOK
  BY DEF LogInv
<1> QED
  BY <1>1, LogInvariant, PTL
--------------------------------------------------------------------------------
(* The flight log as a user of the datalogger *)

\* A request queued, with a path for the one that opens a log, is one submitted.
LEMMA QueuedIsSubmitted ==
  ASSUME NEW r \in Request, queue' = Append(queue, r), UNCHANGED <<fileVars, job, faults>>,
         IF r.cmd = "OPEN_LOG" THEN current_path' \in Paths ELSE UNCHANGED current_path
  PROVE  S!Next
<1>1. r \in S!Request
  BY DEF Request, S!Request, Cmds, S!Cmds, DataCmds, S!DataCmds
<1>2. S!Submit(r)
  BY DEF S!Submit, S!fileVars, fileVars
<1> QED
  BY <1>1, <1>2 DEF S!Next

\* Each call of the main thread hands over one request, or none.
LEMMA CallIsSubmitted ==
  ASSUME LogInv, OpenLogCall \/ FormatCall \/ NamesCall \/ TrackData
  PROVE  S!Next \/ UNCHANGED <<queue, jobVars>>
<1>1. CASE OpenLogCall
  <2>1. CASE /\ queue' = Append(queue, Req("OPEN_LOG", NoPayload))
             /\ current_path' = log_name
    <3>1. log_name \in Paths
      BY <1>1, OpenIsNamed DEF OpenLogCall
    <3>2. UNCHANGED <<fileVars, job, faults>> /\ Req("OPEN_LOG", NoPayload).cmd = "OPEN_LOG"
      BY <1>1 DEF OpenLogCall, Req
    <3> QED  BY <2>1, <3>1, <3>2, RequestTypes, QueuedIsSubmitted
  <2>2. CASE UNCHANGED <<queue, current_path>>
    BY <1>1, <2>2 DEF OpenLogCall, jobVars, fileVars
  <2> QED  BY <1>1, <2>1, <2>2 DEF OpenLogCall, Req
<1>2. ASSUME NEW r \in Request, S!Submit(r)
      PROVE  S!Next
  <2>1. r \in S!Request
    BY DEF Request, S!Request, Cmds, S!Cmds, DataCmds, S!DataCmds
  <2> QED  BY <1>2, <2>1 DEF S!Next
<1>3. /\ NextOp("format") \/ NextOp("names") => Arg \in {"track0", "track1"}
      /\ NextOp("event") => Arg \in M!Events
      /\ NextOp("entry") => Arg = "sample"
  BY CallArgs
<1>4. CASE FormatCall
  <2>1. Req("LOG_TRACK_FORMAT", Arg) \in Request
    BY <1>3, <1>4, RequestTypes DEF FormatCall
  <2> QED  BY <1>2, <1>4, <2>1 DEF FormatCall, Req
<1>5. CASE NamesCall
  <2>1. Req("LOG_TRACK_NAMES", Arg) \in Request
    BY <1>3, <1>5, RequestTypes DEF NamesCall
  <2> QED  BY <1>2, <1>5, <2>1 DEF NamesCall, Req
<1>6. CASE TrackData
  <2>1. Req("LOG_TRACK_DATA", Arg) \in Request
    BY <1>3, <1>6, RequestTypes DEF TrackData
  <2> QED  BY <1>2, <1>6, <2>1 DEF TrackData, Req
<1> QED
  BY <1>1, <1>4, <1>5, <1>6

\* So every step of the flight is one of the service, or changes nothing of it.
LEMMA ServiceStep == LogInv /\ [Next]_vars => [S!Next]_(S!serviceVars)
<1> SUFFICES ASSUME LogInv, [Next]_vars
             PROVE  S!Next \/ UNCHANGED <<queue, jobVars>>
  BY DEF S!serviceVars, S!jobVars, S!fileVars, jobVars, fileVars
<1>1. CASE OpenLogCall \/ FormatCall \/ NamesCall \/ TrackData
  BY <1>1, CallIsSubmitted
<1>2. CASE \/ Boot \/ rocket_data_logging_set_name \/ Sample \/ FlightstateUpdate
           \/ RocketDataLogging \/ Activate \/ PreBuffer \/ ScheduleClose
  BY <1>2 DEF Boot, rocket_data_logging_set_name, Sample, FlightstateUpdate,
     RocketDataLogging, Activate, PreBuffer, ScheduleClose
<1>3. CASE StopLog
  <2>1. CASE S!Submit(Req("CLOSE_LOG", NoPayload))
    <3>1. Req("CLOSE_LOG", NoPayload) \in S!Request
      BY RequestTypes DEF Request, S!Request, Cmds, S!Cmds, DataCmds, S!DataCmds
    <3> QED  BY <2>1, <3>1 DEF S!Next
  <2> QED  BY <1>3, <2>1 DEF StopLog, Req
<1>4. CASE Consume
  BY <1>4 DEF Consume, S!Next
<1>5. CASE UNCHANGED vars
  BY <1>5 DEF vars
<1> QED
  BY <1>1, <1>2, <1>3, <1>4, <1>5 DEF Next, Main

\* Main loop, callbacks and delayed work use the datalogger as LogService
\* specifies it, whatever the heap refuses and the file system fails to do.
THEOREM UsesLogService == Spec => LogServiceUsed
<1>1. Init => S!Init
  BY DEF Init
<1> QED
  BY <1>1, LogInvariant, ServiceStep, PTL DEF Spec, LogServiceUsed, S!Spec

\* The file of a flight holds at most one torn chunk per call of the file system
\* that failed, even when the heap refuses requests.
THEOREM FlightChunksWhole == Spec => []WholeChunks
<1>1. LogInv => WholeChunks
  BY FilesInOrder DEF LogInv
<1> QED
  BY <1>1, LogInvariant, PTL

\* And a power loss at any moment of the flight leaves the format and the names
\* of every track the thread is done with, and what was written before them.
THEOREM FlightMetadataDurable == Spec => []MetadataDurable
<1>1. LogInv => MetadataDurable
  BY FilesInOrder DEF LogInv
<1> QED
  BY <1>1, LogInvariant, PTL
--------------------------------------------------------------------------------
(* The header and the events of a file *)

LEMMA HeaderIs ==
  /\ Len(Header) = 8
  /\ Header[1] = Head2("LOG_TRACK_FORMAT", "track0") /\ Header[2] = Body("LOG_TRACK_FORMAT", "track0")
  /\ Header[3] = Head2("LOG_TRACK_NAMES", "track0") /\ Header[4] = Body("LOG_TRACK_NAMES", "track0")
  /\ Header[5] = Head2("LOG_TRACK_FORMAT", "track1") /\ Header[6] = Body("LOG_TRACK_FORMAT", "track1")
  /\ Header[7] = Head2("LOG_TRACK_NAMES", "track1") /\ Header[8] = Body("LOG_TRACK_NAMES", "track1")
<1>1. \A t \in {"track0", "track1"} : HeaderOf(t) \in Seq(Element) /\ Len(HeaderOf(t)) = 4
  <2> SUFFICES ASSUME NEW t \in {"track0", "track1"}
               PROVE  HeaderOf(t) \in Seq(Element) /\ Len(HeaderOf(t)) = 4
    OBVIOUS
  <2>1. \A c \in {"LOG_TRACK_FORMAT", "LOG_TRACK_NAMES"} :
           Head2(c, t) \in Element /\ Body(c, t) \in Element
    BY PayloadAssumption DEF Head2, Body, Element, Cmds, DataCmds
  <2> QED  BY <2>1 DEF HeaderOf
<1>2. /\ Len(Header) = 8
      /\ \A i \in 1..8 : Header[i] = IF i <= 4 THEN HeaderOf("track0")[i]
                                               ELSE HeaderOf("track1")[i - 4]
  <2>1. /\ HeaderOf("track0") \in Seq(Element) /\ Len(HeaderOf("track0")) = 4
        /\ HeaderOf("track1") \in Seq(Element) /\ Len(HeaderOf("track1")) = 4
    BY <1>1
  <2> QED  BY <2>1, ConcatProperties DEF Header
<1>3. \A t : /\ HeaderOf(t)[1] = Head2("LOG_TRACK_FORMAT", t)
             /\ HeaderOf(t)[2] = Body("LOG_TRACK_FORMAT", t)
             /\ HeaderOf(t)[3] = Head2("LOG_TRACK_NAMES", t)
             /\ HeaderOf(t)[4] = Body("LOG_TRACK_NAMES", t)
  BY DEF HeaderOf
<1> QED
  BY <1>2, <1>3

\* The chunks of the four header requests make up the header.
LEMMA HeaderChunks ==
  \A k \in 1..4 : /\ Len(Chunk(HeaderReq[k])) = 2
                  /\ Chunk(HeaderReq[k])[1] = Header[2 * k - 1]
                  /\ Chunk(HeaderReq[k])[2] = Header[2 * k]
                  /\ HeaderReq[k].cmd \in MetadataCmds
<1> SUFFICES ASSUME NEW k \in {1, 2, 3, 4}
             PROVE /\ Len(Chunk(HeaderReq[k])) = 2
                   /\ Chunk(HeaderReq[k])[1] = Header[2 * k - 1]
                   /\ Chunk(HeaderReq[k])[2] = Header[2 * k]
                   /\ HeaderReq[k].cmd \in MetadataCmds
  OBVIOUS
<1>1. HeaderReq[k].cmd \in MetadataCmds
  BY DEF HeaderReq, Req, MetadataCmds
<1>2. Chunk(HeaderReq[k]) = <<Part("head", HeaderReq[k]), Part("body", HeaderReq[k])>>
  BY <1>1 DEF Chunk, MetadataCmds, DataCmds
<1>3. \A c, a : /\ Part("head", Req(c, a)) = Head2(c, a)
                /\ Part("body", Req(c, a)) = Body(c, a)
  BY DEF Part, Req, Head2, Body
<1>4. Part("head", HeaderReq[k]) = Header[2 * k - 1] /\ Part("body", HeaderReq[k]) = Header[2 * k]
  BY <1>3, HeaderIs DEF HeaderReq
<1> QED
  BY <1>1, <1>2, <1>4

\* None of the header is an event.
LEMMA HeaderNoEvent == \A i \in 1..8 : ~IsEvent(Header[i])
<1> SUFFICES ASSUME NEW i \in {1, 2, 3, 4, 5, 6, 7, 8} PROVE ~IsEvent(Header[i])
  OBVIOUS
<1> QED
  BY HeaderIs DEF IsEvent, Head2, Body

LEMMA LoggableEventsAre ==
  ASSUME trace \in Seq(M!Events)
  PROVE  /\ Len(trace) < 4 => Len(LoggableEvents) = 0
         /\ Len(trace) >= 4 => Len(LoggableEvents) = Len(trace) - 3
         /\ Len(LoggableEvents) \in Nat
         /\ \A k \in 1..Len(LoggableEvents) :
              k + 3 \in 1..Len(trace) /\ LoggableEvents[k] = trace[k + 3]
<1>1. CASE Len(trace) < 4
  BY <1>1 DEF LoggableEvents
<1>2. CASE Len(trace) >= 4
  <2>1. LoggableEvents = SubSeq(trace, 4, Len(trace)) /\ Len(trace) \in Nat
    BY <1>2 DEF LoggableEvents
  <2>2. \A i \in 4..Len(trace) : trace[i] \in M!Events
    OBVIOUS
  <2>3. Len(LoggableEvents) = Len(trace) - 4 + 1
        /\ \A i \in 1..(Len(trace) - 4 + 1) : LoggableEvents[i] = trace[4 + i - 1]
    BY <1>2, <2>1, <2>2, SubSeqProperties
  <2> QED  BY <1>2, <2>1, <2>3
<1> QED
  BY <1>1, <1>2, LastEvent

\* An element more: an event has to be the next one of the flight.
LEMMA TellsAppend ==
  ASSUME NEW f \in Seq(Element), NEW e \in Element, NEW n \in Nat,
         TellsFlight(f), EventCount(f, Len(f)) = n,
         IsEvent(e) => n + 1 <= Len(LoggableEvents) /\ e.arg = LoggableEvents[n + 1]
  PROVE  /\ TellsFlight(Append(f, e))
         /\ EventCount(Append(f, e), Len(Append(f, e))) = IF IsEvent(e) THEN n + 1 ELSE n
<1> DEFINE g == Append(f, e)
<1> PICK m \in Nat : m = Len(f)
  OBVIOUS
<1>1. Len(g) = m + 1 /\ g[m + 1] = e /\ \A i \in 1..m : g[i] = f[i]
  OBVIOUS
<1> HIDE DEF g
<1>2. \A i \in 0..m : EventCount(g, i) = EventCount(f, i)
  <2> SUFFICES ASSUME NEW i \in 0..m PROVE EventCount(g, i) = EventCount(f, i)
    OBVIOUS
  <2>1. i \in Nat /\ \A j \in 1..i : g[j] = f[j]
    BY <1>1
  <2> QED  BY <2>1, CountSame
<1>3. EventCount(g, m + 1) = n + (IF IsEvent(e) THEN 1 ELSE 0)
  <2>1. EventCount(g, m) = n
    BY <1>2
  <2>2. EventCount(g, m + 1) = EventCount(g, m) + (IF IsEvent(g[m + 1]) THEN 1 ELSE 0)
    BY CountNext
  <2> QED  BY <1>1, <2>1, <2>2
<1>4. TellsFlight(g)
  <2> SUFFICES ASSUME NEW i \in 1..(m + 1), IsEvent(g[i])
               PROVE  /\ EventCount(g, i) <= Len(LoggableEvents)
                      /\ g[i].arg = LoggableEvents[EventCount(g, i)]
    BY <1>1 DEF TellsFlight
  <2>1. CASE i = m + 1
    BY <1>1, <1>3, <2>1
  <2>2. CASE i \in 1..m
    <3>1. g[i] = f[i] /\ EventCount(g, i) = EventCount(f, i)
      BY <1>1, <1>2, <2>2
    <3> QED  BY <2>2, <3>1 DEF TellsFlight
  <2> QED  BY <2>1, <2>2
<1> QED
  BY <1>1, <1>3, <1>4 DEF g

\* A file without an event tells of no flight wrongly.
LEMMA TellsNothing ==
  ASSUME NEW f \in Seq(Element), \A i \in 1..Len(f) : ~IsEvent(f[i])
  PROVE  TellsFlight(f) /\ EventCount(f, Len(f)) = 0
<1>1. Len(f) \in Nat
  OBVIOUS
<1> QED
  BY <1>1, CountNone DEF TellsFlight

\* What fires later does not change what a file has told.
LEMMA TellsGrows ==
  ASSUME trace \in Seq(M!Events), trace' \in Seq(M!Events), Len(trace) <= Len(trace'),
         \A i \in 1..Len(trace) : trace'[i] = trace[i]
  PROVE  /\ Len(LoggableEvents) <= Len(LoggableEvents')
         /\ \A k \in 1..Len(LoggableEvents) : LoggableEvents'[k] = LoggableEvents[k]
<1>1. /\ Len(trace) < 4 => Len(LoggableEvents) = 0
      /\ Len(trace) >= 4 => Len(LoggableEvents) = Len(trace) - 3
      /\ Len(LoggableEvents) \in Nat
      /\ \A k \in 1..Len(LoggableEvents) :
           k + 3 \in 1..Len(trace) /\ LoggableEvents[k] = trace[k + 3]
  BY LoggableEventsAre
<1>2.   /\ Len(trace') < 4 => Len(LoggableEvents') = 0
        /\ Len(trace') >= 4 => Len(LoggableEvents') = Len(trace') - 3
        /\ Len(LoggableEvents') \in Nat
        /\ \A k \in 1..Len(LoggableEvents') :
             k + 3 \in 1..Len(trace') /\ LoggableEvents'[k] = trace'[k + 3]
  <2>1. CASE Len(trace') < 4
    BY <2>1 DEF LoggableEvents
  <2>2. CASE Len(trace') >= 4
    <3>1. LoggableEvents' = SubSeq(trace', 4, Len(trace')) /\ Len(trace') \in Nat
      BY <2>2 DEF LoggableEvents
    <3>2. \A i \in 4..Len(trace') : trace'[i] \in M!Events
      OBVIOUS
    <3>3. Len(LoggableEvents') = Len(trace') - 4 + 1
          /\ \A i \in 1..(Len(trace') - 4 + 1) : LoggableEvents'[i] = trace'[4 + i - 1]
      BY <2>2, <3>1, <3>2, SubSeqProperties
    <3> QED  BY <2>2, <3>1, <3>3
  <2> QED  BY <2>1, <2>2
<1>3. Len(trace) \in Nat /\ Len(trace') \in Nat
  OBVIOUS
<1>4. Len(LoggableEvents) <= Len(LoggableEvents')
  BY <1>1, <1>2, <1>3
<1>5. ASSUME NEW k \in 1..Len(LoggableEvents) PROVE LoggableEvents'[k] = LoggableEvents[k]
  <2>1. k \in 1..Len(LoggableEvents')
    BY <1>1, <1>2, <1>4
  <2> QED  BY <1>1, <1>2, <2>1
<1> QED
  BY <1>4, <1>5
--------------------------------------------------------------------------------
(* The calls move the end of the chain *)

LEMMA Places ==
  /\ \A n \in Nat, k \in 0..6 : At(n, k) \in Place
  /\ \A n, k : At(n, k).ev = n /\ At(n, k).at = k
  /\ \A s \in Place : s.ev \in Nat /\ s.at \in 0..6 /\ s = At(s.ev, s.at)
BY DEF Place, At

\* Where the main thread has the log, by the call it makes next.
LEMMA MainTells ==
  ASSUME NEW t, MainAt(t)
  PROVE  /\ todo \in {<<>>} \cup Samples =>
              t = At(Len(trace), IF Len(trace) < 4 THEN 0 ELSE IF close_work = "done" THEN 6 ELSE 5)
         /\ NextOp("event") =>
              \/ /\ trace # <<>> /\ todo = Event(trace[Len(trace)])
                 /\ t = At(Len(trace) - 1, IF Len(trace) < 4 THEN 0 ELSE 5)
              \/ todo = Liftoff /\ t = At(Len(trace) - 2, 5)
         /\ NextOp("schedule_close") => todo = Closing /\ t = At(Len(trace) - 1, 5)
         /\ NextOp("open") => todo = Starting[1] /\ t = At(3, 0)
         /\ NextOp("format") => \/ todo = Starting[2] /\ t = At(3, 1)
                                \/ todo = Starting[4] /\ t = At(3, 3)
         /\ NextOp("names") => \/ todo = Starting[3] /\ t = At(3, 2)
                               \/ todo = Starting[5] /\ t = At(3, 4)
         /\ NextOp("activate") => todo = Starting[6] /\ t = At(3, 5)
<1>1. \A op, arg : Op(op, arg).op = op
  BY DEF Op
<1>2. CASE /\ todo \in {<<>>} \cup Samples
           /\ t = At(Len(trace), IF Len(trace) < 4 THEN 0
                                 ELSE IF close_work = "done" THEN 6 ELSE 5)
  <2>1. todo = <<>> \/ Head(todo).op \in {"entry", "pre_buffer"}
    BY <1>1, <1>2, OtherCalls DEF Samples
  <2> QED  BY <1>2, <2>1 DEF NextOp
<1>3. ASSUME todo = <<>> \/ Head(todo).op \in {"entry", "pre_buffer"}
      PROVE  todo \notin {Event(e) : e \in {trace[Len(trace)]}} /\ todo # Liftoff /\ todo # Closing
             /\ \A k \in 1..6 : todo # Starting[k]
  <2>1. Head(Event(trace[Len(trace)])).op = "event" /\ Event(trace[Len(trace)]) # <<>>
    BY <1>1, OtherCalls DEF Event
  <2>2. Head(Liftoff).op = "event" /\ Liftoff # <<>>
    BY <1>1, OtherCalls DEF Liftoff
  <2>3. Head(Closing).op = "schedule_close" /\ Closing # <<>>
    BY <1>1, OtherCalls DEF Closing
  <2>4. \A k \in {1, 2, 3, 4, 5, 6} :
          Starting[k] # <<>> /\ Head(Starting[k]).op \in {"open", "format", "names", "activate"}
    <3>1. \A k \in {1, 2, 3, 4, 5, 6} : Starting[k] # <<>>
      BY DEF Starting
    <3> QED  BY <1>1, <3>1, StartingCalls
  <2> QED  BY <1>3, <2>1, <2>2, <2>3, <2>4
<1>4. todo \in {<<>>} \cup Samples => todo = <<>> \/ Head(todo).op \in {"entry", "pre_buffer"}
  BY <1>1, OtherCalls DEF Samples
<1>5. CASE /\ trace # <<>> /\ todo = Event(trace[Len(trace)])
           /\ t = At(Len(trace) - 1, IF Len(trace) < 4 THEN 0 ELSE 5)
  BY <1>1, <1>3, <1>4, <1>5, OtherCalls DEF NextOp
<1>6. CASE todo = Liftoff /\ t = At(Len(trace) - 2, 5)
  BY <1>1, <1>3, <1>4, <1>6, OtherCalls DEF NextOp
<1>7. ASSUME NEW k \in 1..6, todo = Starting[k], t = At(3, k - 1)
      PROVE  /\ todo \notin {<<>>} \cup Samples /\ k \in {1, 2, 3, 4, 5, 6}
             /\ ~NextOp("event") /\ ~NextOp("schedule_close")
             /\ NextOp("open") => k = 1
             /\ NextOp("format") => k \in {2, 4}
             /\ NextOp("names") => k \in {3, 5}
             /\ NextOp("activate") => k = 6
  <2>1. k \in {1, 2, 3, 4, 5, 6}
    OBVIOUS
  <2>2. todo \notin {<<>>} \cup Samples
    BY <1>3, <1>4, <1>7
  <2> QED  BY <1>1, <1>7, <2>1, <2>2, StartingCalls DEF NextOp
<1>8. CASE todo = Closing /\ t = At(Len(trace) - 1, 5)
  BY <1>1, <1>3, <1>4, <1>8, OtherCalls DEF NextOp
<1>9. CASE \E k \in 1..6 : todo = Starting[k] /\ t = At(3, k - 1)
  <2> PICK k \in 1..6 : todo = Starting[k] /\ t = At(3, k - 1)
    BY <1>9
  <2> QED  BY <1>7
<1> QED
  BY <1>2, <1>5, <1>6, <1>8, <1>9 DEF MainAt

\* An event in a file is at least the first.
LEMMA CountPositive ==
  ASSUME NEW f, NEW i \in Nat \ {0}, IsEvent(f[i])
  PROVE  EventCount(f, i) >= 1
<1>1. i - 1 \in Nat /\ (i - 1) + 1 = i
  OBVIOUS
<1>2. EventCount(f, i - 1) \in Nat
  BY <1>1, CountType
<1>3. EventCount(f, i) = EventCount(f, i - 1) + 1
  BY <1>1, CountNext
<1> QED
  BY <1>2, <1>3

\* What the calls do, and events that fire, leaves the thread where it is.
LEMMA WorkerStays ==
  ASSUME LogInv, LogInv', Len(trace) <= Len(trace'), \A i \in 1..Len(trace) : trace'[i] = trace[i],
         UNCHANGED <<fileVars, job, log_name>>, NEW s \in Place, WorkerAt(s)
  PROVE  WorkerAt(s)'
<1>1. /\ trace \in Seq(M!Events) /\ trace' \in Seq(M!Events) /\ image \in Seq(Element)
      /\ durable \in [Paths -> Seq(Element)]
      /\ UNCHANGED <<fd, pos, image, durable>>
      /\ Len(LoggableEvents) \in Nat /\ Len(LoggableEvents) <= Len(LoggableEvents')
      /\ Len(LoggableEvents') \in Nat
      /\ Len(trace) \in Nat /\ Len(trace') \in Nat
      /\ s.ev \in Nat
  <2>1. /\ trace \in Seq(M!Events) /\ trace' \in Seq(M!Events) /\ image \in Seq(Element)
        /\ durable \in [Paths -> Seq(Element)]
    BY DEF LogInv, TypeOK, JobTypeOK
  <2>2. UNCHANGED <<fd, pos, image, durable>>
    BY DEF fileVars
  <2>3. Len(LoggableEvents) \in Nat
    BY <2>1, LoggableEventsAre
  <2>4. Len(LoggableEvents) <= Len(LoggableEvents')
    BY <2>1, TellsGrows
  <2>5. Len(LoggableEvents') \in Nat
    <3>1. CASE Len(trace') < 4
      BY <3>1 DEF LoggableEvents
    <3>2. CASE Len(trace') >= 4
      BY <2>1, <3>2 DEF LoggableEvents
    <3> QED  BY <2>1, <3>1, <3>2
  <2>6. Len(trace) \in Nat /\ Len(trace') \in Nat /\ s.ev \in Nat
    BY <2>1, Places
  <2> QED  BY <2>1, <2>2, <2>3, <2>4, <2>5, <2>6
<1>2. \A k \in 1..Len(LoggableEvents) : LoggableEvents'[k] = LoggableEvents[k]
  BY <1>1, TellsGrows
<1>3. TellsFlight(image) => TellsFlight(image)'
  <2> SUFFICES ASSUME TellsFlight(image), NEW i \in 1..Len(image), IsEvent(image[i])
               PROVE  /\ EventCount(image, i) <= Len(LoggableEvents')
                      /\ image[i].arg = LoggableEvents'[EventCount(image, i)]
    BY <1>1 DEF TellsFlight
  <2>0. i \in Nat \ {0}
    BY <1>1
  <2>1. EventCount(image, i) \in Nat /\ EventCount(image, i) >= 1
    BY <2>0, CountType, CountPositive
  <2>2. EventCount(image, i) \in 1..Len(LoggableEvents)
        /\ image[i].arg = LoggableEvents[EventCount(image, i)]
    BY <1>1, <2>1 DEF TellsFlight
  <2> QED  BY <1>1, <1>2, <2>2
<1>4. log_name \in Paths /\ TellsFlight(durable[log_name]) => TellsFlight(durable[log_name])'
  <2> DEFINE f == durable[log_name]
  <2> SUFFICES ASSUME log_name \in Paths, TellsFlight(f), NEW i \in 1..Len(f), IsEvent(f[i])
               PROVE  /\ EventCount(f, i) <= Len(LoggableEvents')
                      /\ f[i].arg = LoggableEvents'[EventCount(f, i)]
    BY <1>1 DEF TellsFlight
  <2>0. f \in Seq(Element) /\ i \in Nat \ {0}
    BY <1>1
  <2> HIDE DEF f
  <2>1. EventCount(f, i) \in Nat /\ EventCount(f, i) >= 1
    BY <2>0, CountType, CountPositive
  <2>2. EventCount(f, i) \in 1..Len(LoggableEvents) /\ f[i].arg = LoggableEvents[EventCount(f, i)]
    BY <1>1, <2>0, <2>1 DEF TellsFlight
  <2> QED  BY <1>1, <1>2, <2>2
<1>5. UNCHANGED Writing /\ UNCHANGED Untouched
  BY <1>1 DEF Writing, Untouched
<1>6. ASSUME NEW n \in Nat, LogHolds(image, n) PROVE LogHolds(image, n)'
  BY <1>1, <1>3, <1>6 DEF LogHolds
<1>7. CASE s.at = 0 /\ Untouched /\ (job.busy => IsEventReq(job.req))
  BY <1>5, <1>7 DEF WorkerAt
<1>8. CASE s = At(3, 1) /\ Untouched /\ job.busy /\ job.req.cmd = "OPEN_LOG"
  BY <1>5, <1>8 DEF WorkerAt
<1>9. CASE \E k \in 0..4 : s = At(3, k + 1) /\ InHeader(k)
  BY <1>1, <1>5, <1>9 DEF WorkerAt, InHeader
<1>10. CASE s.at = 5 /\ s.ev >= 3 /\ InData(s.ev - 3)
  <2> DEFINE n == s.ev - 3
  <2>1. n \in Nat /\ EventDue' = EventDue
    BY <1>1, <1>10 DEF EventDue
  <2>2. EventDue => n >= 1 /\ n <= Len(LoggableEvents) /\ job.req.arg = LoggableEvents[n]
    BY <1>10 DEF InData
  <2>3. LogHolds(image, IF EventDue THEN n - 1 ELSE n)
    BY <1>10 DEF InData
  <2> HIDE DEF n
  <2>4. LogHolds(image, IF EventDue THEN n - 1 ELSE n)'
    BY <1>6, <2>1, <2>2, <2>3
  <2>5. EventDue => n <= Len(LoggableEvents') /\ job.req.arg = LoggableEvents'[n]
    BY <1>1, <1>2, <2>1, <2>2
  <2>6. InData(n)'
    BY <1>5, <1>10, <2>1, <2>2, <2>4, <2>5 DEF InData, n
  <2> QED  BY <1>10, <2>6 DEF WorkerAt, n
<1>11. CASE /\ s.at = 6 /\ s.ev \in 4..Len(trace) /\ trace[s.ev] = "touchdown"
            /\ \/ Writing /\ LogHolds(image, s.ev - 3) /\ job.busy /\ job.req.cmd = "CLOSE_LOG"
               \/ /\ fd = NoPath /\ log_name \in Paths /\ LogHolds(durable[log_name], s.ev - 3)
                  /\ job.busy => IsSampleReq(job.req)
  <2>1. s.ev \in 4..Len(trace') /\ trace'[s.ev] = "touchdown"
    BY <1>1, <1>11
  <2>2. s.ev - 3 \in Nat
    BY <1>1, <1>11
  <2>3. CASE Writing /\ LogHolds(image, s.ev - 3) /\ job.busy /\ job.req.cmd = "CLOSE_LOG"
    BY <1>5, <1>6, <1>11, <2>1, <2>2, <2>3 DEF WorkerAt
  <2>4. CASE /\ fd = NoPath /\ log_name \in Paths /\ LogHolds(durable[log_name], s.ev - 3)
             /\ job.busy => IsSampleReq(job.req)
    <3>1. LogHolds(durable[log_name], s.ev - 3)'
      BY <1>1, <1>4, <2>2, <2>4 DEF LogHolds
    <3> QED  BY <1>1, <1>11, <2>1, <2>4, <3>1 DEF WorkerAt
  <2> QED  BY <1>11, <2>3, <2>4
<1> QED
  BY <1>7, <1>8, <1>9, <1>10, <1>11 DEF WorkerAt

\* A call that hands over nothing leaves both ends of the chain.
LEMMA PipeStays ==
  ASSUME LogInv, LogInv', NEW s \in Place, NEW t \in Place, Pipe(s, t),
         UNCHANGED <<fileVars, job, log_name, trace, queue>>, MainAt(t)'
  PROVE  Pipe(s, t)'
<1>1. WorkerAt(s)'
  <2>1. Len(trace) <= Len(trace') /\ \A i \in 1..Len(trace) : trace'[i] = trace[i]
    BY LastEvent DEF LogInv, TypeOK
  <2> QED  BY <2>1, WorkerStays DEF Pipe
<1> QED
  BY <1>1 DEF Pipe, CloseOnTheWay

\* A call that hands over a request moves the end.
LEMMA PipeSubmit ==
  ASSUME LogInv, LogInv', NEW s \in Place, NEW t \in Place, Pipe(s, t),
         UNCHANGED <<fileVars, job, log_name, trace>>,
         NEW r \in Request, queue' = Append(queue, r),
         NEW u \in Place, Follows(trace, t, r, u), MainAt(u)'
  PROVE  Pipe(s, u)'
<1>1. WorkerAt(s)'
  <2>1. Len(trace) <= Len(trace') /\ \A i \in 1..Len(trace) : trace'[i] = trace[i]
    BY LastEvent DEF LogInv, TypeOK
  <2> QED  BY <2>1, WorkerStays DEF Pipe
<1>2. Chain(trace', queue', s, u)
  <2>1. queue \in Seq(Request)
    BY DEF LogInv, TypeOK
  <2> QED  BY <2>1, ChainAppend DEF Pipe
<1>3. CloseOnTheWay(s, u)'
  <2> SUFFICES ASSUME u.at = 6, s.at # 6
               PROVE  \E i \in DOMAIN queue' : queue'[i].cmd = "CLOSE_LOG"
    BY DEF CloseOnTheWay
  <2>1. /\ DOMAIN queue = 1..Len(queue) /\ Len(queue) \in Nat
        /\ DOMAIN queue' = 1..(Len(queue) + 1) /\ queue'[Len(queue) + 1] = r
        /\ \A i \in 1..Len(queue) : queue'[i] = queue[i]
    BY DEF LogInv, TypeOK
  <2>2. t.at = 6 \/ r.cmd = "CLOSE_LOG"
    <3>1. \A k \in 1..4 : At(3, k + 1).at # 6
      BY Places
    <3> QED  BY <3>1, Places DEF Follows
  <2>3. CASE t.at = 6
    <3>1. PICK i \in DOMAIN queue : queue[i].cmd = "CLOSE_LOG"
      BY <2>3 DEF Pipe, CloseOnTheWay
    <3>2. i \in DOMAIN queue' /\ queue'[i] = queue[i]
      BY <2>1
    <3> QED  BY <3>1, <3>2
  <2>4. CASE r.cmd = "CLOSE_LOG"
    <3>1. Len(queue) + 1 \in DOMAIN queue'
      BY <2>1
    <3> QED  BY <2>1, <2>4, <3>1
  <2> QED  BY <2>2, <2>3, <2>4
<1> QED
  BY <1>1, <1>2, <1>3 DEF Pipe

\* None of the failures of the past is undone.
LEMMA FailuresStay ==
  ASSUME LogInv, [Next]_vars, NoFailure'
  PROVE  NoFailure /\ UNCHANGED <<refusals, faults>>
<1>1. refusals \in Nat /\ faults \in Nat
  BY RocketLoggingAssumption DEF LogInv, TypeOK, JobTypeOK
<1>2. refusals' = refusals \/ refusals' = refusals + 1
  <2>1. CASE Main
    BY <2>1 DEF Main, Boot, rocket_data_logging_set_name, Sample, FlightstateUpdate,
       RocketDataLogging, OpenLogCall, FormatCall, NamesCall, Activate, TrackData, PreBuffer,
       ScheduleClose, Refused, logVars
  <2>2. CASE StopLog \/ Consume \/ UNCHANGED vars
    BY <2>2 DEF StopLog, Consume, Refused, vars
  <2> QED  BY <2>1, <2>2 DEF Next
<1>3. faults' = faults \/ faults' = faults + 1
  <2>1. CASE Main \/ StopLog
    BY <2>1, ServiceSteps DEF Main, Boot, rocket_data_logging_set_name, Sample,
       FlightstateUpdate, RocketDataLogging, OpenLogCall, FormatCall, NamesCall, Activate,
       TrackData, PreBuffer, ScheduleClose, StopLog, jobVars
  <2>2. CASE Consume
    <3>1. (\E r : StartJob(r)) \/ Perform
      BY <2>2, ServiceSteps DEF Consume
    <3> QED  BY <3>1 DEF StartJob, Perform, WriteElement, AbandonChunk, FinishUnsynced,
               FinishSynced, OpenLog, CloseLog, Fault
  <2>3. CASE UNCHANGED vars
    BY <2>3 DEF vars, jobVars
  <2> QED  BY <2>1, <2>2, <2>3 DEF Next
<1> QED
  BY <1>1, <1>2, <1>3 DEF NoFailure

\* What the events that fire at once, if any, leave to be done.
LEMMA Fired ==
  ASSUME LogInv, [M!Next]_trace, todo' = CallbacksFired(trace')
  PROVE  \/ UNCHANGED trace /\ todo' = <<>>
         \/ /\ Len(trace') = Len(trace) + 1 /\ \A i \in 1..Len(trace) : trace'[i] = trace[i]
            /\ close_work = "idle"
            /\ \/ todo' = Event(trace'[Len(trace')]) /\ Len(trace') # 4
               \/ todo' = Starting[1] /\ Len(trace') = 4
               \/ todo' = Closing /\ Len(trace') > 4
         \/ /\ Len(trace) = 4 /\ Len(trace') = 6 /\ \A i \in 1..4 : trace'[i] = trace[i]
            /\ close_work = "idle" /\ todo' = Liftoff
<1>0. /\ trace \in Seq(M!Events) /\ TraceInv /\ Len(trace) \in Nat
      /\ M!Last(trace) # "touchdown" => close_work = "idle"
  BY LastEvent DEF LogInv, TypeOK, TraceInv
<1>1. CASE UNCHANGED trace
  BY <1>1 DEF CallbacksFired
<1>2. ASSUME NEW e \in M!Events, trace' = Append(trace, e), M!Last(trace) # "touchdown",
             e = "pad_ready" <=> Len(trace) = 3, e = "touchdown" => Len(trace) >= 5
      PROVE  /\ Len(trace') = Len(trace) + 1 /\ \A i \in 1..Len(trace) : trace'[i] = trace[i]
             /\ close_work = "idle"
             /\ \/ todo' = Event(trace'[Len(trace')]) /\ Len(trace') # 4
                \/ todo' = Starting[1] /\ Len(trace') = 4
                \/ todo' = Closing /\ Len(trace') > 4
  <2>1. /\ Len(trace') = Len(trace) + 1 /\ trace'[Len(trace')] = e /\ M!Last(trace') = e
        /\ \A i \in 1..Len(trace) : trace'[i] = trace[i]
    BY <1>0, <1>2, AppendEvent
  <2>2. todo' = Callbacks(e)
    BY <1>0, <2>1 DEF CallbacksFired
  <2> PICK n \in Nat : n = Len(trace)
    BY <1>0
  <2>a. Len(trace') = n + 1 /\ (n = 3 => e = "pad_ready") /\ (e = "pad_ready" => n = 3)
    BY <1>2, <2>1
  <2>3. CASE e = "pad_ready"
    <3>1. n = 3
      BY <2>a, <2>3
    <3>2. Len(trace') = 4 /\ todo' = Starting[1]
      BY <2>a, <2>2, <2>3, <3>1, CallbacksOf
    <3> QED  BY <1>0, <1>2, <2>1, <3>2
  <2>4. CASE e = "touchdown"
    BY <1>0, <1>2, <2>1, <2>2, <2>4, CallbacksOf
  <2>5. CASE e \notin {"pad_ready", "touchdown"}
    <3>1. Len(trace') # 4
      BY <2>a, <2>5
    <3>2. todo' = Event(trace'[Len(trace')])
      BY <2>1, <2>2, <2>5, CallbacksOf
    <3> QED  BY <1>0, <1>2, <2>1, <3>1, <3>2
  <2> QED  BY <2>3, <2>4, <2>5
<1>3. CASE M!Liftoff
  <2>1. trace' = Append(Append(trace, "ignition"), "liftoff") /\ M!Last(trace) = "pad_ready"
    BY <1>3 DEF M!Liftoff
  <2>2. Len(trace) = 4 /\ close_work = "idle"
    BY <1>0, <2>1, LastTells
  <2>3. "ignition" \in M!Events /\ "liftoff" \in M!Events
    BY DEF M!Events
  <2> DEFINE tr == Append(trace, "ignition")
  <2>a. /\ tr \in Seq(M!Events) /\ Len(tr) = Len(trace) + 1
        /\ \A i \in 1..Len(trace) : tr[i] = trace[i]
    BY <1>0, <2>3, AppendEvent
  <2>4. /\ trace' = Append(tr, "liftoff") /\ tr \in Seq(M!Events) /\ Len(tr) = 5
        /\ \A i \in 1..4 : tr[i] = trace[i]
    <3> HIDE DEF tr
    <3> QED  BY <2>1, <2>2, <2>a DEF tr
  <2> HIDE DEF tr
  <2>5. /\ Len(trace') = 6 /\ M!Last(trace') = "liftoff"
        /\ \A i \in 1..5 : trace'[i] = tr[i]
    <3>1. /\ Len(Append(tr, "liftoff")) = Len(tr) + 1
          /\ \A i \in 1..Len(tr) : Append(tr, "liftoff")[i] = tr[i]
          /\ M!Last(Append(tr, "liftoff")) = "liftoff"
      BY <2>3, <2>4, AppendEvent
    <3> QED  BY <2>4, <3>1
  <2>6. todo' = Callbacks("ignition") \o Callbacks("liftoff")
    BY <2>2, <2>5 DEF CallbacksFired
  <2>7. Callbacks("ignition") = Event("ignition") /\ Callbacks("liftoff") = Event("liftoff")
    BY CallbacksOf
  <2>8. \A a, b : <<a>> \o <<b>> = <<a, b>>
    BY PairConcat
  <2>9. todo' = Liftoff
    BY <2>6, <2>7, <2>8 DEF Event, Liftoff
  <2> QED  BY <2>2, <2>4, <2>5, <2>9
<1>4. CASE M!Boot \/ M!ProcessingReady \/ M!PadIdle \/ M!PadReady
  BY <1>0, <1>2, <1>4, LastTells DEF M!Boot, M!ProcessingReady, M!PadIdle, M!PadReady,
     M!FireAfter, M!Events
<1>5. CASE M!Burnout \/ M!Reignition \/ M!Apogee \/ M!Touchdown
  BY <1>0, <1>2, <1>5, LastTells DEF M!Burnout, M!Reignition, M!Apogee, M!Touchdown,
     M!FireAfter, M!Events
<1> QED
  BY <1>1, <1>2, <1>3, <1>4, <1>5 DEF M!Next

\* Before anything runs, both ends are at the start.
LEMMA PipeInit == Init => PipeOn
<1> SUFFICES ASSUME Init PROVE PipeOn
  OBVIOUS
<1>1. JobInit /\ queue = <<>> /\ trace = <<>> /\ todo = <<>>
  BY ServiceSteps DEF Init, M!Init
<1>2. At(0, 0) \in Place /\ At(0, 0).at = 0
  BY Places
<1>3. WorkerAt(At(0, 0))
  BY <1>1, <1>2 DEF WorkerAt, Untouched, JobInit, NoJob
<1>4. MainAt(At(0, 0))
  BY <1>1 DEF MainAt
<1>5. Chain(trace, queue, At(0, 0), At(0, 0))
  BY <1>1, <1>2, ChainEmpty
<1>6. CloseOnTheWay(At(0, 0), At(0, 0))
  BY <1>2 DEF CloseOnTheWay
<1> QED
  BY <1>2, <1>3, <1>4, <1>5, <1>6 DEF Pipe, PipeOn

LEMMA FirePipe ==
  ASSUME LogInv, LogInv', Boot \/ Sample \/ FlightstateUpdate,
         NEW s \in Place, NEW t \in Place, Pipe(s, t)
  PROVE  Pipe(s, t)'
<1>1. /\ todo = <<>> /\ [M!Next]_trace /\ todo' = CallbacksFired(trace')
      /\ UNCHANGED <<queue, close_work, log_name, fileVars, job>>
  <2>1. CASE Boot
    BY <2>1 DEF Boot, M!Next, logVars, jobVars, fileVars
  <2>2. CASE Sample
    BY <2>2 DEF Sample, M!Next, logVars, jobVars, fileVars
  <2>3. CASE FlightstateUpdate
    <3>1. [M!Next]_trace
      BY <2>3 DEF FlightstateUpdate, M!Next
    <3> QED  BY <2>3, <3>1 DEF FlightstateUpdate, logVars, jobVars, fileVars
  <2> QED  BY <2>1, <2>2, <2>3
<1>2. t = At(Len(trace), IF Len(trace) < 4 THEN 0 ELSE IF close_work = "done" THEN 6 ELSE 5)
  BY <1>1, MainTells DEF Pipe
<1>3. trace \in Seq(M!Events) /\ trace' \in Seq(M!Events) /\ queue \in Seq(Request)
      /\ Len(trace) \in Nat /\ Len(trace') \in Nat
  BY DEF LogInv, TypeOK
<1>4. /\ Len(trace) <= Len(trace') /\ \A i \in 1..Len(trace) : trace'[i] = trace[i]
      /\ MainAt(t)'
  <2>1. CASE UNCHANGED trace /\ todo' = <<>>
    BY <1>1, <1>2, <1>3, <2>1 DEF MainAt
  <2>2. CASE /\ Len(trace') = Len(trace) + 1 /\ \A i \in 1..Len(trace) : trace'[i] = trace[i]
             /\ close_work = "idle"
             /\ \/ todo' = Event(trace'[Len(trace')]) /\ Len(trace') # 4
                \/ todo' = Starting[1] /\ Len(trace') = 4
                \/ todo' = Closing /\ Len(trace') > 4
    <3> PICK n \in Nat : n = Len(trace)
      BY <1>3
    <3>1. t = At(n, IF n < 4 THEN 0 ELSE 5) /\ Len(trace') = n + 1
      BY <1>2, <2>2
    <3>2. CASE todo' = Event(trace'[Len(trace')]) /\ Len(trace') # 4
      <4>1. (n < 4 <=> Len(trace') < 4) /\ trace' # <<>> /\ n = Len(trace') - 1
        BY <1>3, <3>1, <3>2
      <4> QED  BY <1>3, <2>2, <3>1, <3>2, <4>1 DEF MainAt
    <3>3. CASE todo' = Starting[1] /\ Len(trace') = 4
      <4>1. n + 1 = 4
        BY <3>1, <3>3, Zenon
      <4>2. n = 3 /\ 1 - 1 = 0
        BY ONLY <4>1, n \in Nat
      <4>3. t = At(3, 1 - 1)
        <5>1. t = At(n, IF n < 4 THEN 0 ELSE 5)
          BY <3>1, Zenon
        <5>2. (IF n < 4 THEN 0 ELSE 5) = 1 - 1
          BY <4>2
        <5> QED  BY <4>2, <5>1, <5>2, Zenon
      <4>4. 1 \in 1..6
        OBVIOUS
      <4> QED  BY <1>3, <2>2, <3>3, <4>3, <4>4 DEF MainAt
    <3>4. CASE todo' = Closing /\ Len(trace') > 4
      <4>1. t = At(Len(trace') - 1, 5)
        BY <3>1, <3>4
      <4> QED  BY <1>3, <2>2, <3>4, <4>1 DEF MainAt
    <3> QED  BY <2>2, <3>2, <3>3, <3>4
  <2>3. CASE /\ Len(trace) = 4 /\ Len(trace') = 6 /\ \A i \in 1..4 : trace'[i] = trace[i]
             /\ close_work = "idle" /\ todo' = Liftoff
    <3>1. t = At(Len(trace') - 2, 5)
      BY <1>2, <2>3
    <3> QED  BY <2>3, <3>1 DEF MainAt
  <2> QED  BY <1>1, <2>1, <2>2, <2>3, Fired
<1>5. WorkerAt(s)'
  BY <1>1, <1>4, WorkerStays DEF Pipe
<1>6. Chain(trace', queue', s, t)
  BY <1>1, <1>3, <1>4, ChainGrows DEF Pipe
<1> QED
  BY <1>1, <1>4, <1>5, <1>6 DEF Pipe, CloseOnTheWay

LEMMA SetNamePipe ==
  ASSUME LogInv, LogInv', rocket_data_logging_set_name,
         NEW s \in Place, NEW t \in Place, Pipe(s, t)
  PROVE  Pipe(s, t)'
<1>1. /\ stage = "name"
      /\ UNCHANGED <<queue, trace, todo, close_work, fileVars, job>>
  BY DEF rocket_data_logging_set_name, jobVars, fileVars
<1>2. ~Writing /\ log_name \notin Paths
  BY <1>1, LogJobAssumption DEF LogInv, NameInv, Writing
<1>3. WorkerAt(s)'
  <2>1. UNCHANGED Untouched
    BY <1>1 DEF Untouched, fileVars
  <2> QED  BY <1>1, <1>2, <2>1 DEF Pipe, WorkerAt, InHeader, InData
<1> QED
  BY <1>1, <1>3 DEF Pipe, CloseOnTheWay, MainAt

LEMMA SamplePipe ==
  ASSUME LogInv, LogInv', RocketDataLogging \/ PreBuffer,
         NEW s \in Place, NEW t \in Place, Pipe(s, t)
  PROVE  Pipe(s, t)'
<1>1. UNCHANGED <<queue, trace, close_work, log_name, fileVars, job>>
  BY DEF RocketDataLogging, PreBuffer, mainVars, logVars, jobVars, fileVars
<1>2. todo \in {<<>>} \cup Samples /\ todo' \in {<<>>} \cup Samples
  <2>1. CASE RocketDataLogging
    BY <2>1 DEF RocketDataLogging, Samples
  <2>2. CASE PreBuffer
    <3>1. todo = <<Op("pre_buffer", "sample")>> /\ todo' = Tail(todo)
      BY <2>2, CallLeft DEF PreBuffer, LogInv
    <3>2. todo' = <<>>
      BY <3>1, OtherCalls
    <3> QED  BY <3>1, <3>2 DEF Samples
  <2> QED  BY <2>1, <2>2
<1>3. t = At(Len(trace), IF Len(trace) < 4 THEN 0 ELSE IF close_work = "done" THEN 6 ELSE 5)
  BY <1>2, MainTells DEF Pipe
<1>4. MainAt(t)'
  BY <1>1, <1>2, <1>3 DEF MainAt
<1> QED
  BY <1>1, <1>4, PipeStays

LEMMA ActivatePipe ==
  ASSUME LogInv, LogInv', Activate, NEW s \in Place, NEW t \in Place, Pipe(s, t)
  PROVE  Pipe(s, t)'
<1>1. /\ NextOp("activate") /\ todo' = Tail(todo)
      /\ UNCHANGED <<queue, trace, close_work, log_name, fileVars, job>>
  BY DEF Activate, mainVars, jobVars, fileVars
<1>2. todo = Starting[6] /\ t = At(3, 5) /\ todo' = Event("pad_ready")
  BY <1>1, MainTells, StartingCalls DEF Pipe
<1>3. Len(trace) = 4 /\ trace # <<>> /\ trace[4] = "pad_ready"
  <2>1. Len(trace) = 4
    <3>1. \A op, arg : Op(op, arg).op = op
      BY DEF Op
    <3>2. Head(todo).op = "activate"
      BY <1>2, StartingCalls, <3>1
    <3>3. todo # <<>> /\ todo \notin Samples /\ todo # Liftoff /\ todo # Closing
          /\ \A e : todo # Event(e)
      BY <1>1, <3>1, <3>2, OtherCalls DEF Samples, NextOp
    <3> QED  BY <3>3 DEF LogInv, TodoInv
  <2> QED  BY <2>1, LastEvent, LastTells DEF LogInv, TypeOK
<1>4. MainAt(t)'
  BY <1>1, <1>2, <1>3 DEF MainAt
<1> QED
  BY <1>1, <1>4, PipeStays

\* The touchdown fires after the liftoff.
LEMMA TouchdownLate ==
  ASSUME LogInv, M!Last(trace) = "touchdown"
  PROVE  Len(trace) >= 5 /\ trace[Len(trace)] = "touchdown" /\ Len(trace) \in Nat
BY LastEvent, LastTells DEF LogInv, TypeOK

LEMMA ScheduleClosePipe ==
  ASSUME LogInv, LogInv', ScheduleClose, NEW s \in Place, NEW t \in Place, Pipe(s, t)
  PROVE  Pipe(s, t)'
<1>1. /\ NextOp("schedule_close") /\ todo' = Tail(todo) /\ close_work' = "scheduled"
      /\ UNCHANGED <<queue, trace, log_name, fileVars, job>>
  BY DEF ScheduleClose, mainVars, jobVars, fileVars
<1>2. todo = Closing /\ t = At(Len(trace) - 1, 5) /\ todo' = Event("touchdown")
  BY <1>1, MainTells, OtherCalls DEF Pipe
<1>3. M!Last(trace') = "touchdown"
  BY <1>1 DEF LogInv, TraceInv
<1>4. Len(trace) >= 5 /\ trace[Len(trace)] = "touchdown" /\ Len(trace) \in Nat
  BY <1>1, <1>3, TouchdownLate
<1>5. MainAt(t)'
  <2>1. trace # <<>> /\ ~(Len(trace) < 4)
    BY <1>4
  <2>2. todo' = Event(trace'[Len(trace')]) /\ t = At(Len(trace') - 1, 5) /\ ~(Len(trace') < 4)
    BY <1>1, <1>2, <1>4, <2>1
  <2> QED  BY <1>1, <2>1, <2>2 DEF MainAt
<1> QED
  BY <1>1, <1>5, PipeStays

LEMMA OpenLogCallPipe ==
  ASSUME LogInv, LogInv', OpenLogCall, UNCHANGED refusals,
         NEW s \in Place, NEW t \in Place, Pipe(s, t)
  PROVE  PipeOn'
<1>1. /\ NextOp("open") /\ todo' = Tail(todo)
      /\ UNCHANGED <<trace, log_name, fileVars, job>>
      /\ queue' = Append(queue, Req("OPEN_LOG", NoPayload))
  BY RefusedOK DEF OpenLogCall, mainVars, logVars, Req
<1>2. todo = Starting[1] /\ t = At(3, 0) /\ todo' = Starting[2]
  BY <1>1, MainTells, StartingCalls DEF Pipe
<1>3. At(3, 1) \in Place /\ MainAt(At(3, 1))'
  <2>1. 2 \in 1..6 /\ At(3, 1) = At(3, 2 - 1)
    OBVIOUS
  <2> QED  BY <1>2, <2>1, Places DEF MainAt
<1>4. Follows(trace, t, Req("OPEN_LOG", NoPayload), At(3, 1))
  BY <1>2 DEF Follows, Req
<1>5. Pipe(s, At(3, 1))'
  BY <1>1, <1>3, <1>4, PipeSubmit, RequestTypes
<1> QED
  BY <1>3, <1>5 DEF PipeOn

LEMMA HeaderPipe ==
  ASSUME LogInv, LogInv', FormatCall \/ NamesCall, UNCHANGED refusals,
         NEW s \in Place, NEW t \in Place, Pipe(s, t)
  PROVE  PipeOn'
<1>1. ~Refused
  BY RefusedOK, RocketLoggingAssumption DEF LogInv, TypeOK
<1>2. UNCHANGED <<trace, log_name, fileVars, job>> /\ todo' = Tail(todo)
  BY <1>1, ServiceSteps DEF FormatCall, NamesCall, mainVars, logVars
<1>3. \/ NextOp("format") /\ queue' = Append(queue, Req("LOG_TRACK_FORMAT", Arg))
      \/ NextOp("names") /\ queue' = Append(queue, Req("LOG_TRACK_NAMES", Arg))
  BY <1>1, ServiceSteps DEF FormatCall, NamesCall, Req
<1>4. PICK k \in {1, 2, 3, 4} :
        /\ t = At(3, k) /\ todo' = Starting[k + 2] /\ queue' = Append(queue, HeaderReq[k])
  <2>1. Op("format", "track0").arg = "track0" /\ Op("format", "track1").arg = "track1"
        /\ Op("names", "track0").arg = "track0" /\ Op("names", "track1").arg = "track1"
    BY DEF Op
  <2>2. CASE NextOp("format") /\ queue' = Append(queue, Req("LOG_TRACK_FORMAT", Arg))
    <3>1. \/ todo = Starting[2] /\ t = At(3, 1)
          \/ todo = Starting[4] /\ t = At(3, 3)
      BY <2>2, MainTells DEF Pipe
    <3>2. CASE todo = Starting[2] /\ t = At(3, 1)
      <4>1. /\ todo' = Starting[1 + 2] /\ queue' = Append(queue, HeaderReq[1])
        BY <1>2, <2>1, <2>2, <3>2, StartingCalls DEF Arg, HeaderReq
      <4> QED  BY <3>2, <4>1
    <3>3. CASE todo = Starting[4] /\ t = At(3, 3)
      <4>1. /\ todo' = Starting[3 + 2] /\ queue' = Append(queue, HeaderReq[3])
        BY <1>2, <2>1, <2>2, <3>3, StartingCalls DEF Arg, HeaderReq
      <4> QED  BY <3>3, <4>1
    <3> QED  BY <3>1, <3>2, <3>3
  <2>3. CASE NextOp("names") /\ queue' = Append(queue, Req("LOG_TRACK_NAMES", Arg))
    <3>1. \/ todo = Starting[3] /\ t = At(3, 2)
          \/ todo = Starting[5] /\ t = At(3, 4)
      BY <2>3, MainTells DEF Pipe
    <3>2. CASE todo = Starting[3] /\ t = At(3, 2)
      <4>1. /\ todo' = Starting[2 + 2] /\ queue' = Append(queue, HeaderReq[2])
        BY <1>2, <2>1, <2>3, <3>2, StartingCalls DEF Arg, HeaderReq
      <4> QED  BY <3>2, <4>1
    <3>3. CASE todo = Starting[5] /\ t = At(3, 4)
      <4>1. /\ todo' = Starting[4 + 2] /\ queue' = Append(queue, HeaderReq[4])
        BY <1>2, <2>1, <2>3, <3>3, StartingCalls DEF Arg, HeaderReq
      <4> QED  BY <3>3, <4>1
    <3> QED  BY <3>1, <3>2, <3>3
  <2> QED  BY <1>3, <2>2, <2>3
<1>5. At(3, k + 1) \in Place /\ HeaderReq[k] \in Request
  BY Places, RequestTypes DEF HeaderReq
<1>6. MainAt(At(3, k + 1))'
  <2>1. k + 2 \in 1..6 /\ At(3, k + 1) = At(3, (k + 2) - 1)
    OBVIOUS
  <2> QED  BY <1>4, <2>1 DEF MainAt
<1>7. Follows(trace, t, HeaderReq[k], At(3, k + 1))
  BY <1>4 DEF Follows
<1>8. Pipe(s, At(3, k + 1))'
  BY <1>2, <1>4, <1>5, <1>6, <1>7, PipeSubmit
<1> QED
  BY <1>5, <1>8 DEF PipeOn

LEMMA TrackDataPipe ==
  ASSUME LogInv, LogInv', TrackData, UNCHANGED refusals,
         NEW s \in Place, NEW t \in Place, Pipe(s, t)
  PROVE  PipeOn'
<1>1. ~Refused
  BY RefusedOK, RocketLoggingAssumption DEF LogInv, TypeOK
<1>2. /\ NextOp("event") \/ NextOp("entry")
      /\ UNCHANGED <<trace, log_name, close_work, fileVars, job>> /\ todo' = Tail(todo)
      /\ queue' = Append(queue, Req("LOG_TRACK_DATA", Arg))
  BY <1>1, ServiceSteps DEF TrackData, mainVars, Req
<1>3. /\ trace \in Seq(M!Events) /\ Len(trace) \in Nat /\ TodoInv
      /\ t.ev \in Nat
  BY Places DEF LogInv, TypeOK
<1>4. \A e \in M!Events : e # "sample"
  BY DEF M!Events
<1>5. \A op, arg : Op(op, arg).arg = arg /\ Op(op, arg).op = op
  BY DEF Op
<1>6. CASE NextOp("event") /\ todo = Event(trace[Len(trace)]) /\ trace # <<>>
           /\ t = At(Len(trace) - 1, IF Len(trace) < 4 THEN 0 ELSE 5)
  <2> PICK n \in Nat \ {0} : n = Len(trace)
    BY <1>3, <1>6, LastEvent
  <2> DEFINE u == At(n, IF n < 4 THEN 0 ELSE 5)
             r == Req("LOG_TRACK_DATA", trace[n])
  <2>1. todo' = <<>> /\ Arg = trace[n] /\ trace[n] \in M!Events
    BY <1>2, <1>3, <1>5, <1>6, OtherCalls DEF Arg
  <2>2. close_work # "done"
    <3>1. Head(todo).op = "event" /\ todo # <<>> /\ Tail(todo) = <<>>
      BY <1>5, <1>6, OtherCalls DEF NextOp
    <3>2. todo \notin Samples /\ todo # Liftoff /\ todo # Closing
      <4>1. Event("liftoff") # <<>>
        BY DEF Event
      <4> QED  BY <1>5, <3>1, <4>1, OtherCalls DEF Samples
    <3>3. \A k \in 1..6 : todo # Starting[k]
      <4> SUFFICES ASSUME NEW k \in {1, 2, 3, 4, 5, 6} PROVE todo # Starting[k]
        OBVIOUS
      <4> QED  BY <1>5, <3>1, StartingCalls
    <3> QED  BY <1>3, <3>1, <3>2, <3>3 DEF TodoInv
  <2>3. u \in Place /\ r \in Request /\ queue' = Append(queue, r)
    BY <1>2, <2>1, Places, RequestTypes
  <2>4. MainAt(u)'
    BY <1>2, <2>1, <2>2 DEF MainAt
  <2>5. Follows(trace, t, r, u)
    <3>1. t.at = (IF n < 4 THEN 0 ELSE 5) /\ u = At(t.ev + 1, t.at) /\ u.ev = n
      BY <1>6, Places
    <3>2. IsEventReq(r) /\ r.arg = trace[n]
      BY <1>4, <2>1 DEF IsEventReq, Req
    <3> HIDE DEF u, r
    <3> QED  BY <3>1, <3>2 DEF Follows
  <2> HIDE DEF u, r
  <2>6. Pipe(s, u)'
    BY <1>2, <2>3, <2>4, <2>5, PipeSubmit
  <2> QED  BY <2>3, <2>6 DEF PipeOn
<1>7. CASE todo = Liftoff /\ t = At(Len(trace) - 2, 5)
  <2>1. Len(trace) >= 6 /\ close_work = "idle" /\ trace[Len(trace) - 1] = "ignition"
        /\ trace[Len(trace)] = "liftoff"
    <3>1. Head(todo).op = "event" /\ todo # <<>> /\ Tail(todo) # <<>>
      BY <1>5, <1>7, OtherCalls DEF Liftoff, Event
    <3>2. todo \notin Samples /\ todo # Closing /\ \A e : todo # Event(e)
      BY <1>5, <3>1, OtherCalls DEF Samples
    <3>3. \A k \in 1..6 : todo # Starting[k]
      <4> SUFFICES ASSUME NEW k \in {1, 2, 3, 4, 5, 6} PROVE todo # Starting[k]
        OBVIOUS
      <4> QED  BY <1>5, <3>1, StartingCalls
    <3> QED  BY <1>3, <3>1, <3>2, <3>3 DEF TodoInv
  <2> PICK n \in Nat : n = Len(trace)
    BY <1>3
  <2> DEFINE u == At(n - 1, 5)
             r == Req("LOG_TRACK_DATA", "ignition")
  <2>2. todo' = Event("liftoff") /\ Arg = "ignition" /\ "ignition" \in M!Events
    BY <1>2, <1>5, <1>7, OtherCalls DEF Arg, M!Events
  <2>3. u \in Place /\ r \in Request /\ queue' = Append(queue, r)
    BY <1>2, <2>1, <2>2, Places, RequestTypes
  <2>4. MainAt(u)'
    <3>1. trace # <<>> /\ ~(Len(trace) < 4) /\ todo' = Event(trace[Len(trace)])
      BY <2>1, <2>2
    <3> QED  BY <1>2, <3>1 DEF MainAt
  <2>5. Follows(trace, t, r, u)
    <3>1. t.at = 5 /\ t.ev = n - 2 /\ u = At(t.ev + 1, t.at) /\ u.ev = n - 1
      BY <1>7, <2>1, Places
    <3>2. IsEventReq(r) /\ r.arg = trace[n - 1]
      BY <2>1 DEF IsEventReq, Req
    <3> HIDE DEF u, r
    <3> QED  BY <2>1, <3>1, <3>2 DEF Follows
  <2> HIDE DEF u, r
  <2>6. Pipe(s, u)'
    BY <1>2, <2>3, <2>4, <2>5, PipeSubmit
  <2> QED  BY <2>3, <2>6 DEF PipeOn
<1>8. CASE NextOp("entry")
  <2> DEFINE r == Req("LOG_TRACK_DATA", "sample")
  <2>1. todo = <<Op("entry", "sample")>> /\ todo' = <<>> /\ Arg = "sample"
    <3>1. todo = <<Op("entry", "sample")>>
      BY <1>3, <1>8, CallLeft
    <3> QED  BY <1>2, <1>5, <3>1, OtherCalls DEF Arg
  <2>2. r \in Request /\ queue' = Append(queue, r) /\ IsSampleReq(r)
    BY <1>2, <2>1, RequestTypes DEF IsSampleReq, Req
  <2>3. t = At(Len(trace), IF Len(trace) < 4 THEN 0 ELSE IF close_work = "done" THEN 6 ELSE 5)
    BY <2>1, MainTells DEF Pipe, Samples
  <2>4. log_active
    <3>1. Head(todo).op = "entry"
      BY <1>5, <2>1, OtherCalls
    <3>2. todo # <<>> /\ todo # Liftoff /\ todo # Closing /\ \A e : todo # Event(e)
      BY <1>5, <2>1, <3>1, OtherCalls
    <3>3. \A k \in 1..6 : todo # Starting[k]
      <4> SUFFICES ASSUME NEW k \in {1, 2, 3, 4, 5, 6} PROVE todo # Starting[k]
        OBVIOUS
      <4> QED  BY <1>5, <3>1, StartingCalls
    <3> QED  BY <1>3, <2>1, <3>2, <3>3 DEF TodoInv
  <2>5. t.at \in {5, 6}
    <3>1. ~(Len(trace) < 4)
      BY <1>3, <2>4 DEF LogInv, TraceInv
    <3> QED  BY <2>3, <3>1, Places
  <2>6. MainAt(t)'
    BY <1>2, <2>1, <2>3 DEF MainAt
  <2> HIDE DEF r
  <2>7. Follows(trace, t, r, t)
    BY <2>2, <2>5 DEF Follows
  <2>8. Pipe(s, t)'
    BY <1>2, <2>2, <2>6, <2>7, PipeSubmit
  <2> QED  BY <2>8 DEF PipeOn
<1>9. NextOp("event") => \/ /\ trace # <<>> /\ todo = Event(trace[Len(trace)])
                            /\ t = At(Len(trace) - 1, IF Len(trace) < 4 THEN 0 ELSE 5)
                         \/ todo = Liftoff /\ t = At(Len(trace) - 2, 5)
  BY MainTells DEF Pipe
<1> QED
  BY <1>2, <1>6, <1>7, <1>8, <1>9

LEMMA StopLogPipe ==
  ASSUME LogInv, LogInv', StopLog, UNCHANGED refusals,
         NEW s \in Place, NEW t \in Place, Pipe(s, t)
  PROVE  PipeOn'
<1>1. ~Refused
  BY RefusedOK, RocketLoggingAssumption DEF LogInv, TypeOK
<1>2. /\ todo = <<>> /\ todo' = <<>> /\ close_work = "scheduled" /\ close_work' = "done"
      /\ UNCHANGED <<trace, log_name, fileVars, job>>
      /\ queue' = Append(queue, Req("CLOSE_LOG", NoPayload))
  <2>1. Req("CLOSE_LOG", NoPayload).cmd # "OPEN_LOG"
    BY DEF Req
  <2> QED  BY <1>1, <2>1, ServiceSteps DEF StopLog, Waiting, mainVars, Req
<1>3. Len(trace) >= 5 /\ trace[Len(trace)] = "touchdown" /\ Len(trace) \in Nat
  BY <1>2, TouchdownLate DEF LogInv, TraceInv
<1>4. t = At(Len(trace), 5)
  <2>1. t = At(Len(trace), IF Len(trace) < 4 THEN 0 ELSE IF close_work = "done" THEN 6 ELSE 5)
    BY <1>2, MainTells DEF Pipe
  <2> QED  BY <1>2, <1>3, <2>1
<1> PICK n \in Nat : n = Len(trace)
  BY <1>3
<1> DEFINE u == At(n, 6)
           r == Req("CLOSE_LOG", NoPayload)
<1>5. u \in Place /\ r \in Request /\ r.cmd = "CLOSE_LOG" /\ queue' = Append(queue, r)
  BY <1>2, <1>3, Places, RequestTypes DEF Req
<1>6. MainAt(u)'
  BY <1>2, <1>3 DEF MainAt
<1>7. Follows(trace, t, r, u)
  <2>1. t.at = 5 /\ t.ev = n /\ u = At(t.ev, 6) /\ t.ev \in 4..Len(trace)
    BY <1>3, <1>4, Places
  <2> HIDE DEF u, r
  <2> QED  BY <1>3, <1>5, <2>1 DEF Follows
<1> HIDE DEF u, r
<1>8. Pipe(s, u)'
  BY <1>2, <1>5, <1>6, <1>7, PipeSubmit
<1> QED
  BY <1>5, <1>8 DEF PipeOn
--------------------------------------------------------------------------------
(* The thread moves the start of the chain *)

\* An idle thread past the header has the whole header in the file.
LEMMA HeaderDone ==
  ASSUME LogInv, NEW s \in Place, WorkerAt(s), s.at = 5, ~job.busy
  PROVE  s.ev >= 3 /\ s.ev \in Nat /\ Writing /\ LogHolds(image, s.ev - 3)
<1>1. job.left = <<>> /\ image \in Seq(Element) /\ Len(image) \in Nat /\ s.ev \in Nat
  BY Places DEF LogInv, TypeOK, JobTypeOK
<1>2. CASE \E k \in 0..4 : s = At(3, k + 1) /\ InHeader(k)
  <2> PICK k \in 0..4 : s = At(3, k + 1) /\ InHeader(k)
    BY <1>2
  <2>1. k = 4 /\ s.ev = 3
    BY Places
  <2>2. Writing /\ Len(image) = 8 /\ \A i \in 1..8 : image[i] = Header[i]
    <3>1. InHeader(4)
      BY <2>1
    <3>2. /\ Writing /\ Len(image) + Len(job.left) = 2 * 4
          /\ \A i \in 1..Len(image) : image[i] = Header[i]
      BY <3>1 DEF InHeader
    <3>3. Len(job.left) = 0
      BY <1>1
    <3>4. Len(image) = 8
      BY <1>1, <3>2, <3>3
    <3> QED  BY <3>2, <3>4
  <2>3. \A i \in 1..8 : ~IsEvent(image[i])
    BY <2>2, HeaderNoEvent
  <2>4. TellsFlight(image) /\ EventCount(image, Len(image)) = 0
    BY <1>1, <2>2, <2>3, TellsNothing
  <2>5. LogHolds(image, 0)
    BY <2>2, <2>4 DEF LogHolds
  <2> QED  BY <1>1, <2>1, <2>2, <2>5
<1>3. CASE s.at = 5 /\ s.ev >= 3 /\ InData(s.ev - 3)
  <2>1. ~EventDue
    BY DEF EventDue
  <2> QED  BY <1>1, <1>3, <2>1 DEF InData
<1>4. \A k : At(3, k).at = k
  BY Places
<1> QED
  BY <1>2, <1>3, <1>4 DEF WorkerAt

\* The thread takes a request off the queue.
LEMMA StartPipe ==
  ASSUME LogInv, LogInv', Consume, S!Start, NEW s \in Place, NEW t \in Place, Pipe(s, t)
  PROVE  PipeOn'
<1>1. /\ queue # <<>> /\ queue' = Tail(queue) /\ StartJob(Head(queue))
      /\ UNCHANGED <<trace, todo, close_work, log_name>>
  BY ServiceSteps DEF Consume, mainVars, logVars
<1>2. /\ queue \in Seq(Request) /\ trace \in Seq(M!Events) /\ s.ev \in Nat /\ s.at \in 0..6
      /\ Len(trace) \in Nat /\ image \in Seq(Element) /\ Len(image) \in Nat
  <2>1. queue \in Seq(Request) /\ trace \in Seq(M!Events) /\ image \in Seq(Element)
    BY DEF LogInv, TypeOK, JobTypeOK
  <2> QED  BY <2>1, Places
<1> PICK r : r = Head(queue)
  OBVIOUS
<1>3. r \in Request /\ r = queue[1] /\ 1 \in DOMAIN queue
  BY <1>1, <1>2
<1>4. PICK u \in Place : Follows(trace, s, r, u) /\ Chain(trace, Tail(queue), u, t)
  BY <1>1, <1>2, ChainTail DEF Pipe
<1>5. /\ ~job.busy /\ job.left = <<>>
      /\ job' = [req |-> r, left |-> Chunk(r), busy |-> TRUE]
      /\ job'.req = r /\ job'.left = Chunk(r) /\ job'.busy
      /\ UNCHANGED <<fd, pos, image, durable>>
  BY <1>1 DEF StartJob, fileVars, LogInv
<1>6. UNCHANGED Untouched /\ UNCHANGED Writing /\ LoggableEvents' = LoggableEvents
  BY <1>1, <1>5 DEF Untouched, Writing, LoggableEvents
<1>7. \A n : /\ LogHolds(image, n) => LogHolds(image, n)'
             /\ LogHolds(durable[log_name], n) => LogHolds(durable[log_name], n)'
  BY <1>1, <1>5, <1>6 DEF LogHolds, TellsFlight
<1>8. WorkerAt(u)'
  <2>1. CASE /\ IsEventReq(r) /\ s.at \in {0, 5}
             /\ u = At(s.ev + 1, s.at)
             /\ u.ev <= Len(trace) /\ r.arg = trace[u.ev] /\ (s.at = 0 => u.ev <= 3)
    <3>1. CASE s.at = 0
      <4>1. Untouched
        BY <3>1, Places DEF Pipe, WorkerAt
      <4>2. u.at = 0
        BY <2>1, <3>1, Places
      <4> QED  BY <1>5, <1>6, <2>1, <4>1, <4>2 DEF WorkerAt
    <3>2. CASE s.at = 5
      <4>1. s.ev >= 3 /\ Writing /\ LogHolds(image, s.ev - 3)
        BY <1>5, <3>2, HeaderDone DEF Pipe
      <4>2. u.at = 5 /\ u.ev = s.ev + 1
        BY <2>1, <3>2, Places
      <4>3. Chunk(r) # <<>> /\ r.cmd = "LOG_TRACK_DATA"
        BY <2>1 DEF IsEventReq, Chunk, DataCmds
      <4>4. EventDue'
        BY <1>5, <2>1, <4>3 DEF EventDue
      <4> PICK n \in Nat : n = u.ev - 3
        BY <1>2, <4>1, <4>2
      <4>5. n >= 1 /\ n <= Len(LoggableEvents) /\ r.arg = LoggableEvents[n] /\ n - 1 = s.ev - 3
        <5>1. Len(trace) >= 4 /\ n >= 1 /\ n <= Len(trace) - 3 /\ n + 3 = u.ev
          BY <1>2, <2>1, <4>1, <4>2
        <5>2. Len(LoggableEvents) = Len(trace) - 3
              /\ \A k \in 1..Len(LoggableEvents) : LoggableEvents[k] = trace[k + 3]
          BY <1>2, <5>1, LoggableEventsAre
        <5>3. n \in 1..Len(LoggableEvents)
          BY <1>2, <5>1, <5>2
        <5>4. LoggableEvents[n] = trace[n + 3]
          BY <5>2, <5>3
        <5>5. r.arg = LoggableEvents[n]
          BY <2>1, <5>1, <5>4
        <5>6. n - 1 = s.ev - 3
          BY <1>2, <4>1, <4>2
        <5> QED  BY <5>1, <5>2, <5>5, <5>6
      <4>6. LogHolds(image, n - 1)'
        BY <1>7, <4>1, <4>5
      <4>7. InData(n)'
        BY <1>5, <1>6, <4>1, <4>3, <4>4, <4>5, <4>6 DEF InData
      <4>8. u.ev >= 3
        BY <1>2, <4>1, <4>2
      <4> QED  BY <4>2, <4>7, <4>8 DEF WorkerAt
    <3> QED  BY <2>1, <3>1, <3>2
  <2>2. CASE IsSampleReq(r) /\ s.at \in {5, 6} /\ u = s
    <3>1. CASE s.at = 5
      <4>1. s.ev >= 3 /\ Writing /\ LogHolds(image, s.ev - 3)
        BY <1>5, <3>1, HeaderDone DEF Pipe
      <4>2. ~EventDue' /\ r.cmd = "LOG_TRACK_DATA"
        BY <1>5, <2>2 DEF EventDue, IsSampleReq, IsEventReq
      <4>3. LogHolds(image, s.ev - 3)'
        BY <1>7, <4>1
      <4>4. InData(s.ev - 3)'
        BY <1>5, <1>6, <4>1, <4>2, <4>3 DEF InData
      <4> QED  BY <2>2, <3>1, <4>1, <4>4 DEF WorkerAt
    <3>2. CASE s.at = 6
      <4>1. \A k : At(3, k).at = k
        BY Places
      <4>2. /\ s.ev \in 4..Len(trace) /\ trace[s.ev] = "touchdown"
            /\ fd = NoPath /\ log_name \in Paths /\ LogHolds(durable[log_name], s.ev - 3)
        BY <1>5, <3>2, <4>1 DEF Pipe, WorkerAt
      <4>3. LogHolds(durable[log_name], s.ev - 3)'
        BY <1>7, <4>2
      <4> QED  BY <1>1, <1>5, <2>2, <3>2, <4>2, <4>3 DEF WorkerAt
    <3> QED  BY <2>2, <3>1, <3>2
  <2>3. CASE r.cmd = "OPEN_LOG" /\ s = At(3, 0) /\ u = At(3, 1)
    <3>1. Untouched
      BY <2>3, Places DEF Pipe, WorkerAt
    <3> QED  BY <1>5, <1>6, <2>3, <3>1 DEF WorkerAt
  <2>4. CASE \E k \in 1..4 : r = HeaderReq[k] /\ s = At(3, k) /\ u = At(3, k + 1)
    <3> PICK k \in 1..4 : r = HeaderReq[k] /\ s = At(3, k) /\ u = At(3, k + 1)
      BY <2>4
    <3>1. InHeader(k - 1)
      <4>1. \A n, j : At(n, j).at = j
        BY Places
      <4>2. s.at = k
        BY <4>1
      <4>3. s.at # 0 /\ s.at # 5 /\ s.at # 6
        BY <4>2
      <4>4. PICK j \in 0..4 : s = At(3, j + 1) /\ InHeader(j)
        BY <1>5, <4>3 DEF Pipe, WorkerAt
      <4>5. j = k - 1
        BY <4>1, <4>2, <4>4
      <4> QED  BY <4>4, <4>5
    <3>2. Writing /\ Len(image) = 2 * (k - 1) /\ \A i \in 1..Len(image) : image[i] = Header[i]
      BY <1>2, <1>5, <3>1 DEF InHeader
    <3>3. /\ Len(Chunk(r)) = 2 /\ Chunk(r)[1] = Header[2 * k - 1] /\ Chunk(r)[2] = Header[2 * k]
          /\ r.cmd \in MetadataCmds
      BY HeaderChunks
    <3>4. Len(image) + 2 = 2 * k
      BY <3>2
    <3>5. \A j \in 1..2 : Chunk(r)[j] = Header[Len(image) + j]
      <4> SUFFICES ASSUME NEW j \in {1, 2} PROVE Chunk(r)[j] = Header[Len(image) + j]
        OBVIOUS
      <4>1. Len(image) + 1 = 2 * k - 1 /\ Len(image) + 2 = 2 * k
        BY <3>2
      <4> QED  BY <3>3, <4>1
    <3>6. InHeader(k)'
      BY <1>5, <1>6, <3>2, <3>3, <3>4, <3>5 DEF InHeader
    <3> QED  BY <3>6 DEF WorkerAt
  <2>5. CASE /\ r.cmd = "CLOSE_LOG" /\ s.at = 5 /\ u = At(s.ev, 6) /\ s.ev \in 4..Len(trace)
             /\ trace[s.ev] = "touchdown"
    <3>1. Writing /\ LogHolds(image, s.ev - 3)
      BY <1>5, <2>5, HeaderDone DEF Pipe
    <3>2. LogHolds(image, s.ev - 3)'
      BY <1>7, <3>1
    <3>3. u.at = 6 /\ u.ev = s.ev
      BY <2>5, Places
    <3> QED  BY <1>1, <1>5, <1>6, <2>5, <3>1, <3>2, <3>3 DEF WorkerAt
  <2> QED  BY <1>4, <2>1, <2>2, <2>3, <2>4, <2>5 DEF Follows
<1>9. MainAt(t)'
  BY <1>1 DEF Pipe, MainAt
<1>10. CloseOnTheWay(u, t)'
  <2> SUFFICES ASSUME t.at = 6, u.at # 6
               PROVE  \E i \in DOMAIN queue' : queue'[i].cmd = "CLOSE_LOG"
    BY DEF CloseOnTheWay
  <2>1. s.at # 6 /\ r.cmd # "CLOSE_LOG"
    <3>1. IsEventReq(r) => r.cmd # "CLOSE_LOG"
      BY DEF IsEventReq
    <3>2. IsSampleReq(r) => r.cmd # "CLOSE_LOG"
      BY DEF IsSampleReq
    <3>3. \A k \in 1..4 : HeaderReq[k].cmd # "CLOSE_LOG" /\ At(3, k).at # 6
      BY HeaderChunks, Places DEF MetadataCmds
    <3> QED  BY <1>4, <3>1, <3>2, <3>3, Places DEF Follows
  <2>2. PICK i \in DOMAIN queue : queue[i].cmd = "CLOSE_LOG"
    BY <2>1 DEF Pipe, CloseOnTheWay
  <2>3. i # 1
    BY <1>3, <2>1, <2>2
  <2>4. i - 1 \in DOMAIN queue' /\ queue'[i - 1] = queue[i]
    BY <1>1, <1>2, <2>3
  <2> QED  BY <2>2, <2>4
<1>11. Chain(trace', queue', u, t)
  BY <1>1, <1>4
<1>12. Pipe(u, t)'
  BY <1>8, <1>9, <1>10, <1>11 DEF Pipe
<1> QED
  BY <1>12 DEF PipeOn

\* What is left of the chunks of the requests the log is made of.
LEMMA ChunkLeft ==
  ASSUME LogInv, job.busy
  PROVE  /\ job.req \in Request /\ job.left \in Seq(Element) /\ job.left \in Rests(job.req)
         /\ job.req.cmd \in {"OPEN_LOG", "CLOSE_LOG"} => job.left = <<>>
         /\ job.req.cmd = "LOG_TRACK_DATA" /\ job.left # <<>> =>
              \/ /\ Head(job.left) = Part("head", job.req)
                 /\ Tail(job.left) = <<Part("body", job.req)>>
              \/ Head(job.left) = Part("body", job.req) /\ Tail(job.left) = <<>>
<1>1. /\ job.req \in Request /\ job.left \in Seq(Element) /\ job.left \in Rests(job.req)
  BY DEF LogInv, JobInv, JobTypeOK, WorksOnRequest
<1>2. job.req.cmd \in {"OPEN_LOG", "CLOSE_LOG"} => job.left = <<>>
  BY <1>1 DEF Rests, Chunk, DataCmds
<1>3. ASSUME job.req.cmd = "LOG_TRACK_DATA", job.left # <<>>
      PROVE  \/ job.left = <<Part("head", job.req), Part("body", job.req)>>
             \/ job.left = <<Part("body", job.req)>>
  BY <1>1, <1>3 DEF Rests, Chunk, DataCmds
<1>4. \A a, b : /\ Head(<<a, b>>) = a /\ Tail(<<a, b>>) = <<b>>
                /\ Head(<<a>>) = a /\ Tail(<<a>>) = <<>>
  OBVIOUS
<1> QED
  BY <1>1, <1>2, <1>3, <1>4

\* A file that is appended to keeps its header and the events it holds.
LEMMA HoldsAppend ==
  ASSUME NEW f \in Seq(Element), NEW e \in Element, NEW n \in Nat, LogHolds(f, n),
         IsEvent(e) => n + 1 <= Len(LoggableEvents) /\ e.arg = LoggableEvents[n + 1]
  PROVE  LogHolds(Append(f, e), IF IsEvent(e) THEN n + 1 ELSE n)
<1>1. /\ TellsFlight(Append(f, e))
      /\ EventCount(Append(f, e), Len(Append(f, e))) = IF IsEvent(e) THEN n + 1 ELSE n
  BY TellsAppend DEF LogHolds
<1>2. Len(Append(f, e)) = Len(f) + 1 /\ Len(f) >= 8 /\ Len(f) \in Nat
      /\ \A i \in 1..Len(f) : Append(f, e)[i] = f[i]
  BY DEF LogHolds
<1>3. Len(Append(f, e)) >= 8 /\ \A i \in 1..8 : Append(f, e)[i] = Header[i]
  BY <1>2 DEF LogHolds
<1> QED
  BY <1>1, <1>3 DEF LogHolds

\* The thread writes an element of a chunk.
LEMMA WritePipe ==
  ASSUME LogInv, LogInv', WriteElement, UNCHANGED <<trace, log_name>>,
         NEW s \in Place, WorkerAt(s)
  PROVE  WorkerAt(s)'
<1>0. /\ image \in Seq(Element) /\ Len(image) \in Nat /\ s.ev \in Nat
      /\ job \in [req : Request, left : Seq(Element), busy : BOOLEAN]
  <2>1. image \in Seq(Element) /\ job \in [req : Request, left : Seq(Element), busy : BOOLEAN]
    BY DEF LogInv, TypeOK, JobTypeOK
  <2> QED  BY <2>1, Places
<1>1. /\ job.busy /\ job.left # <<>> /\ fd # NoPath
      /\ job' = [job EXCEPT !.left = Tail(@)] /\ pos' = pos + 1
      /\ UNCHANGED <<fd, durable>>
  BY DEF WriteElement
<1>2. /\ job'.busy /\ job'.req = job.req /\ job'.left = Tail(job.left)
      /\ Head(job.left) \in Element /\ Len(job.left) \in Nat \ {0}
      /\ Len(Tail(job.left)) = Len(job.left) - 1
      /\ \A j \in 1..Len(Tail(job.left)) : Tail(job.left)[j] = job.left[j + 1]
      /\ Head(job.left) = job.left[1]
  BY <1>0, <1>1
<1>3. ASSUME Writing
      PROVE  image' = Append(image, Head(job.left)) /\ Writing'
  <2>1. pos = Len(image)
    BY <1>3 DEF Writing
  <2>2. image' = Append(image, Head(job.left))
    BY <1>0, <2>1 DEF WriteElement
  <2>3. Len(image') = Len(image) + 1
    BY <1>0, <1>2, <2>2
  <2> QED  BY <1>1, <1>3, <2>1, <2>2, <2>3 DEF Writing
<1>4. LoggableEvents' = LoggableEvents
  BY DEF LoggableEvents
<1>5. CASE \E k \in 0..4 : s = At(3, k + 1) /\ InHeader(k)
  <2> PICK k \in 0..4 : s = At(3, k + 1) /\ InHeader(k)
    BY <1>5
  <2>1. /\ Writing /\ Len(image) + Len(job.left) = 2 * k
        /\ \A i \in 1..Len(image) : image[i] = Header[i]
        /\ \A j \in 1..Len(job.left) : job.left[j] = Header[Len(image) + j]
        /\ job.req.cmd \in MetadataCmds
    BY <1>1 DEF InHeader
  <2>2. /\ Len(image') = Len(image) + 1 /\ image'[Len(image) + 1] = Head(job.left)
        /\ \A i \in 1..Len(image) : image'[i] = image[i]
    BY <1>0, <1>2, <1>3, <2>1
  <2>3. Len(image') + Len(job'.left) = 2 * k
    BY <1>0, <1>2, <2>1, <2>2
  <2>4. \A i \in 1..Len(image') : image'[i] = Header[i]
    <3> SUFFICES ASSUME NEW i \in 1..(Len(image) + 1) PROVE image'[i] = Header[i]
      BY <2>2
    <3>1. CASE i = Len(image) + 1
      <4>1. 1 \in 1..Len(job.left)
        BY <1>2
      <4> QED  BY <1>2, <2>1, <2>2, <3>1, <4>1
    <3>2. CASE i \in 1..Len(image)
      BY <2>1, <2>2, <3>2
    <3> QED  BY <1>0, <3>1, <3>2
  <2>5. \A j \in 1..Len(job'.left) : job'.left[j] = Header[Len(image') + j]
    <3> SUFFICES ASSUME NEW j \in 1..(Len(job.left) - 1)
                 PROVE  Tail(job.left)[j] = Header[Len(image) + 1 + j]
      BY <1>2, <2>2
    <3>1. j + 1 \in 1..Len(job.left) /\ Len(image) + 1 + j = Len(image) + (j + 1)
      BY <1>0, <1>2
    <3> QED  BY <1>2, <2>1, <3>1
  <2>6. InHeader(k)'
    BY <1>2, <1>3, <2>1, <2>3, <2>4, <2>5 DEF InHeader
  <2> QED  BY <2>6 DEF WorkerAt
<1>6. CASE s.at = 5 /\ s.ev >= 3 /\ InData(s.ev - 3)
  <2> PICK n \in Nat : n = s.ev - 3
    BY <1>0, <1>6
  <2> DEFINE e == Head(job.left)
             m == IF EventDue THEN n - 1 ELSE n
  <2>1. /\ Writing /\ LogHolds(image, m) /\ job.req.cmd = "LOG_TRACK_DATA"
        /\ EventDue => n >= 1 /\ n <= Len(LoggableEvents) /\ job.req.arg = LoggableEvents[n]
    BY <1>1, <1>6 DEF InData
  <2>2. \/ e = Part("head", job.req) /\ job'.left = <<Part("body", job.req)>>
        \/ e = Part("body", job.req) /\ job'.left = <<>>
    BY <1>1, <1>2, <2>1, ChunkLeft
  <2>3. /\ Part("head", job.req).part = "head" /\ Part("body", job.req).part = "body"
        /\ Part("body", job.req).cmd = job.req.cmd /\ Part("body", job.req).arg = job.req.arg
    BY DEF Part
  <2>4. /\ IsEvent(e) => EventDue /\ e.arg = LoggableEvents[n] /\ ~EventDue'
        /\ ~IsEvent(e) => (EventDue' <=> EventDue)
    <3>1. CASE e = Part("head", job.req) /\ job'.left = <<Part("body", job.req)>>
      <4>1. ~IsEvent(e)
        BY <2>3, <3>1 DEF IsEvent
      <4>2. job'.left # <<>>
        BY <3>1
      <4>3. EventDue' <=> EventDue
        BY <1>1, <1>2, <4>2 DEF EventDue
      <4> HIDE DEF e
      <4> QED  BY <4>1, <4>3
    <3>2. CASE e = Part("body", job.req) /\ job'.left = <<>>
      <4>1. IsEvent(e) <=> IsEventReq(job.req)
        BY <2>1, <2>3, <3>2 DEF IsEvent, IsEventReq
      <4>2. ~EventDue' /\ (EventDue <=> IsEventReq(job.req))
        BY <1>1, <3>2 DEF EventDue
      <4>3. EventDue => e.arg = LoggableEvents[n]
        BY <2>1, <2>3, <3>2
      <4> HIDE DEF e
      <4> QED  BY <4>1, <4>2, <4>3
    <3> QED  BY <2>2, <3>1, <3>2
  <2>5. m \in Nat /\ (EventDue => m + 1 = n)
    BY <2>1
  <2>6. IsEvent(e) => m + 1 <= Len(LoggableEvents) /\ e.arg = LoggableEvents[m + 1]
    BY <2>1, <2>4, <2>5
  <2>7. image' = Append(image, e) /\ Writing' /\ e \in Element
    BY <1>2, <1>3, <2>1
  <2> HIDE DEF e, m
  <2>8. LogHolds(Append(image, e), IF IsEvent(e) THEN m + 1 ELSE m)
    BY <1>0, <2>1, <2>5, <2>6, <2>7, HoldsAppend
  <2>9. (IF IsEvent(e) THEN m + 1 ELSE m) = (IF EventDue' THEN n - 1 ELSE n)
    BY <2>4, <2>5 DEF m
  <2>10. LogHolds(image', IF EventDue' THEN n - 1 ELSE n)
    BY <2>7, <2>8, <2>9
  <2>11. LogHolds(image, IF EventDue THEN n - 1 ELSE n)'
    BY <1>4, <2>10 DEF LogHolds, TellsFlight
  <2>12. EventDue' => EventDue
    BY <2>4
  <2>13. InData(n)'
    BY <1>2, <1>4, <2>1, <2>7, <2>11, <2>12 DEF InData
  <2> QED  BY <1>6, <2>13 DEF WorkerAt
<1>7. ASSUME Untouched PROVE FALSE
  BY <1>1, <1>7 DEF Untouched
<1>8. ASSUME s.at = 6,
             \/ Writing /\ LogHolds(image, s.ev - 3) /\ job.busy /\ job.req.cmd = "CLOSE_LOG"
             \/ fd = NoPath
      PROVE  FALSE
  BY <1>1, <1>8, ChunkLeft
<1> QED
  BY <1>5, <1>6, <1>7, <1>8 DEF WorkerAt

\* Nothing is abandoned without a failure but the entries of a closed log.
LEMMA AbandonPipe ==
  ASSUME LogInv, LogInv', AbandonChunk, UNCHANGED <<trace, log_name, faults>>,
         NEW s \in Place, WorkerAt(s)
  PROVE  WorkerAt(s)'
<1>1. /\ job.busy /\ job.left # <<>> /\ fd = NoPath /\ job' = NoJob /\ ~job'.busy
      /\ UNCHANGED <<fd, pos, image, durable>>
  BY DEF AbandonChunk, Fault, fileVars, NoJob, LogInv, TypeOK, JobTypeOK
<1>2. ~Writing /\ job.req.cmd \notin {"OPEN_LOG", "CLOSE_LOG"}
  BY <1>1, ChunkLeft, LogJobAssumption DEF Writing
<1>3. UNCHANGED Untouched /\ LoggableEvents' = LoggableEvents
  BY <1>1 DEF Untouched, LoggableEvents
<1>4. CASE s.at = 0 /\ Untouched
  BY <1>1, <1>3, <1>4 DEF WorkerAt
<1>5. CASE /\ s.at = 6 /\ s.ev \in 4..Len(trace) /\ trace[s.ev] = "touchdown"
           /\ fd = NoPath /\ log_name \in Paths /\ LogHolds(durable[log_name], s.ev - 3)
  <2>1. LogHolds(durable[log_name], s.ev - 3)'
    BY <1>1, <1>3, <1>5 DEF LogHolds, TellsFlight
  <2> QED  BY <1>1, <1>5, <2>1 DEF WorkerAt
<1> QED
  BY <1>2, <1>4, <1>5 DEF Pipe, WorkerAt, InHeader, InData

\* A request is done, with a sync or without.
LEMMA FinishPipe ==
  ASSUME LogInv, LogInv', FinishUnsynced \/ FinishSynced, UNCHANGED <<trace, log_name, faults>>,
         NEW s \in Place, WorkerAt(s)
  PROVE  WorkerAt(s)'
<1>1. /\ job.busy /\ job.left = <<>> /\ job' = NoJob /\ ~job'.busy /\ job'.left = <<>>
      /\ UNCHANGED <<fd, pos, image>>
      /\ job.req.cmd \in {"LOG_TRACK_DATA", "LOG_FILE", "LOG_TRACK_FORMAT", "LOG_TRACK_NAMES"}
      /\ job.req.cmd = "LOG_TRACK_DATA" => UNCHANGED durable
  BY DEF FinishUnsynced, FinishSynced, fileVars, NoJob
<1>2. UNCHANGED Writing /\ LoggableEvents' = LoggableEvents
  BY <1>1 DEF Writing, LoggableEvents
<1>3. CASE s.at = 0 /\ Untouched /\ (job.busy => IsEventReq(job.req))
  <2>1. Untouched'
    BY <1>1, <1>3 DEF Untouched, IsEventReq
  <2> QED  BY <1>1, <1>3, <2>1 DEF WorkerAt
<1>4. CASE \E k \in 0..4 : s = At(3, k + 1) /\ InHeader(k)
  <2> PICK k \in 0..4 : s = At(3, k + 1) /\ InHeader(k)
    BY <1>4
  <2>1. InHeader(k)'
    BY <1>1, <1>2 DEF InHeader
  <2> QED  BY <2>1 DEF WorkerAt
<1>5. CASE s.at = 5 /\ s.ev >= 3 /\ InData(s.ev - 3)
  <2>1. ~EventDue /\ ~EventDue'
    BY <1>1 DEF EventDue
  <2>2. LogHolds(image, s.ev - 3)'
    BY <1>1, <1>2, <1>5, <2>1 DEF InData, LogHolds, TellsFlight
  <2>3. InData(s.ev - 3)'
    BY <1>1, <1>2, <1>5, <2>1, <2>2 DEF InData
  <2> QED  BY <1>5, <2>3 DEF WorkerAt
<1>6. CASE /\ s.at = 6 /\ s.ev \in 4..Len(trace) /\ trace[s.ev] = "touchdown"
           /\ fd = NoPath /\ log_name \in Paths /\ LogHolds(durable[log_name], s.ev - 3)
           /\ job.busy => IsSampleReq(job.req)
  <2>1. LogHolds(durable[log_name], s.ev - 3)'
    BY <1>1, <1>2, <1>6 DEF LogHolds, TellsFlight, IsSampleReq
  <2> QED  BY <1>1, <1>6, <2>1 DEF WorkerAt
<1> QED
  BY <1>1, <1>3, <1>4, <1>5, <1>6 DEF WorkerAt

\* The log is opened: the file is empty.
LEMMA OpenPipe ==
  ASSUME LogInv, LogInv', OpenLog, UNCHANGED <<trace, log_name, faults>>,
         NEW s \in Place, WorkerAt(s)
  PROVE  WorkerAt(s)'
<1>1. job.busy /\ job.req.cmd = "OPEN_LOG" /\ job' = NoJob /\ UNCHANGED durable
  BY DEF OpenLog
<1>2. s = At(3, 1) /\ Untouched
  BY <1>1 DEF WorkerAt, InHeader, InData, IsEventReq, IsSampleReq, MetadataCmds
<1>3. current_path \in Paths /\ current_path = log_name
  <2>1. current_path \in Paths
    BY <1>1 DEF LogInv, JobInv, OpensKnownPath
  <2> QED  BY <2>1, LogJobAssumption DEF LogInv, NameInv
<1>4. fd' = log_name /\ pos' = 0 /\ image' = <<>>
  BY <1>2, <1>3 DEF OpenLog, Untouched, Fault, LogInv, TypeOK, JobTypeOK
<1>5. InHeader(0)'
  <2>1. ~job'.busy /\ job'.left = <<>>
    BY <1>1 DEF NoJob
  <2> QED  BY <1>3, <1>4, <2>1 DEF InHeader, Writing
<1>6. s = At(3, 0 + 1)
  BY <1>2
<1> QED
  BY <1>5, <1>6 DEF WorkerAt

\* The log is closed: what it holds is durable.
LEMMA ClosePipe ==
  ASSUME LogInv, LogInv', CloseLog, UNCHANGED <<trace, log_name, faults>>,
         NEW s \in Place, WorkerAt(s)
  PROVE  WorkerAt(s)'
<1>1. /\ job.busy /\ job.req.cmd = "CLOSE_LOG" /\ job' = NoJob /\ ~job'.busy
      /\ fd' = NoPath
      /\ durable' = IF fd = NoPath THEN durable ELSE [durable EXCEPT ![fd] = image]
  <2>1. ~Fault
    BY DEF Fault, LogInv, TypeOK, JobTypeOK
  <2> QED  BY <2>1 DEF CloseLog, NoJob
<1>2. /\ s.at = 6 /\ s.ev \in 4..Len(trace) /\ trace[s.ev] = "touchdown"
      /\ Writing /\ LogHolds(image, s.ev - 3)
  BY <1>1 DEF WorkerAt, InHeader, InData, IsEventReq, IsSampleReq, MetadataCmds
<1>3. durable'[log_name] = image /\ log_name \in Paths
  <2>1. durable \in [Paths -> Seq(Element)]
    BY DEF LogInv, TypeOK, JobTypeOK
  <2> QED  BY <1>1, <1>2, <2>1, LogJobAssumption DEF Writing
<1>4. LogHolds(durable[log_name], s.ev - 3)'
  <2>1. LoggableEvents' = LoggableEvents
    BY DEF LoggableEvents
  <2> QED  BY <1>2, <1>3, <2>1 DEF LogHolds, TellsFlight
<1> QED
  BY <1>1, <1>2, <1>3, <1>4 DEF WorkerAt

LEMMA ConsumePipe ==
  ASSUME LogInv, LogInv', Consume, UNCHANGED faults,
         NEW s \in Place, NEW t \in Place, Pipe(s, t)
  PROVE  PipeOn'
<1>1. UNCHANGED <<trace, todo, close_work, log_name>>
  BY DEF Consume, mainVars, logVars
<1>2. CASE S!Work
  <2>1. Perform /\ UNCHANGED queue
    BY <1>2, ServiceSteps
  <2>2. WorkerAt(s)'
    BY <1>1, <2>1, WritePipe, AbandonPipe, FinishPipe, OpenPipe, ClosePipe DEF Perform, Pipe
  <2>3. MainAt(t)'
    BY <1>1 DEF Pipe, MainAt
  <2>4. Pipe(s, t)'
    BY <1>1, <2>1, <2>2, <2>3 DEF Pipe, CloseOnTheWay
  <2> QED  BY <2>4 DEF PipeOn
<1> QED
  BY <1>2, StartPipe DEF Consume

LEMMA PipeStep ==
  ASSUME LogInv, LogInv', NoFailure => PipeOn, [Next]_vars
  PROVE  NoFailure' => PipeOn'
<1> SUFFICES ASSUME NoFailure' PROVE PipeOn'
  OBVIOUS
<1>1. NoFailure /\ UNCHANGED <<refusals, faults>>
  BY FailuresStay
<1> PICK s \in Place, t \in Place : Pipe(s, t)
  BY <1>1 DEF PipeOn
<1>2. CASE Boot \/ Sample \/ FlightstateUpdate
  BY <1>2, FirePipe DEF PipeOn
<1>3. CASE rocket_data_logging_set_name
  BY <1>3, SetNamePipe DEF PipeOn
<1>4. CASE RocketDataLogging \/ PreBuffer
  BY <1>4, SamplePipe DEF PipeOn
<1>5. CASE Activate
  BY <1>5, ActivatePipe DEF PipeOn
<1>6. CASE ScheduleClose
  BY <1>6, ScheduleClosePipe DEF PipeOn
<1>7. CASE OpenLogCall \/ FormatCall \/ NamesCall \/ TrackData
  BY <1>1, <1>7, OpenLogCallPipe, HeaderPipe, TrackDataPipe
<1>8. CASE StopLog \/ Consume
  BY <1>1, <1>8, StopLogPipe, ConsumePipe
<1>9. CASE UNCHANGED vars
  <2>1. UNCHANGED <<fileVars, job, log_name, trace, queue, todo, close_work>>
    BY <1>9 DEF vars, mainVars, logVars, jobVars, fileVars
  <2>2. MainAt(t)'
    BY <2>1 DEF Pipe, MainAt
  <2>3. Pipe(s, t)'
    BY <2>1, <2>2, PipeStays
  <2> QED  BY <2>3 DEF PipeOn
<1> QED
  BY <1>2, <1>3, <1>4, <1>5, <1>6, <1>7, <1>8, <1>9 DEF Next, Main

\* The pipeline holds as long as nothing has failed.
LEMMA PipeInvariant == Spec => [](LogInv /\ PipeInv)
<1>1. Init => LogInv /\ PipeInv
  BY LogInit, PipeInit DEF PipeInv
<1>2. LogInv /\ PipeInv /\ [Next]_vars => (LogInv /\ PipeInv)'
  <2> SUFFICES ASSUME LogInv, PipeInv, [Next]_vars PROVE LogInv' /\ PipeInv'
    OBVIOUS
  <2>1. LogInv'
    BY LogStep
  <2>2. NoFailure' => PipeOn'
    BY <2>1, PipeStep DEF PipeInv
  <2>3. PipeInv'
    BY <2>2 DEF PipeInv
  <2> QED  BY <2>1, <2>3
<1> QED
  BY <1>1, <1>2, PTL DEF Spec
--------------------------------------------------------------------------------
(* What the pipeline says of the file *)

\* Whatever the thread is at, the file starts with as much of the header as it
\* holds, and tells the flight.
LEMMA FileTells ==
  ASSUME LogInv, PipeInv, NoFailure
  PROVE  /\ \A i \in 1..Len(File) : i <= 8 => File[i] = Header[i]
         /\ TellsFlight(File)
<1> PICK s \in Place, t \in Place : Pipe(s, t)
  BY DEF PipeInv, PipeOn
<1>1. /\ image \in Seq(Element) /\ durable \in [Paths -> Seq(Element)] /\ NoPath \notin Paths
  BY LogJobAssumption DEF LogInv, TypeOK, JobTypeOK
<1>2. CASE Untouched
  <2>1. log_name \in Paths \cup {NoPath}
    BY DEF LogInv, TypeOK
  <2>2. File = <<>>
    BY <1>1, <1>2, <2>1 DEF File, Untouched
  <2> QED  BY <2>2 DEF TellsFlight
<1>3. CASE Writing /\ \E n : LogHolds(image, n)
  <2>1. File = image
    BY <1>1, <1>3 DEF File, Writing
  <2> QED  BY <1>1, <1>3, <2>1 DEF LogHolds
<1>4. CASE fd = NoPath /\ log_name \in Paths /\ \E n : LogHolds(durable[log_name], n)
  <2>1. File = durable[log_name] /\ File \in Seq(Element)
    BY <1>1, <1>4 DEF File
  <2>2. PICK n : LogHolds(File, n)
    BY <1>4, <2>1
  <2> QED  BY <2>1, <2>2 DEF LogHolds
<1>5. ASSUME NEW k \in 0..4, InHeader(k)
      PROVE  /\ \A i \in 1..Len(File) : i <= 8 => File[i] = Header[i]
             /\ TellsFlight(File)
  <2>1. File = image /\ \A i \in 1..Len(image) : image[i] = Header[i]
    BY <1>1, <1>5 DEF File, InHeader, Writing
  <2>2. Len(image) <= 8 /\ Len(image) \in Nat
    <3>1. Len(image) + Len(job.left) = 2 * k
      BY <1>5 DEF InHeader
    <3>2. job.left \in Seq(Element)
      BY DEF LogInv, TypeOK, JobTypeOK
    <3>3. Len(image) \in Nat /\ Len(job.left) \in Nat
      BY <1>1, <3>2
    <3> QED  BY <3>1, <3>3
  <2>3. \A i \in 1..Len(image) : ~IsEvent(image[i])
    BY <2>1, <2>2, HeaderNoEvent
  <2> QED  BY <1>1, <2>1, <2>3, TellsNothing
<1>6. CASE \E k \in 0..4 : s = At(3, k + 1) /\ InHeader(k)
  BY <1>5, <1>6
<1>7. CASE s.at = 5 /\ s.ev >= 3 /\ InData(s.ev - 3)
  BY <1>3, <1>7 DEF InData
<1> QED
  BY <1>2, <1>3, <1>4, <1>6, <1>7 DEF Pipe, WorkerAt

\* As long as the heap and the file system refuse nothing, the file starts
\* with the formats and the names of both tracks: no data can overtake them on
\* the way through the queue, from whichever thread, and none is written before.
THEOREM HeaderComesFirst == Spec => []HeaderFirst
<1>1. LogInv /\ PipeInv => HeaderFirst
  BY FileTells, HeaderIs DEF HeaderFirst
<1> QED
  BY <1>1, PipeInvariant, PTL

\* Under the same condition the events in the file are, at every moment and for
\* flights of any length, the first events of the flight from pad_ready on, in
\* the order they fired: none is lost, doubled or out of order.
THEOREM EventsTold == Spec => []EventsInOrder
<1>1. LogInv /\ PipeInv => EventsInOrder
  BY FileTells DEF EventsInOrder
<1> QED
  BY <1>1, PipeInvariant, PTL

\* Once the log is closed, it is as complete as it gets.
LEMMA ClosedLog ==
  ASSUME LogInv, PipeInv, NoFailure, LogClosed
  PROVE  /\ fd = NoPath /\ log_name \in Paths /\ (job.busy => IsSampleReq(job.req))
         /\ LogHolds(durable[log_name], Len(LoggableEvents))
<1> PICK s \in Place, t \in Place : Pipe(s, t)
  BY DEF PipeInv, PipeOn
<1>1. trace \in Seq(M!Events) /\ close_work = "done"
  BY DEF LogInv, TypeOK, LogClosed
<1>2. Len(trace) >= 5 /\ Len(trace) \in Nat
  BY <1>1, TouchdownLate DEF LogInv, TraceInv
<1>3. todo \in {<<>>} \cup Samples
  BY <1>1 DEF LogInv, TodoInv
<1>4. t = At(Len(trace), 6) /\ t.at = 6
  <2>1. t = At(Len(trace), IF Len(trace) < 4 THEN 0 ELSE IF close_work = "done" THEN 6 ELSE 5)
    BY <1>3, MainTells DEF Pipe
  <2> QED  BY <1>1, <1>2, <2>1, Places
<1>5. s.at = 6
  BY <1>4 DEF Pipe, CloseOnTheWay, LogClosed
<1>6. /\ s.ev \in 4..Len(trace) /\ trace[s.ev] = "touchdown"
      /\ fd = NoPath /\ log_name \in Paths /\ LogHolds(durable[log_name], s.ev - 3)
      /\ job.busy => IsSampleReq(job.req)
  <2>1. \A k : At(3, k).at = k
    BY Places
  <2> QED  BY <1>5, <2>1 DEF Pipe, WorkerAt, LogClosed
<1>7. s.ev = Len(trace)
  BY <1>2, <1>6 DEF LogInv, TraceInv
<1>8. s.ev - 3 = Len(LoggableEvents)
  BY <1>1, <1>2, <1>7, LoggableEventsAre
<1> QED
  BY <1>6, <1>8

\* A flight without failures ends with a file that durably holds every
\* event from pad_ready on, the touchdown included: the delayed stop_log cannot overtake the
\* entry of the touchdown, however the three threads interleave.
THEOREM CompleteWhenClosed == Spec => []ClosedLogComplete
<1>1. LogInv /\ PipeInv => ClosedLogComplete
  BY ClosedLog DEF ClosedLogComplete, LogHolds
<1> QED
  BY <1>1, PipeInvariant, PTL

\* And that file stays as it is: the entries still queued after the touchdown
\* reach no file.
THEOREM FinalWhenClosed == Spec => ClosedLogFinal
<1>1. LogInv /\ PipeInv /\ [Next]_vars => (LogClosed /\ NoFailure => UNCHANGED <<fd, image, durable>>)
  <2> SUFFICES ASSUME LogInv, PipeInv, [Next]_vars, LogClosed, NoFailure
               PROVE  UNCHANGED <<fd, image, durable>>
    OBVIOUS
  <2>1. fd = NoPath /\ (job.busy => IsSampleReq(job.req))
    BY ClosedLog
  <2>2. CASE Main
    BY <2>2, ServiceSteps DEF Main, Boot, rocket_data_logging_set_name, Sample,
       FlightstateUpdate, RocketDataLogging, OpenLogCall, FormatCall, NamesCall, Activate,
       TrackData, PreBuffer, ScheduleClose, jobVars, fileVars
  <2>3. CASE StopLog
    BY <2>3, ServiceSteps DEF StopLog, jobVars, fileVars
  <2>4. CASE Consume
    <3>1. (\E r : StartJob(r)) \/ Perform
      BY <2>4, ServiceSteps DEF Consume
    <3>2. CASE \E r : StartJob(r)
      BY <3>2 DEF StartJob, fileVars
    <3>3. CASE Perform
      BY <2>1, <3>3 DEF Perform, WriteElement, AbandonChunk, FinishUnsynced, FinishSynced,
         OpenLog, CloseLog, IsSampleReq, fileVars
    <3> QED  BY <3>1, <3>2, <3>3
  <2>5. CASE UNCHANGED vars
    BY <2>5 DEF vars, jobVars
  <2> QED  BY <2>2, <2>3, <2>4, <2>5 DEF Next
<1> QED
  BY <1>1, PipeInvariant, PTL DEF Spec, ClosedLogFinal
================================================================================
