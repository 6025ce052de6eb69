------------------------------- MODULE Daq_proof -------------------------------
(***************************************************************************)
(* Proofs of the handshake of the data acquisition: no lock is contended,  *)
(* and every sample announced reaches the main thread once and whole, for  *)
(* any number of sensors.                                                  *)
(***************************************************************************)
EXTENDS Daq, TLAPS

(* The queue of ready threads *)

In(q, t) == \E i \in 1..Len(q) : q[i] = t

Before(q, t, u) == \E i, j \in 1..Len(q) : i < j /\ q[i] = t /\ q[j] = u

Distinct(q) == \A i, j \in 1..Len(q) : q[i] = q[j] => i = j

\* Where a thread can be while it waits, is ready, and runs.
Asleep == [main       |-> {"startup", "waiting"},
           daq_sensor |-> {"waiting", "bus", "aborted"},
           sysworkq   |-> {"idle"}]

Rested == [main       |-> {"lock", "relock"},
           daq_sensor |-> {"start", "relock", "get"},
           sysworkq   |-> {"work"}]

Awake == [main       |-> {"lock", "wait", "relock", "unlock", "get", "process"},
          daq_sensor |-> {"start", "lock", "wait", "relock", "unlock", "fetch",
                          "get", "announce_lock", "announce", "announce_unlock"},
          sysworkq   |-> {"work", "broadcast", "unlock"}]

\* Where a thread holds a mutex.
Holding ==
  [condvar_lock    |-> [main |-> {}, daq_sensor |-> {"wait", "unlock"},
                        sysworkq |-> {"broadcast", "unlock"}],
   new_sample_lock |-> [main |-> {"wait", "unlock"},
                        daq_sensor |-> {"announce", "announce_unlock"}, sysworkq |-> {}]]

\* A thread that waits or is ready stands at a place to wait or to be ready at.
Sched ==
  /\ Distinct(ready)
  /\ \A t \in Threads :
       /\ ~In(ready, t) => pc[t] \in Asleep[t]
       /\ In(ready, t) /\ Head(ready) # t => pc[t] \in Rested[t]
       /\ In(ready, t) /\ Head(ready) = t => pc[t] \in Awake[t]

\* Only the running thread holds a mutex, and only between locking and unlocking.
Owners ==
  \A m \in Mutexes : owner[m] # "none" =>
    /\ ready # <<>> /\ Head(ready) = owner[m]
    /\ pc[owner[m]] \in Holding[m][owner[m]]

\* The main thread has been announced a sample and has not finished with it, or
\* it has had a sample before and is about to wait.
Served == \/ pc["main"] \in {"relock", "unlock", "get", "process"}
          \/ sample # NoSample /\ pc["main"] \in {"lock", "wait"}

\* Until then the sampling thread does not begin a round: it is on its way to
\* wait, waits, or has been triggered and is behind the main thread.
Order ==
  /\ Served => \/ pc["daq_sensor"] \in {"announce_unlock", "lock", "wait", "waiting"}
               \/ pc["daq_sensor"] = "relock" /\ Before(ready, "main", "daq_sensor")
  /\ sample # NoSample => pc["main"] # "startup"
  /\ pc["main"] \in {"relock", "unlock", "get"} => fresh

\* The buffers hold the round announced, but for failed fetches.
Whole ==
  /\ pc["daq_sensor"] \in {"fetch", "bus", "get"} =>
       \A s \in 1..Sensors \ stale : s < sensor => data[s] = round
  /\ pc["daq_sensor"] \in {"announce_lock", "announce"} =>
       \A s \in 1..Sensors \ stale : data[s] = round
  /\ pc["main"] \in {"relock", "unlock", "get"} =>
       round = announced /\ \A s \in 1..Sensors \ stale : data[s] = announced
  /\ SampleWhole

IInv == TypeOK /\ Sched /\ Owners /\ Order /\ Whole
--------------------------------------------------------------------------------
\* The first of a queue is in it, and nobody is before it.
LEMMA HeadFacts ==
  ASSUME NEW q \in Seq(Threads), Distinct(q), q # <<>>
  PROVE  /\ In(q, Head(q)) /\ Head(q) \in Threads
         /\ \A t : ~Before(q, t, Head(q))
<1>1. Len(q) \in Nat /\ Len(q) >= 1 /\ Head(q) = q[1] /\ q[1] \in Threads
  OBVIOUS
<1>2. In(q, Head(q))
  BY <1>1 DEF In
<1>3. ASSUME NEW t, Before(q, t, Head(q)) PROVE FALSE
  <2>1. PICK i, j \in 1..Len(q) : i < j /\ q[i] = t /\ q[j] = Head(q)
    BY <1>3 DEF Before
  <2>2. j = 1
    BY <1>1, <2>1 DEF Distinct
  <2> QED
    BY <2>1, <2>2
<1> QED
  BY <1>1, <1>2, <1>3

\* What a thread that becomes ready does to the queue.
LEMMA AppendFacts ==
  ASSUME NEW q \in Seq(Threads), Distinct(q), NEW t \in Threads, ~In(q, t)
  PROVE  /\ Append(q, t) \in Seq(Threads) /\ Distinct(Append(q, t))
         /\ \A u : In(Append(q, t), u) <=> In(q, u) \/ u = t
         /\ \A u : In(q, u) => Before(Append(q, t), u, t)
         /\ \A u, v : Before(q, u, v) => Before(Append(q, t), u, v)
         /\ q # <<>> => Head(Append(q, t)) = Head(q)
         /\ q = <<>> => Head(Append(q, t)) = t
         /\ Append(q, t) # <<>>
<1> DEFINE r == Append(q, t)
           n == Len(q)
<1>1. /\ r \in Seq(Threads) /\ n \in Nat /\ Len(r) = n + 1
      /\ \A i \in 1..n : r[i] = q[i]
      /\ r[n + 1] = t
      /\ q # <<>> <=> n # 0
      /\ Head(r) = r[1] /\ q # <<>> => Head(q) = q[1]
  OBVIOUS
<1> HIDE DEF r
<1>2. Distinct(r)
  BY <1>1 DEF Distinct, In
<1>3. \A u : In(r, u) <=> In(q, u) \/ u = t
  BY <1>1 DEF In
<1>4. ASSUME NEW u, In(q, u) PROVE Before(r, u, t)
  <2>1. PICK i \in 1..n : q[i] = u
    BY <1>4 DEF In
  <2>2. i \in 1..Len(r) /\ n + 1 \in 1..Len(r) /\ i < n + 1 /\ r[i] = u
    BY <1>1, <2>1
  <2> QED
    BY <1>1, <2>2 DEF Before
<1>5. ASSUME NEW u, NEW v, Before(q, u, v) PROVE Before(r, u, v)
  BY <1>1, <1>5 DEF Before
<1>6. (q # <<>> => Head(r) = Head(q)) /\ (q = <<>> => Head(r) = t) /\ r # <<>>
  BY <1>1 DEF r
<1> QED
  BY <1>1, <1>2, <1>3, <1>4, <1>5, <1>6 DEF r

\* What the first thread's leaving does to the queue.
LEMMA TailFacts ==
  ASSUME NEW q \in Seq(Threads), Distinct(q), q # <<>>
  PROVE  /\ Tail(q) \in Seq(Threads) /\ Distinct(Tail(q))
         /\ \A u : In(Tail(q), u) <=> In(q, u) /\ u # Head(q)
         /\ \A u, v : Before(q, u, v) /\ u # Head(q) => Before(Tail(q), u, v)
         /\ Tail(q) # <<>> => Head(Tail(q)) # Head(q) /\ In(q, Head(Tail(q)))
<1> DEFINE r == Tail(q)
           n == Len(q)
<1>1. /\ r \in Seq(Threads) /\ n \in Nat /\ n >= 1 /\ Len(r) = n - 1
      /\ \A i \in 1..(n - 1) : r[i] = q[i + 1]
      /\ Head(q) = q[1]
      /\ r # <<>> => n - 1 >= 1 /\ Head(r) = r[1]
  OBVIOUS
<1> HIDE DEF r
<1>2. Distinct(r)
  BY <1>1 DEF Distinct
<1>3. \A u : In(r, u) <=> In(q, u) /\ u # Head(q)
  <2>1. ASSUME NEW u, In(r, u) PROVE In(q, u) /\ u # Head(q)
    <3>1. PICK i \in 1..(n - 1) : r[i] = u
      BY <1>1, <2>1 DEF In
    <3>2. i + 1 \in 1..n /\ q[i + 1] = u /\ 1 \in 1..n /\ i + 1 # 1
      BY <1>1, <3>1
    <3> QED
      BY <1>1, <3>2 DEF In, Distinct
  <2>2. ASSUME NEW u, In(q, u), u # Head(q) PROVE In(r, u)
    <3>1. PICK i \in 1..n : q[i] = u
      BY <2>2 DEF In
    <3>2. i - 1 \in 1..(n - 1) /\ r[i - 1] = q[(i - 1) + 1] /\ (i - 1) + 1 = i
      BY <1>1, <2>2, <3>1
    <3> QED
      BY <1>1, <3>1, <3>2 DEF In
  <2> QED
    BY <2>1, <2>2
<1>4. ASSUME NEW u, NEW v, Before(q, u, v), u # Head(q) PROVE Before(r, u, v)
  <2>1. PICK i, j \in 1..n : i < j /\ q[i] = u /\ q[j] = v
    BY <1>4 DEF Before
  <2>2. /\ i - 1 \in 1..(n - 1) /\ j - 1 \in 1..(n - 1) /\ i - 1 < j - 1
        /\ (i - 1) + 1 = i /\ (j - 1) + 1 = j
    BY <1>1, <1>4, <2>1
  <2>3. r[i - 1] = u /\ r[j - 1] = v
    BY <1>1, <2>1, <2>2
  <2> QED
    BY <1>1, <2>2, <2>3 DEF Before
<1>5. r # <<>> => In(r, Head(r))
  BY <1>1 DEF In
<1> QED
  BY <1>1, <1>2, <1>3, <1>4, <1>5 DEF r
--------------------------------------------------------------------------------
(* What a call of the kernel does to the schedule *)

\* A ready thread may run, a waiting one may not.
LEMMA PlaceFacts ==
  ASSUME NEW t \in Threads
  PROVE  /\ Rested[t] \subseteq Awake[t]
         /\ Asleep[t] \cap Awake[t] = {}
BY DEF Threads, Rested, Awake, Asleep

\* The running thread is ready, and the others are where they rest.
LEMMA RunningFacts ==
  ASSUME TypeOK, Sched, NEW t \in Threads, NEW l, Runs(t, l)
  PROVE  /\ In(ready, t) /\ pc[t] = l /\ l \in Awake[t]
         /\ \A u \in Threads \ {t} : pc[u] \in Asleep[u] \cup Rested[u]
         /\ \A u : ~Before(ready, u, t)
BY HeadFacts DEF TypeOK, Sched, Runs

\* The running thread goes on.
LEMMA GotoSched ==
  ASSUME TypeOK, Sched, NEW t \in Threads, NEW l, Runs(t, l),
         NEW n \in Awake[t], Goto(t, n)
  PROVE  Sched'
<1>1. pc'[t] = n /\ ready' = ready /\ \A u \in Threads \ {t} : pc'[u] = pc[u]
  BY DEF Goto, TypeOK
<1> QED
  BY <1>1, RunningFacts DEF Sched, Runs

\* The running thread waits.
LEMMA WaitSched ==
  ASSUME TypeOK, Sched, NEW t \in Threads, NEW l, Runs(t, l),
         NEW n \in Asleep[t], WaitAt(t, n)
  PROVE  Sched'
<1>1. pc'[t] = n /\ ready' = Tail(ready) /\ \A u \in Threads \ {t} : pc'[u] = pc[u]
  BY DEF WaitAt, TypeOK
<1>2. ready \in Seq(Threads) /\ Distinct(ready) /\ ready # <<>> /\ Head(ready) = t
  BY DEF TypeOK, Sched, Runs
<1>3. Distinct(ready') /\ ~In(ready', t)
  BY <1>1, <1>2, TailFacts
<1>4. \A u \in Threads \ {t} : In(ready', u) <=> In(ready, u)
  BY <1>1, <1>2, TailFacts
<1>5. \A u \in Threads \ {t} : /\ In(ready, u) => pc[u] \in Rested[u] /\ pc[u] \in Awake[u]
                               /\ ~In(ready, u) => pc[u] \in Asleep[u]
  BY <1>2, PlaceFacts DEF Sched
<1> QED
  BY <1>1, <1>3, <1>4, <1>5 DEF Sched

\* An interrupt wakes a waiting thread.
LEMMA WakeSched ==
  ASSUME TypeOK, Sched, NEW t \in Threads, ~In(ready, t),
         NEW n \in Rested[t], Wake(t, n)
  PROVE  Sched'
<1>1. pc'[t] = n /\ ready' = Append(ready, t) /\ \A u \in Threads \ {t} : pc'[u] = pc[u]
  BY DEF Wake, TypeOK
<1>2. ready \in Seq(Threads) /\ Distinct(ready)
  BY DEF TypeOK, Sched
<1>3. /\ Distinct(ready')
      /\ \A u \in Threads : In(ready', u) <=> In(ready, u) \/ u = t
      /\ ready # <<>> => Head(ready') = Head(ready)
      /\ ready = <<>> => Head(ready') = t
  BY <1>1, <1>2, AppendFacts
<1>4. n \in Awake[t]
  BY PlaceFacts
<1>5. \A u \in Threads : In(ready, u) => ready # <<>>
  BY <1>2 DEF In
<1> QED
  BY <1>1, <1>3, <1>4, <1>5 DEF Sched

\* The running thread wakes the waiter of a condition variable, if there is one.
LEMMA BroadcastSched ==
  ASSUME TypeOK, Sched, NEW t \in Threads, NEW l, Runs(t, l), NEW n \in Awake[t],
         NEW w \in {"main", "daq_sensor"}, w # t, Broadcast(t, n, w)
  PROVE  Sched'
<1>1. CASE pc[w] # "waiting"
  BY <1>1, GotoSched DEF Broadcast
<1>2. CASE pc[w] = "waiting"
  <2>1. w \in Threads /\ "waiting" \notin Awake[w] /\ "relock" \in Rested[w]
        /\ "waiting" \notin Rested[w]
    BY DEF Threads, Awake, Rested
  <2>2. ~In(ready, w)
    BY <1>2, <2>1 DEF Sched
  <2>3. /\ pc'[t] = n /\ pc'[w] = "relock" /\ ready' = Append(ready, w)
        /\ \A u \in Threads \ {t, w} : pc'[u] = pc[u]
    BY <1>2, <2>1 DEF Broadcast, TypeOK
  <2>4. ready \in Seq(Threads) /\ Distinct(ready) /\ ready # <<>> /\ Head(ready) = t
    BY DEF TypeOK, Sched, Runs
  <2>5. /\ Distinct(ready') /\ Head(ready') = t
        /\ \A u \in Threads : In(ready', u) <=> In(ready, u) \/ u = w
    BY <2>1, <2>2, <2>3, <2>4, AppendFacts
  <2>6. In(ready, t)
    BY RunningFacts
  <2> QED
    BY <2>1, <2>3, <2>4, <2>5, <2>6 DEF Sched
<1> QED
  BY <1>1, <1>2

\* The running thread yields to the others that are ready.
LEMMA YieldSched ==
  ASSUME TypeOK, Sched, NEW t \in Threads, NEW l, Runs(t, l), NEW n \in Rested[t],
         pc' = [pc EXCEPT ![t] = n], ready' = Append(Tail(ready), t)
  PROVE  Sched'
<1> DEFINE q == Tail(ready)
<1>1. pc'[t] = n /\ \A u \in Threads \ {t} : pc'[u] = pc[u]
  BY DEF TypeOK
<1>2. ready \in Seq(Threads) /\ Distinct(ready) /\ ready # <<>> /\ Head(ready) = t
  BY DEF TypeOK, Sched, Runs
<1>3. /\ q \in Seq(Threads) /\ Distinct(q)
      /\ \A u : In(q, u) <=> In(ready, u) /\ u # t
  BY <1>2, TailFacts
<1> HIDE DEF q
<1>4. Distinct(ready') /\ \A u : In(ready', u) <=> In(q, u) \/ u = t
  BY <1>3, AppendFacts DEF q
<1>5. \A u \in Threads \ {t} : /\ In(ready, u) => pc[u] \in Rested[u] /\ pc[u] \in Awake[u]
                               /\ ~In(ready, u) => pc[u] \in Asleep[u]
  BY <1>2, PlaceFacts DEF Sched
<1>6. n \in Awake[t]
  BY PlaceFacts
<1> QED
  BY <1>1, <1>3, <1>4, <1>5, <1>6 DEF Sched
--------------------------------------------------------------------------------
(* The invariant, action by action *)

\* Where the other threads are while one runs.
LEMMA WhoRuns ==
  ASSUME TypeOK, Sched
  PROVE  /\ \A l : Runs("main", l) =>
              /\ In(ready, "main") /\ ready # <<>> /\ Head(ready) = "main"
              /\ pc["main"] = l /\ l \in Awake.main
              /\ pc["daq_sensor"] \in Asleep.daq_sensor \cup Rested.daq_sensor
              /\ pc["sysworkq"] \in {"idle", "work"}
         /\ \A l : Runs("daq_sensor", l) =>
              /\ In(ready, "daq_sensor") /\ ready # <<>> /\ Head(ready) = "daq_sensor"
              /\ pc["daq_sensor"] = l /\ l \in Awake.daq_sensor
              /\ pc["main"] \in Asleep.main \cup Rested.main
              /\ pc["sysworkq"] \in {"idle", "work"}
              /\ ~Before(ready, "main", "daq_sensor")
         /\ \A l : Runs("sysworkq", l) =>
              /\ In(ready, "sysworkq") /\ ready # <<>> /\ Head(ready) = "sysworkq"
              /\ pc["sysworkq"] = l /\ l \in Awake.sysworkq
              /\ pc["main"] \in Asleep.main \cup Rested.main
              /\ pc["daq_sensor"] \in Asleep.daq_sensor \cup Rested.daq_sensor
         /\ pc["sysworkq"] = "idle" => ~In(ready, "sysworkq")
         /\ pc["daq_sensor"] \in {"waiting", "bus"} => ~In(ready, "daq_sensor")
         /\ pc["main"] \in {"startup", "waiting"} => ~In(ready, "main")
<1>1. "main" \in Threads /\ "daq_sensor" \in Threads /\ "sysworkq" \in Threads
  BY DEF Threads
<1>2. \A t \in Threads : /\ In(ready, t) /\ Head(ready) # t => pc[t] \in Rested[t]
                         /\ In(ready, t) /\ Head(ready) = t => pc[t] \in Awake[t]
  BY DEF Sched
<1>3. \A t \in Threads : \A l : Runs(t, l) => ready # <<>> /\ Head(ready) = t
  BY DEF Runs
<1>4. ASSUME NEW l, Runs("main", l)
      PROVE  /\ In(ready, "main") /\ pc["main"] = l /\ l \in Awake["main"]
             /\ pc["daq_sensor"] \in Asleep["daq_sensor"] \cup Rested["daq_sensor"]
             /\ pc["sysworkq"] \in Asleep["sysworkq"] \cup Rested["sysworkq"]
  BY <1>1, <1>4, RunningFacts DEF Threads
<1>5. ASSUME NEW l, Runs("daq_sensor", l)
      PROVE  /\ In(ready, "daq_sensor") /\ pc["daq_sensor"] = l /\ l \in Awake["daq_sensor"]
             /\ pc["main"] \in Asleep["main"] \cup Rested["main"]
             /\ pc["sysworkq"] \in Asleep["sysworkq"] \cup Rested["sysworkq"]
             /\ ~Before(ready, "main", "daq_sensor")
  BY <1>1, <1>5, RunningFacts DEF Threads
<1>6. ASSUME NEW l, Runs("sysworkq", l)
      PROVE  /\ In(ready, "sysworkq") /\ pc["sysworkq"] = l /\ l \in Awake["sysworkq"]
             /\ pc["main"] \in Asleep["main"] \cup Rested["main"]
             /\ pc["daq_sensor"] \in Asleep["daq_sensor"] \cup Rested["daq_sensor"]
  BY <1>1, <1>6, RunningFacts DEF Threads
<1> QED
  BY <1>1, <1>2, <1>3, <1>4, <1>5, <1>6 DEF Asleep, Rested, Awake

\* Every step leaves each thread at a place where it can wait, be ready or run.
LEMMA SchedStep ==
  ASSUME TypeOK, Sched, Next
  PROVE  Sched'
<1>1. /\ Threads = {"main", "daq_sensor", "sysworkq"}
      /\ Asleep["main"] = {"startup", "waiting"}
      /\ Asleep["daq_sensor"] = {"waiting", "bus", "aborted"}
      /\ Asleep["sysworkq"] = {"idle"}
      /\ Rested["main"] = {"lock", "relock"}
      /\ Rested["daq_sensor"] = {"start", "relock", "get"}
      /\ Rested["sysworkq"] = {"work"}
      /\ Awake["main"] = {"lock", "wait", "relock", "unlock", "get", "process"}
      /\ Awake["daq_sensor"] = {"start", "lock", "wait", "relock", "unlock", "fetch", "get",
                                "announce_lock", "announce", "announce_unlock"}
      /\ Awake["sysworkq"] = {"work", "broadcast", "unlock"}
  BY DEF Threads, Asleep, Rested, Awake
<1>2. /\ pc["sysworkq"] = "idle" => ~In(ready, "sysworkq")
      /\ pc["daq_sensor"] \in {"waiting", "bus"} => ~In(ready, "daq_sensor")
      /\ pc["main"] \in {"startup", "waiting"} => ~In(ready, "main")
  BY WhoRuns
<1>3. CASE Tick
  <2>1. CASE pc["sysworkq"] = "idle"
    <3>1. Wake("sysworkq", "work")
      BY <1>3, <2>1 DEF Tick
    <3> QED
      BY <1>1, <1>2, <2>1, <3>1, WakeSched
  <2>2. CASE pc["sysworkq"] # "idle"
    BY <1>3, <2>2 DEF Tick, Sched
  <2> QED
    BY <2>1, <2>2
<1>4. CASE Trigger
  <2>1. CASE SampleStartLock
    BY <1>1, <2>1, GotoSched DEF SampleStartLock, Lock
  <2>2. CASE SampleStartBroadcast
    BY <1>1, <2>2, BroadcastSched DEF SampleStartBroadcast
  <2>3. CASE SampleStartUnlock
    BY <1>1, <2>3, YieldSched DEF SampleStartUnlock
  <2>4. CASE WorkqueueIdle
    BY <1>1, <2>4, WaitSched DEF WorkqueueIdle
  <2> QED
    BY <1>4, <2>1, <2>2, <2>3, <2>4 DEF Trigger
<1>5. CASE Sampling
  <2>1. CASE CheckDevices
    BY <1>1, <2>1, GotoSched, WaitSched DEF CheckDevices
  <2>2. CASE TriggerLock
    BY <1>1, <2>2, GotoSched DEF TriggerLock, Lock
  <2>3. CASE TriggerWait
    BY <1>1, <2>3, WaitSched DEF TriggerWait, CondvarWait
  <2>4. CASE TriggerRelock
    BY <1>1, <2>4, GotoSched DEF TriggerRelock, Lock
  <2>5. CASE TriggerUnlock
    BY <1>1, <2>5, GotoSched DEF TriggerUnlock, Unlock
  <2>6. CASE FetchStart
    BY <1>1, <2>6, WaitSched DEF FetchStart
  <2>7. CASE ChannelGet
    <3>1. PICK n \in {"fetch", "announce_lock"} : Goto("daq_sensor", n)
      BY <2>7 DEF ChannelGet
    <3> QED
      BY <1>1, <2>7, <3>1, GotoSched DEF ChannelGet
  <2>8. CASE AnnounceLock
    BY <1>1, <2>8, GotoSched DEF AnnounceLock, Lock
  <2>9. CASE Announce
    BY <1>1, <2>9, BroadcastSched DEF Announce
  <2>10. CASE AnnounceUnlock
    BY <1>1, <2>10, GotoSched DEF AnnounceUnlock, Unlock
  <2> QED
    BY <1>5, <2>1, <2>2, <2>3, <2>4, <2>5, <2>6, <2>7, <2>8, <2>9, <2>10 DEF Sampling
<1>6. CASE TransferDone
  BY <1>1, <1>2, <1>6, WakeSched DEF TransferDone
<1>7. CASE StartupDone
  BY <1>1, <1>2, <1>7, WakeSched DEF StartupDone
<1>8. CASE Main
  <2>1. CASE SyncLock
    BY <1>1, <2>1, GotoSched DEF SyncLock, Lock
  <2>2. CASE SyncWait
    BY <1>1, <2>2, WaitSched DEF SyncWait, CondvarWait
  <2>3. CASE SyncRelock
    BY <1>1, <2>3, GotoSched DEF SyncRelock, Lock
  <2>4. CASE SyncUnlock
    BY <1>1, <2>4, GotoSched DEF SyncUnlock, Unlock
  <2>5. CASE GetSamples
    BY <1>1, <2>5, GotoSched DEF GetSamples
  <2>6. CASE Process
    BY <1>1, <2>6, GotoSched DEF Process
  <2> QED
    BY <1>8, <2>1, <2>2, <2>3, <2>4, <2>5, <2>6 DEF Main
<1> QED
  BY <1>3, <1>4, <1>5, <1>6, <1>7, <1>8 DEF Next
\* Every step keeps the types.
LEMMA TypeStep ==
  ASSUME TypeOK, Sched, Next
  PROVE  TypeOK'
<1>1. /\ Threads = {"main", "daq_sensor", "sysworkq"}
      /\ Mutexes = {"condvar_lock", "new_sample_lock"}
      /\ Colours = 0..2 /\ Blank = 3
  BY DEF Threads, Mutexes, Colours, Blank
<1>2. /\ \A t \in Threads : Append(ready, t) \in Seq(Threads)
      /\ ready # <<>> => /\ Tail(ready) \in Seq(Threads)
                         /\ \A t \in Threads : Append(Tail(ready), t) \in Seq(Threads)
  BY DEF TypeOK
<1>3. Sensors \in Nat /\ Sensors >= 1 /\ (round + 1) % 3 \in Colours
  BY <1>1, DaqAssumption DEF TypeOK
<1>4. CASE Tick
  BY <1>1, <1>2, <1>4 DEF TypeOK, Tick, Wake, dataVars
<1>5. CASE SampleStartLock \/ SampleStartBroadcast \/ SampleStartUnlock \/ WorkqueueIdle
  <2>1. CASE SampleStartLock
    BY <1>1, <1>2, <2>1 DEF SampleStartLock, TypeOK, Runs, Lock, Goto,
       WaitAt, Broadcast, timerVars, dataVars
  <2>2. CASE SampleStartBroadcast
    <3>1. /\ \/ pc' = [pc EXCEPT !["sysworkq"] = "unlock", !["daq_sensor"] = "relock"]
             \/ pc' = [pc EXCEPT !["sysworkq"] = "unlock"]
          /\ ready' = ready \/ ready' = Append(ready, "daq_sensor")
      BY <2>2 DEF SampleStartBroadcast, Broadcast, Goto
    <3>2. ready' \in Seq(Threads)
      BY <1>1, <1>2, <3>1 DEF TypeOK
    <3> QED
      BY <1>1, <2>2, <3>1, <3>2 DEF SampleStartBroadcast, TypeOK, timerVars, dataVars
  <2>3. CASE SampleStartUnlock
    BY <1>1, <1>2, <2>3 DEF SampleStartUnlock, TypeOK, Runs, Lock, Goto,
       WaitAt, Broadcast, timerVars, dataVars
  <2>4. CASE WorkqueueIdle
    BY <1>1, <1>2, <2>4 DEF WorkqueueIdle, TypeOK, Runs, Lock, Goto,
       WaitAt, Broadcast, timerVars, dataVars
  <2> QED
    BY <1>5, <2>1, <2>2, <2>3, <2>4
<1>6. CASE CheckDevices \/ TriggerLock \/ TriggerWait \/ TriggerRelock
  BY <1>1, <1>2, <1>6 DEF TypeOK, CheckDevices, TriggerLock, TriggerWait, TriggerRelock,
     Runs, Lock, Goto, WaitAt, CondvarWait, timerVars, dataVars
<1>7. CASE TriggerUnlock \/ FetchStart \/ TransferDone
  <2>1. CASE TriggerUnlock
    BY <1>1, <1>2, <1>3, <2>1 DEF TriggerUnlock, TypeOK, Runs, Unlock,
       Goto, WaitAt, Wake, timerVars, dataVars
  <2>2. CASE FetchStart
    BY <1>1, <1>2, <1>3, <2>2 DEF FetchStart, TypeOK, Runs, Unlock,
       Goto, WaitAt, Wake, timerVars, dataVars
  <2>3. CASE TransferDone
    BY <1>1, <1>2, <1>3, <2>3 DEF TransferDone, TypeOK, Runs, Unlock,
       Goto, WaitAt, Wake, timerVars, dataVars
  <2> QED
    BY <1>7, <2>1, <2>2, <2>3
<1>8. CASE ChannelGet
  <2>1. data' \in [1..Sensors -> Colours \cup {Blank}] /\ stale' \subseteq 1..Sensors
    BY <1>8 DEF ChannelGet, TypeOK
  <2>2. sensor' \in 1..Sensors
    BY <1>3, <1>8 DEF ChannelGet, TypeOK
  <2> QED
    BY <1>1, <1>8, <2>1, <2>2 DEF TypeOK, ChannelGet, Goto, timerVars
<1>9. CASE AnnounceLock \/ Announce \/ AnnounceUnlock
  <2>1. CASE AnnounceLock
    BY <1>1, <1>2, <2>1 DEF AnnounceLock, TypeOK, Runs, Lock, Unlock,
       Goto, Broadcast, timerVars, dataVars
  <2>2. CASE Announce
    <3>1. /\ \/ pc' = [pc EXCEPT !["daq_sensor"] = "announce_unlock", !["main"] = "relock"]
             \/ pc' = [pc EXCEPT !["daq_sensor"] = "announce_unlock"]
          /\ ready' = ready \/ ready' = Append(ready, "main")
      BY <2>2 DEF Announce, Broadcast, Goto
    <3>2. ready' \in Seq(Threads)
      BY <1>1, <1>2, <3>1 DEF TypeOK
    <3> QED
      BY <1>1, <2>2, <3>1, <3>2 DEF Announce, TypeOK, timerVars
  <2>3. CASE AnnounceUnlock
    BY <1>1, <1>2, <2>3 DEF AnnounceUnlock, TypeOK, Runs, Lock, Unlock,
       Goto, Broadcast, timerVars, dataVars
  <2> QED
    BY <1>9, <2>1, <2>2, <2>3
<1>10. CASE StartupDone \/ Main
  BY <1>1, <1>2, <1>10 DEF TypeOK, StartupDone, Main, SyncLock, SyncWait, SyncRelock, SyncUnlock,
     GetSamples, Process, Runs, Lock, Unlock, Goto, WaitAt, Wake, CondvarWait, timerVars, dataVars
<1> QED
  BY <1>4, <1>5, <1>6, <1>7, <1>8, <1>9, <1>10 DEF Next, Trigger, Sampling

\* A mutex is free but where the running thread is between lock and unlock.
LEMMA OwnersStep ==
  ASSUME TypeOK, Sched, Owners, Next
  PROVE  Owners'
<1> DEFINE Held(m, t, l) ==
      \/ m = "condvar_lock" /\ t = "daq_sensor" /\ l \in {"wait", "unlock"}
      \/ m = "condvar_lock" /\ t = "sysworkq" /\ l \in {"broadcast", "unlock"}
      \/ m = "new_sample_lock" /\ t = "main" /\ l \in {"wait", "unlock"}
      \/ m = "new_sample_lock" /\ t = "daq_sensor" /\ l \in {"announce", "announce_unlock"}
<1>1. /\ Threads = {"main", "daq_sensor", "sysworkq"}
      /\ Mutexes = {"condvar_lock", "new_sample_lock"}
      /\ \A m \in Mutexes, t \in Threads : \A l : l \in Holding[m][t] <=> Held(m, t, l)
  BY DEF Threads, Mutexes, Holding
<1>2. \A m \in Mutexes : owner[m] # "none" =>
         /\ owner[m] \in Threads /\ ready # <<>> /\ Head(ready) = owner[m]
         /\ Held(m, owner[m], pc[owner[m]])
  BY <1>1 DEF Owners, TypeOK
<1>3. SUFFICES \A m \in Mutexes : owner'[m] # "none" =>
         /\ owner'[m] \in Threads /\ ready' # <<>> /\ Head(ready') = owner'[m]
         /\ Held(m, owner'[m], pc'[owner'[m]])
  BY <1>1 DEF Owners
<1>4. ready # <<>> => In(ready, Head(ready))
  BY HeadFacts DEF TypeOK, Sched
<1>5. \A t \in Threads : ~In(ready, t) =>
        /\ Append(ready, t) # <<>>
        /\ ready # <<>> => Head(Append(ready, t)) = Head(ready)
  BY AppendFacts DEF TypeOK, Sched
<1>6. /\ pc["sysworkq"] = "idle" => ~In(ready, "sysworkq")
      /\ pc["daq_sensor"] \in {"waiting", "bus"} => ~In(ready, "daq_sensor")
      /\ pc["main"] \in {"startup", "waiting"} => ~In(ready, "main")
  BY WhoRuns
<1>7. CASE Tick
  BY <1>1, <1>2, <1>4, <1>5, <1>6, <1>7 DEF Tick, Wake, TypeOK
<1>8. CASE TransferDone \/ StartupDone
  <2>1. CASE TransferDone
    BY <1>1, <1>2, <1>4, <1>5, <1>6, <2>1 DEF TransferDone, Wake, TypeOK
  <2>2. CASE StartupDone
    BY <1>1, <1>2, <1>4, <1>5, <1>6, <2>2 DEF StartupDone, Wake, TypeOK
  <2> QED
    BY <1>8, <2>1, <2>2
<1>9. CASE SampleStartLock \/ SampleStartUnlock \/ WorkqueueIdle
  BY <1>1, <1>2, <1>9 DEF SampleStartLock, SampleStartUnlock, WorkqueueIdle, Runs, Lock, Goto,
     WaitAt, TypeOK
<1>10. CASE SampleStartBroadcast
  BY <1>1, <1>2, <1>4, <1>5, <1>6, <1>10 DEF SampleStartBroadcast, Runs, Broadcast, Goto, TypeOK
<1>11. CASE CheckDevices \/ TriggerLock \/ TriggerWait \/ TriggerRelock \/ TriggerUnlock
  BY <1>1, <1>2, <1>11 DEF CheckDevices, TriggerLock, TriggerWait, TriggerRelock, TriggerUnlock,
     Runs, Lock, Unlock, CondvarWait, Goto, WaitAt, TypeOK
<1>12. CASE FetchStart \/ ChannelGet \/ AnnounceLock \/ AnnounceUnlock
  BY <1>1, <1>2, <1>12 DEF FetchStart, ChannelGet, AnnounceLock, AnnounceUnlock,
     Runs, Lock, Unlock, Goto, WaitAt, TypeOK
<1>13. CASE Announce
  BY <1>1, <1>2, <1>4, <1>5, <1>6, <1>13 DEF Announce, Runs, Broadcast, Goto, TypeOK
<1>14. CASE Main
  BY <1>1, <1>2, <1>14 DEF Main, SyncLock, SyncWait, SyncRelock, SyncUnlock, GetSamples, Process,
     Runs, Lock, Unlock, CondvarWait, Goto, WaitAt, TypeOK
<1> QED
  BY <1>7, <1>8, <1>9, <1>10, <1>11, <1>12, <1>13, <1>14 DEF Next, Trigger, Sampling

\* The sampling thread begins no round while a sample it has announced is in use.
LEMMA OrderStep ==
  ASSUME TypeOK, Sched, Order, Next
  PROVE  Order'
<1> DEFINE M == Before(ready, "main", "daq_sensor")
<1>1. Threads = {"main", "daq_sensor", "sysworkq"} /\ ready \in Seq(Threads) /\ Distinct(ready)
  BY DEF Threads, TypeOK, Sched
<1>2. /\ pc["main"] \in {"relock", "unlock", "get", "process"} =>
           In(ready, "main")
      /\ sample # NoSample /\ pc["main"] \in {"lock", "wait"} => In(ready, "main")
  BY <1>1 DEF Sched, Asleep
<1>3. /\ pc["sysworkq"] = "idle" => ~In(ready, "sysworkq")
      /\ pc["daq_sensor"] \in {"waiting", "bus"} => ~In(ready, "daq_sensor")
      /\ pc["main"] \in {"startup", "waiting"} => ~In(ready, "main")
  BY WhoRuns
<1>4. \A t \in Threads : ~In(ready, t) =>
        /\ M => Before(Append(ready, t), "main", "daq_sensor")
        /\ In(ready, "main") => Before(Append(ready, t), "main", t)
  BY <1>1, AppendFacts
<1>5. ready # <<>> /\ Head(ready) # "main" /\ M => Before(Tail(ready), "main", "daq_sensor")
  BY <1>1, TailFacts
<1>6. ASSUME UNCHANGED <<pc["main"], pc["daq_sensor"], sample, fresh>>,
             M => Before(ready', "main", "daq_sensor")
      PROVE  Order'
  BY <1>6 DEF Order, Served
<1>7. CASE Tick
  <2>1. UNCHANGED <<pc["main"], pc["daq_sensor"], sample, fresh>>
    BY <1>1, <1>7 DEF Tick, Wake, TypeOK, dataVars
  <2>2. M => Before(ready', "main", "daq_sensor")
    BY <1>1, <1>3, <1>4, <1>7 DEF Tick, Wake
  <2> QED
    BY <1>6, <2>1, <2>2
<1>8. CASE SampleStartLock \/ WorkqueueIdle
  <2>1. UNCHANGED <<pc["main"], pc["daq_sensor"], sample, fresh>>
    BY <1>1, <1>8 DEF SampleStartLock, WorkqueueIdle, Lock, Goto, WaitAt, TypeOK, dataVars
  <2>2. M => Before(ready', "main", "daq_sensor")
    BY <1>5, <1>8 DEF SampleStartLock, WorkqueueIdle, Lock, Goto, WaitAt, Runs
  <2> QED
    BY <1>6, <2>1, <2>2
<1>9. CASE SampleStartUnlock
  <2>1. UNCHANGED <<pc["main"], pc["daq_sensor"], sample, fresh>>
    BY <1>1, <1>9 DEF SampleStartUnlock, TypeOK, dataVars
  <2>2. /\ ready # <<>> /\ Head(ready) = "sysworkq" /\ "sysworkq" \in Threads
        /\ ready' = Append(Tail(ready), "sysworkq")
    BY <1>1, <1>9 DEF SampleStartUnlock, Runs
  <2>3. Tail(ready) \in Seq(Threads) /\ Distinct(Tail(ready)) /\ ~In(Tail(ready), "sysworkq")
    BY <1>1, <2>2, TailFacts
  <2>4. M => Before(ready', "main", "daq_sensor")
    BY <1>5, <2>2, <2>3, AppendFacts
  <2> QED
    BY <1>6, <2>1, <2>4
<1>10. CASE SampleStartBroadcast
  <2>1. UNCHANGED <<sample, fresh, pc["main"]>>
    BY <1>1, <1>10 DEF SampleStartBroadcast, Broadcast, Goto, TypeOK, dataVars
  <2>2. CASE pc["daq_sensor"] = "waiting"
    <3>1. ready' = Append(ready, "daq_sensor") /\ pc'["daq_sensor"] = "relock"
      BY <1>1, <1>10, <2>2 DEF SampleStartBroadcast, Broadcast, TypeOK
    <3>2. In(ready, "main") => Before(ready', "main", "daq_sensor")
      BY <1>1, <1>3, <1>4, <2>2, <3>1
    <3> QED
      BY <1>2, <2>1, <3>1, <3>2 DEF Order, Served
  <2>3. CASE pc["daq_sensor"] # "waiting"
    <3>1. ready' = ready /\ pc'["daq_sensor"] = pc["daq_sensor"]
      BY <1>1, <1>10, <2>3 DEF SampleStartBroadcast, Broadcast, Goto, TypeOK
    <3> QED
      BY <1>6, <2>1, <3>1
  <2> QED
    BY <2>2, <2>3
<1>11. CASE Sampling \/ TransferDone
  <2>1. UNCHANGED sample
    BY <1>11 DEF Sampling, CheckDevices, TriggerLock, TriggerWait, TriggerRelock, TriggerUnlock,
       FetchStart, ChannelGet, AnnounceLock, Announce, AnnounceUnlock, TransferDone, dataVars
  <2>2. CASE Announce
    <3>1. /\ pc'["daq_sensor"] = "announce_unlock" /\ fresh'
          /\ pc["main"] = "startup" => pc'["main"] = "startup"
          /\ pc["main"] # "startup" => pc'["main"] # "startup"
      BY <1>1, <2>2 DEF Announce, Broadcast, Goto, TypeOK
    <3> QED
      BY <2>1, <3>1 DEF Order, Served
  <2>3. CASE ~Announce
    <3>1. UNCHANGED <<pc["main"], fresh>>
      BY <1>1, <1>11, <2>3 DEF Sampling, CheckDevices, TriggerLock, TriggerWait, TriggerRelock,
         TriggerUnlock, FetchStart, ChannelGet, AnnounceLock, AnnounceUnlock, TransferDone,
         Lock, Unlock, Goto, WaitAt, Wake, CondvarWait, TypeOK, dataVars
    <3>2. Runs("daq_sensor", "relock") => ~M
      BY WhoRuns
    <3>3. Served => TriggerWait \/ TriggerLock \/ AnnounceUnlock
      BY <1>11, <2>3, <3>2 DEF Order, Sampling, CheckDevices, TriggerRelock, TriggerUnlock,
         FetchStart, ChannelGet, AnnounceLock, TransferDone, Runs
    <3>4. Served => pc'["daq_sensor"] \in {"lock", "wait", "waiting"}
      BY <1>1, <3>3 DEF TriggerWait, TriggerLock, AnnounceUnlock, Lock, Unlock, CondvarWait,
         Goto, WaitAt, TypeOK
    <3> QED
      BY <2>1, <3>1, <3>4 DEF Order, Served
  <2> QED
    BY <2>2, <2>3
<1>12. CASE StartupDone
  <2>1. /\ pc["main"] = "startup" /\ pc'["main"] = "lock"
        /\ UNCHANGED <<pc["daq_sensor"], sample, fresh>>
    BY <1>1, <1>12 DEF StartupDone, Wake, TypeOK, dataVars
  <2> QED
    BY <2>1 DEF Order, Served
<1>13. CASE Main
  <2>1. UNCHANGED pc["daq_sensor"]
    BY <1>1, <1>13 DEF Main, SyncLock, SyncWait, SyncRelock, SyncUnlock, GetSamples, Process,
       Lock, Unlock, Goto, WaitAt, CondvarWait, TypeOK
  <2>2. CASE SyncWait
    <3>1. pc'["main"] = "waiting"
      BY <1>1, <2>2 DEF SyncWait, CondvarWait, WaitAt, TypeOK
    <3> QED
      BY <3>1 DEF Order, Served
  <2>3. CASE ~SyncWait
    <3>1. UNCHANGED ready /\ pc'["main"] \notin {"startup", "waiting"}
      BY <1>1, <1>13, <2>3 DEF Main, SyncLock, SyncRelock, SyncUnlock, GetSamples, Process,
         Lock, Unlock, Goto, TypeOK
    <3>2. Served' => Served
      BY <1>1, <1>13, <2>3 DEF Main, SyncLock, SyncRelock, SyncUnlock, GetSamples, Process,
         Lock, Unlock, Goto, Runs, TypeOK, Served, dataVars
    <3>3. pc'["main"] \in {"relock", "unlock", "get"} =>
            pc["main"] \in {"relock", "unlock", "get"} /\ UNCHANGED fresh
      BY <1>1, <1>13, <2>3 DEF Main, SyncLock, SyncRelock, SyncUnlock, GetSamples, Process,
         Lock, Unlock, Goto, Runs, TypeOK, dataVars
    <3> QED
      BY <2>1, <3>1, <3>2, <3>3 DEF Order
  <2> QED
    BY <2>2, <2>3
<1> QED
  BY <1>7, <1>8, <1>9, <1>10, <1>11, <1>12, <1>13 DEF Next, Trigger

\* The buffers change only while no announced sample is in use.
LEMMA WholeStep ==
  ASSUME TypeOK, Sched, Order, Whole, Next
  PROVE  Whole'
<1>1. Threads = {"main", "daq_sensor", "sysworkq"}
  BY DEF Threads
<1>2. Runs("daq_sensor", "relock") => ~Before(ready, "main", "daq_sensor")
  BY WhoRuns
<1>3. Sensors \in Nat /\ Sensors >= 1 /\ sensor \in 1..Sensors
      /\ data \in [1..Sensors -> Colours \cup {Blank}] /\ stale \subseteq 1..Sensors
  BY DaqAssumption DEF TypeOK
<1>4. ASSUME UNCHANGED <<round, sensor, data, stale, announced, sample>>,
             pc'["daq_sensor"] \in {"fetch", "bus", "get"} =>
               pc["daq_sensor"] \in {"fetch", "bus", "get"},
             pc'["daq_sensor"] \in {"announce_lock", "announce"} =>
               pc["daq_sensor"] \in {"announce_lock", "announce"},
             pc'["main"] \in {"relock", "unlock", "get"} =>
               pc["main"] \in {"relock", "unlock", "get"},
             pc'["main"] = "process" => pc["main"] = "process"
      PROVE  Whole'
  BY <1>4 DEF Whole, SampleWhole
<1>5. CASE Tick \/ Trigger \/ StartupDone
  <2>1. UNCHANGED dataVars
    BY <1>5 DEF Tick, Trigger, SampleStartLock, SampleStartBroadcast, SampleStartUnlock,
       WorkqueueIdle, StartupDone
  <2>2. /\ pc'["main"] # pc["main"] => pc'["main"] = "lock"
        /\ pc'["daq_sensor"] # pc["daq_sensor"] => pc'["daq_sensor"] = "relock"
    BY <1>1, <1>5 DEF Tick, Trigger, SampleStartLock, SampleStartBroadcast, SampleStartUnlock,
       WorkqueueIdle, StartupDone, Lock, Goto, WaitAt, Wake, Broadcast, TypeOK
  <2> QED
    BY <1>4, <2>1, <2>2 DEF dataVars
<1>6. CASE CheckDevices \/ TriggerLock \/ TriggerWait \/ TriggerRelock \/ FetchStart
           \/ AnnounceLock \/ AnnounceUnlock \/ TransferDone
  <2>1. UNCHANGED dataVars /\ UNCHANGED pc["main"]
    BY <1>1, <1>6 DEF CheckDevices, TriggerLock, TriggerWait, TriggerRelock, FetchStart,
       AnnounceLock, AnnounceUnlock, TransferDone, Lock, Unlock, Goto, WaitAt, Wake,
       CondvarWait, TypeOK
  <2>2. /\ pc'["daq_sensor"] \in {"fetch", "bus", "get"} =>
             pc["daq_sensor"] \in {"fetch", "bus", "get"}
        /\ pc'["daq_sensor"] \in {"announce_lock", "announce"} =>
             pc["daq_sensor"] \in {"announce_lock", "announce"}
    BY <1>1, <1>6 DEF CheckDevices, TriggerLock, TriggerWait, TriggerRelock, FetchStart,
       AnnounceLock, AnnounceUnlock, TransferDone, Lock, Unlock, Goto, WaitAt, Wake,
       CondvarWait, Runs, TypeOK
  <2> QED
    BY <1>4, <2>1, <2>2 DEF dataVars
<1>7. CASE TriggerUnlock
  <2>1. pc["daq_sensor"] = "unlock"
    BY <1>7 DEF TriggerUnlock, Runs
  <2>2. ~Served
    BY <2>1 DEF Order
  <2>3. /\ pc'["daq_sensor"] = "fetch" /\ UNCHANGED pc["main"] /\ sensor' = 1
    BY <1>1, <1>7 DEF TriggerUnlock, Unlock, Goto, TypeOK
  <2>4. \A s \in 1..Sensors : ~(s < 1)
    BY <1>3
  <2>5. stale' = stale
    BY <1>7 DEF TriggerUnlock
  <2> QED
    BY <2>2, <2>3, <2>4, <2>5 DEF Whole, SampleWhole, Served
<1>8. CASE ChannelGet
  <2>1. pc["daq_sensor"] = "get"
    BY <1>8 DEF ChannelGet, Runs
  <2>2. ~Served
    BY <2>1 DEF Order
  <2>3. /\ UNCHANGED <<pc["main"], round>>
        /\ pc'["daq_sensor"] = IF sensor < Sensors THEN "fetch" ELSE "announce_lock"
        /\ sensor < Sensors => sensor' = sensor + 1
    BY <1>1, <1>8 DEF ChannelGet, Goto, TypeOK
  <2>4. \A s \in 1..Sensors \ stale : s < sensor => data[s] = round
    BY <2>1 DEF Whole
  <2>5. \A s \in 1..Sensors \ stale' : s <= sensor => data'[s] = round
    <3>1. CASE data' = [data EXCEPT ![sensor] = round] /\ stale' = stale \ {sensor}
      BY <1>3, <2>4, <3>1
    <3>2. CASE stale' = stale \cup {sensor} /\ UNCHANGED data
      BY <1>3, <2>4, <3>2
    <3> QED
      BY <1>8, <3>1, <3>2 DEF ChannelGet
  <2>6. CASE sensor < Sensors
    <3>1. \A s \in 1..Sensors \ stale' : s < sensor' => data'[s] = round'
      BY <1>3, <2>3, <2>5, <2>6
    <3>2. pc'["daq_sensor"] = "fetch"
      BY <2>3, <2>6
    <3> QED
      BY <2>2, <2>3, <3>1, <3>2 DEF Whole, SampleWhole, Served
  <2>7. CASE ~(sensor < Sensors)
    <3>1. \A s \in 1..Sensors \ stale' : data'[s] = round'
      BY <1>3, <2>3, <2>5, <2>7
    <3>2. pc'["daq_sensor"] = "announce_lock"
      BY <2>3, <2>7
    <3> QED
      BY <2>2, <2>3, <3>1, <3>2 DEF Whole, SampleWhole, Served
  <2> QED
    BY <2>6, <2>7
<1>9. CASE Announce
  <2>1. pc["daq_sensor"] = "announce"
    BY <1>9 DEF Announce, Runs
  <2>2. ~Served
    BY <2>1 DEF Order
  <2>3. /\ pc'["daq_sensor"] = "announce_unlock" /\ announced' = round
        /\ UNCHANGED <<round, data, stale>>
        /\ pc'["main"] \in {pc["main"], "relock"}
    BY <1>1, <1>9 DEF Announce, Broadcast, Goto, TypeOK
  <2>4. \A s \in 1..Sensors \ stale : data[s] = round
    BY <2>1 DEF Whole
  <2> QED
    BY <2>2, <2>3, <2>4 DEF Whole, SampleWhole, Served
<1>10. CASE Main /\ ~GetSamples
  <2>1. UNCHANGED dataVars /\ UNCHANGED pc["daq_sensor"]
    BY <1>1, <1>10 DEF Main, SyncLock, SyncWait, SyncRelock, SyncUnlock, Process,
       Lock, Unlock, Goto, WaitAt, CondvarWait, TypeOK
  <2>2. /\ pc'["main"] \in {"relock", "unlock", "get"} =>
             pc["main"] \in {"relock", "unlock", "get"}
        /\ pc'["main"] # "process"
    BY <1>1, <1>10 DEF Main, SyncLock, SyncWait, SyncRelock, SyncUnlock, Process,
       Lock, Unlock, Goto, WaitAt, CondvarWait, Runs, TypeOK
  <2> QED
    BY <1>4, <2>1, <2>2 DEF dataVars
<1>11. CASE GetSamples
  <2>1. /\ pc["main"] = "get" /\ pc'["main"] = "process" /\ sample' = data
        /\ UNCHANGED <<pc["daq_sensor"], round, sensor, data, stale, announced>>
    BY <1>1, <1>11 DEF GetSamples, Runs, Goto, TypeOK
  <2>2. round = announced /\ \A s \in 1..Sensors \ stale : data[s] = announced
    BY <2>1 DEF Whole
  <2> QED
    BY <2>1, <2>2 DEF Whole, SampleWhole
<1> QED
  BY <1>5, <1>6, <1>7, <1>8, <1>9, <1>10, <1>11 DEF Next, Sampling, Main
--------------------------------------------------------------------------------
(* The theorems *)

\* The inductive invariant holds throughout.
LEMMA Invariance == Spec => []IInv
<1>1. Init => IInv
  <2> SUFFICES ASSUME Init PROVE IInv
    OBVIOUS
  <2>1. /\ Threads = {"main", "daq_sensor", "sysworkq"}
        /\ Mutexes = {"condvar_lock", "new_sample_lock"}
        /\ ready = <<"daq_sensor">> /\ Len(ready) = 1 /\ Head(ready) = "daq_sensor"
        /\ ready[1] = "daq_sensor" /\ ready \in Seq(Threads)
    BY DEF Init, Threads, Mutexes
  <2>2. TypeOK
    <3>1. 1 \in 1..Sensors /\ 0 \in Colours /\ NoSample \in [1..Sensors -> Colours \cup {Blank}]
      BY DaqAssumption DEF Colours, Blank, NoSample
    <3>2. /\ ready \in Seq(Threads)
          /\ timer \in {"oneshot", "periodic", "stopped"}
          /\ new_interval \in BOOLEAN /\ pending \in BOOLEAN
          /\ round \in Colours /\ sensor \in 1..Sensors
          /\ data \in [1..Sensors -> Colours \cup {Blank}] /\ stale \subseteq 1..Sensors
          /\ announced \in Colours /\ fresh \in BOOLEAN
          /\ sample \in [1..Sensors -> Colours \cup {Blank}]
      BY <2>1, <3>1 DEF Init
    <3>3. owner \in [Mutexes -> Threads \cup {"none"}]
      BY DEF Init
    <3> QED
      BY <2>1, <3>2, <3>3 DEF Init, TypeOK
  <2>3. Sched
    <3>1. Distinct(ready) /\ \A t : In(ready, t) <=> t = "daq_sensor"
      BY <2>1 DEF Distinct, In
    <3> QED
      BY <2>1, <3>1 DEF Init, Sched, Asleep, Awake
  <2>4. Owners
    BY <2>1 DEF Init, Owners
  <2>5. Order
    BY DEF Init, Order, Served
  <2>6. Whole
    BY DEF Init, Whole, SampleWhole
  <2> QED
    BY <2>2, <2>3, <2>4, <2>5, <2>6 DEF IInv
<1>2. IInv /\ [Next]_vars => IInv'
  <2> SUFFICES ASSUME IInv, [Next]_vars PROVE IInv'
    OBVIOUS
  <2>1. CASE Next
    BY <2>1, TypeStep, SchedStep, OwnersStep, OrderStep, WholeStep DEF IInv
  <2>2. CASE UNCHANGED vars
    BY <2>2 DEF vars, threadVars, timerVars, dataVars, IInv, TypeOK, Sched, Owners, Order,
       Served, Whole, SampleWhole
  <2> QED
    BY <2>1, <2>2
<1> QED
  BY <1>1, <1>2, PTL DEF Spec

\* The types of the variables of daq_sensor.c, for any number of sensors: the index
\* of the sampling loop stays in the table of the sensors.
THEOREM TypeCorrect == Spec => []TypeOK
<1>1. IInv => TypeOK
  BY DEF IInv
<1> QED
  BY <1>1, Invariance, PTL

\* Neither try-lock of daq_sensor.c fails, and no lock of it waits.
THEOREM LocksFreeCorrect == Spec => []LocksFree
<1>1. IInv => LocksFree
  <2> SUFFICES ASSUME IInv PROVE LocksFree
    OBVIOUS
  <2>1. /\ "condvar_lock" \in Mutexes /\ "new_sample_lock" \in Mutexes
        /\ "none" \notin Threads
    BY DEF Mutexes, Threads
  <2>2. \A m \in Mutexes, t \in Threads : \A l : Runs(t, l) /\ owner[m] # "none" =>
          l \in Holding[m][t]
    BY DEF IInv, Owners, Runs
  <2>3. "main" \in Threads /\ "daq_sensor" \in Threads /\ "sysworkq" \in Threads
    BY DEF Threads
  <2> QED
    BY <2>1, <2>2, <2>3 DEF LocksFree, Holding
<1> QED
  BY <1>1, Invariance, PTL

\* What the main thread has copied with daq_get_sample is the sample announced
\* last, whole but for the sensors whose fetch failed.
THEOREM SampleWholeCorrect == Spec => []SampleWhole
<1>1. IInv => SampleWhole
  BY DEF IInv, Whole
<1> QED
  BY <1>1, Invariance, PTL

\* daq_sync never returns twice for one sample.
THEOREM SampleOnceCorrect == Spec => []SampleOnce
<1>1. IInv => SampleOnce
  BY DEF IInv, Order, SampleOnce
<1> QED
  BY <1>1, Invariance, PTL

\* Once the main thread has had a sample, it waits in daq_sync at every
\* announcement: the sampling thread never announces to nobody.
THEOREM AnnouncementHeardCorrect == Spec => AnnouncementHeard
<1>1. IInv /\ [Next]_vars =>
        [announced' # announced /\ sample # NoSample => pc["main"] = "waiting"]_vars
  <2> SUFFICES ASSUME IInv, Next, announced' # announced, sample # NoSample
               PROVE  pc["main"] = "waiting"
    OBVIOUS
  <2>1. Announce
    BY DEF Next, Tick, Trigger, SampleStartLock, SampleStartBroadcast, SampleStartUnlock,
       WorkqueueIdle, StartupDone, TransferDone, Sampling, CheckDevices, TriggerLock,
       TriggerWait, TriggerRelock, TriggerUnlock, FetchStart, ChannelGet, AnnounceLock,
       AnnounceUnlock, Main, SyncLock, SyncWait, SyncRelock, SyncUnlock, GetSamples, Process,
       dataVars
  <2>2. Runs("daq_sensor", "announce")
    BY <2>1 DEF Announce
  <2>3. pc["main"] \in {"startup", "waiting", "lock", "relock"} /\ pc["daq_sensor"] = "announce"
    BY <2>2, WhoRuns DEF IInv, Asleep, Rested
  <2> QED
    BY <2>3 DEF IInv, Order, Served
<1> QED
  BY <1>1, Invariance, PTL DEF Spec, AnnouncementHeard
================================================================================
