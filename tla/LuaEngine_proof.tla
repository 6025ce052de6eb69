---------------------------- MODULE LuaEngine_proof ----------------------------
(***************************************************************************)
(* The Lua engine, for any events, timers, scripts and size of the heap:   *)
(* it gives its memory back, and it implements LuaCalls: one call per fire *)
(* and per expiry, queued at that moment and begun in their order.  They   *)
(* rest on what a test hardly sees: the script file is the first item ever *)
(* queued, and the library is at most once in the list of an event.        *)
(***************************************************************************)
EXTENDS LuaEngine, TLAPS, FiniteSetTheorems, SequenceTheorems

\* Until main has queued the script nothing is queued, armed or registered.
Asleep ==
  ~booted =>
    /\ queue = <<>> /\ pc = "idle"
    /\ \A t \in Timers : mode[t] = "off"
    /\ \A e \in Events : listeners[e] = <<>> /\ callbacks[e] = 0

\* The file waits in front of the queue and before any other job, or not at all.
FileFirst == \A i \in 1..Len(queue) : queue[i] = File => i = 1 /\ pc = "idle"

\* The lists of the events there can be: main's callback, and the library's once.
Heard(e) ==
  \/ listeners[e] = <<"evt_callback">>
  \/ listeners[e] = <<"evt_callback", "execute_callback">> /\ callbacks[e] > 0

ListedOnce == booted => \A e \in Events : Heard(e)

LuaInv == TypeOK /\ HeapConserved /\ Asleep /\ FileFirst /\ ListedOnce
--------------------------------------------------------------------------------
(* Items and queues *)

LEMMA ItemsAre ==
  /\ File \in Items /\ Size(File) = 2
  /\ \A e \in Events : EventItem(e) \in Items /\ Size(EventItem(e)) = 1 /\ EventItem(e) # File
  /\ \A t \in Timers : TimerItem(t) \in Items /\ Size(TimerItem(t)) = 2 /\ TimerItem(t) # File
  /\ \A item \in Items :
       /\ Size(item) = IF item.fcn # "event" THEN 2 ELSE 1
       /\ item.fcn = "file" <=> item = File
       /\ item.fcn = "event" => item.arg \in Events /\ item = EventItem(item.arg)
       /\ item.fcn = "timer" => item.arg \in Timers /\ item = TimerItem(item.arg)
       /\ item.fcn \in {"file", "event", "timer"}
BY DEF Items, File, EventItem, TimerItem, Size

\* The positions of the items with data.
WithData(q) == {i \in DOMAIN q : q[i].fcn # "event"}

LEMMA DataFinite ==
  ASSUME NEW q \in Seq(Items)
  PROVE  /\ DOMAIN q = 1..Len(q) /\ Len(q) \in Nat /\ WithData(q) \subseteq 1..Len(q)
         /\ IsFiniteSet(WithData(q)) /\ Cardinality(WithData(q)) \in Nat
         /\ QueueBlocks(q) = Len(q) + Cardinality(WithData(q))
<1>1. DOMAIN q = 1..Len(q) /\ Len(q) \in Nat
  OBVIOUS
<1>2. WithData(q) \subseteq 1..Len(q)
  BY <1>1 DEF WithData
<1>3. IsFiniteSet(WithData(q))
  <2>1. IsFiniteSet(1..Len(q))
    BY <1>1, FS_Interval
  <2> QED
    BY <1>2, <2>1, FS_Subset
<1> QED
  BY <1>1, <1>2, <1>3, FS_CardinalityType DEF QueueBlocks, WithData

LEMMA EmptyBlocks == QueueBlocks(<<>>) = 0
<1>1. WithData(<<>>) = {}
  BY DEF WithData
<1>2. Cardinality(WithData(<<>>)) = 0
  BY <1>1, FS_EmptySet
<1> QED
  BY <1>2 DEF QueueBlocks, WithData

\* An item put into the queue brings its blocks.
LEMMA AppendBlocks ==
  ASSUME NEW q \in Seq(Items), NEW item \in Items
  PROVE  QueueBlocks(Append(q, item)) = QueueBlocks(q) + Size(item)
<1> DEFINE r == Append(q, item)
<1>1. /\ r \in Seq(Items) /\ Len(r) = Len(q) + 1 /\ r[Len(q) + 1] = item
      /\ \A i \in 1..Len(q) : r[i] = q[i]
  OBVIOUS
<1>2. /\ DOMAIN q = 1..Len(q) /\ Len(q) \in Nat /\ WithData(q) \subseteq 1..Len(q)
      /\ IsFiniteSet(WithData(q)) /\ Cardinality(WithData(q)) \in Nat
      /\ QueueBlocks(q) = Len(q) + Cardinality(WithData(q))
  BY DataFinite
<1>3. DOMAIN r = 1..Len(r) /\ QueueBlocks(r) = Len(r) + Cardinality(WithData(r))
  BY <1>1, DataFinite
<1> HIDE DEF r
<1>4. CASE item.fcn # "event"
  <2>1. WithData(r) = WithData(q) \cup {Len(q) + 1}
    BY <1>1, <1>2, <1>3, <1>4 DEF WithData
  <2>2. Len(q) + 1 \notin WithData(q)
    BY <1>2
  <2>3. Cardinality(WithData(r)) = Cardinality(WithData(q)) + 1
    BY <1>2, <2>1, <2>2, FS_AddElement
  <2>4. Size(item) = 2
    BY <1>4, ItemsAre
  <2> QED
    BY <1>1, <1>2, <1>3, <2>3, <2>4 DEF r
<1>5. CASE item.fcn = "event"
  <2>1. WithData(r) = WithData(q)
    BY <1>1, <1>2, <1>3, <1>5 DEF WithData
  <2>2. Size(item) = 1
    BY <1>5, ItemsAre
  <2> QED
    BY <1>1, <1>2, <1>3, <2>1, <2>2 DEF r
<1> QED
  BY <1>4, <1>5

\* The item taken from the queue takes its blocks along.
LEMMA TailBlocks ==
  ASSUME NEW q \in Seq(Items), q # <<>>
  PROVE  /\ Head(q) \in Items /\ Tail(q) \in Seq(Items)
         /\ QueueBlocks(q) = Size(Head(q)) + QueueBlocks(Tail(q))
<1> DEFINE r == Tail(q)
<1>1. /\ r \in Seq(Items) /\ Len(q) = Len(r) + 1 /\ Head(q) = q[1] /\ Head(q) \in Items
      /\ \A i \in 1..Len(r) : r[i] = q[i + 1]
  OBVIOUS
<1>2. /\ DOMAIN q = 1..Len(q) /\ Len(q) \in Nat /\ WithData(q) \subseteq 1..Len(q)
      /\ IsFiniteSet(WithData(q)) /\ Cardinality(WithData(q)) \in Nat
      /\ QueueBlocks(q) = Len(q) + Cardinality(WithData(q))
  BY DataFinite
<1>3. /\ DOMAIN r = 1..Len(r) /\ Len(r) \in Nat /\ WithData(r) \subseteq 1..Len(r)
      /\ IsFiniteSet(WithData(r)) /\ Cardinality(WithData(r)) \in Nat
      /\ QueueBlocks(r) = Len(r) + Cardinality(WithData(r))
  BY <1>1, DataFinite
<1> HIDE DEF r
<1>4. Cardinality(WithData(q) \ {1}) = Cardinality(WithData(r))
  <2> DEFINE f == [i \in WithData(r) |-> i + 1]
  <2>1. \A i \in WithData(r) : i + 1 \in WithData(q) \ {1}
    BY <1>1, <1>2, <1>3 DEF WithData
  <2>2. \A j \in WithData(q) \ {1} : j - 1 \in WithData(r) /\ (j - 1) + 1 = j
    BY <1>1, <1>2, <1>3 DEF WithData
  <2>3. f \in Bijection(WithData(r), WithData(q) \ {1})
    BY <1>3, <2>1, <2>2 DEF Bijection, Injection, Surjection, IsInjective
  <2> QED
    BY <1>3, <2>3, FS_Bijection DEF ExistsBijection
<1>5. 1 \in WithData(q) <=> Head(q).fcn # "event"
  BY <1>1, <1>2, <1>3 DEF WithData
<1>6. Cardinality(WithData(q) \ {1})
        = IF 1 \in WithData(q) THEN Cardinality(WithData(q)) - 1 ELSE Cardinality(WithData(q))
  BY <1>2, FS_RemoveElement
<1>7. Size(Head(q)) = IF Head(q).fcn # "event" THEN 2 ELSE 1
  BY <1>1, ItemsAre
<1> QED
  BY <1>1, <1>2, <1>3, <1>4, <1>5, <1>6, <1>7 DEF r
--------------------------------------------------------------------------------
(* What the invariant says of the steps *)

LEMMA HeldIs ==
  ASSUME TypeOK
  PROVE  Held = QueueBlocks(queue) + JobBlocks /\ QueueBlocks(queue) \in Nat
BY DataFinite DEF Held, TypeOK

LEMMA HeldBlocks ==
  ASSUME TypeOK, HeapConserved, fault = "none"
  PROVE  blocks = QueueBlocks(queue) + JobBlocks + (IF FileDone THEN 1 ELSE 0)
BY HeldIs DEF HeapConserved

\* What get_lua_work_item and the queueing do for one item or for none.
LEMMA EnqueueDoes ==
  ASSUME TypeOK, fault = "none", NEW item \in Items, NEW n \in {0, 1}, Enqueue(item, n)
  PROVE  \/ /\ n = 1 /\ fault' = "none" /\ queue' = Append(queue, item)
            /\ blocks' = blocks + Size(item) /\ blocks' \in 0..HeapBlocks
         \/ n = 0 /\ UNCHANGED <<fault, queue, blocks>>
         \/ fault' \in {"no_memory", "not_set"} /\ UNCHANGED <<queue, blocks>>
<1>1. queue \in Seq(Items) /\ blocks \in Nat /\ blocks <= HeapBlocks /\ HeapBlocks \in Nat
      /\ Size(item) \in Nat
  BY LuaAssumption DEF TypeOK, Size
<1>2. CASE n = 1
  <2>1. queue \o [i \in 1..n |-> item] = Append(queue, item)
    <3>1. [i \in 1..n |-> item] = <<item>>
      BY <1>2
    <3>2. queue \o <<item>> = Append(queue, item)
      BY <1>1
    <3> QED
      BY <3>1, <3>2
  <2>2. n * Size(item) = Size(item)
    BY <1>1, <1>2
  <2> QED
    BY <1>1, <1>2, <2>1, <2>2 DEF Enqueue, Undefined
<1>3. CASE n = 0
  <2>1. queue \o [i \in 1..n |-> item] = queue
    <3>1. [i \in 1..n |-> item] = <<>>
      BY <1>3
    <3>2. queue \o <<>> = queue
      BY <1>1, ConcatEmptySeq
    <3> QED
      BY <3>1, <3>2
  <2>2. n * Size(item) = 0
    BY <1>1, <1>3
  <2> QED
    BY <1>1, <1>3, <2>1, <2>2 DEF Enqueue
<1> QED
  BY <1>2, <1>3

\* An event is heard by the library once or not at all.
LEMMA RegisteredIs ==
  ASSUME NEW e \in Events, Heard(e)
  PROVE  /\ Registered(e) \in {0, 1}
         /\ Registered(e) = 1 <=> Contains(listeners[e], "execute_callback")
<1>1. CASE listeners[e] = <<"evt_callback">>
  <2>1. {i \in DOMAIN listeners[e] : listeners[e][i] = "execute_callback"} = {}
    BY <1>1
  <2>2. ~Contains(listeners[e], "execute_callback")
    BY <1>1 DEF Contains
  <2>3. Registered(e) = 0
    BY <2>1, FS_EmptySet DEF Registered
  <2> QED
    BY <2>2, <2>3
<1>2. CASE listeners[e] = <<"evt_callback", "execute_callback">>
  <2>1. {i \in DOMAIN listeners[e] : listeners[e][i] = "execute_callback"} = {2}
    BY <1>2
  <2>2. Contains(listeners[e], "execute_callback")
    BY <1>2 DEF Contains
  <2> QED
    BY <2>1, <2>2, FS_Singleton DEF Registered
<1> QED
  BY <1>1, <1>2 DEF Heard

\* The name of the file is lost when the job of the file is done.
LEMMA FileDoneIs ==
  FileDone <=> /\ booted /\ fault = "none" /\ \A i \in 1..Len(queue) : queue[i] # File
               /\ pc = "idle" \/ job # File
BY DEF FileDone, Contains
--------------------------------------------------------------------------------
LEMMA LuaInit == Init => LuaInv
<1> SUFFICES ASSUME Init PROVE LuaInv
  OBVIOUS
<1> USE DEF Init
<1>1. TypeOK
  <2>1. /\ listeners \in [Events -> Seq({"evt_callback", "execute_callback"})]
        /\ callbacks \in [Events -> 0..MaxCallbacks] /\ fires \in [Events -> 0..MaxFires]
    BY LuaAssumption
  <2>2. mode \in [Timers -> {"off", "oneshot", "cyclic"}] /\ due \in [Timers -> BOOLEAN]
        /\ expiries \in [Timers -> 0..1] /\ \A t \in Timers : ~due[t]
    OBVIOUS
  <2>3. queue \in Seq(Items) /\ job \in Items /\ left \in 0..MaxCallbacks /\ blocks \in 0..HeapBlocks
    BY ItemsAre, LuaAssumption
  <2> QED
    BY <2>1, <2>2, <2>3 DEF TypeOK
<1>2. HeapConserved
  <2>1. Held = 0
    BY <1>1, EmptyBlocks, HeldIs DEF JobBlocks
  <2>2. ~FileDone
    BY FileDoneIs
  <2> QED
    BY <2>1, <2>2 DEF HeapConserved
<1>3. Asleep /\ FileFirst /\ ListedOnce
  BY DEF Asleep, FileFirst, ListedOnce
<1> QED
  BY <1>1, <1>2, <1>3 DEF LuaInv

LEMMA TakeOK == LuaInv /\ Take => LuaInv'
<1> SUFFICES ASSUME LuaInv, Take PROVE LuaInv'
  OBVIOUS
<1>1. /\ pc = "idle" /\ fault = "none" /\ queue # <<>> /\ queue \in Seq(Items) /\ pc' = "start"
      /\ job' = Head(queue) /\ queue' = Tail(queue) /\ blocks \in Nat
      /\ UNCHANGED <<mainVars, listeners, callbacks, timerVars, left, blocks, fault>>
  BY DEF LuaInv, TypeOK, Take, At, Alive
<1>2. /\ Head(queue) \in Items /\ Tail(queue) \in Seq(Items)
      /\ QueueBlocks(queue) = Size(Head(queue)) + QueueBlocks(Tail(queue))
  BY <1>1, TailBlocks
<1>3. /\ Head(queue) = queue[1] /\ Len(queue) \in Nat /\ Len(queue) >= 1
      /\ Len(Tail(queue)) = Len(queue) - 1
      /\ \A i \in 1..Len(Tail(queue)) : Tail(queue)[i] = queue[i + 1]
  BY <1>1
<1>4. TypeOK'
  BY <1>1, <1>2 DEF LuaInv, TypeOK, mainVars, timerVars
<1>5. \A i \in 1..Len(queue') : queue'[i] # File
  BY <1>1, <1>3 DEF LuaInv, FileFirst
<1>6. FileDone' <=> FileDone
  <2>1. FileDone' <=> booted /\ job' # File
    BY <1>1, <1>5, FileDoneIs DEF mainVars, FileDone, Contains
  <2>2. FileDone <=> booted /\ queue[1] # File
    BY <1>1, <1>3, FileDoneIs DEF LuaInv, FileFirst
  <2> QED
    BY <1>1, <1>3, <2>1, <2>2
<1>7. HeapConserved'
  <2>1. blocks = QueueBlocks(queue) + (IF FileDone THEN 1 ELSE 0)
    <3>1. JobBlocks = 0
      BY <1>1 DEF JobBlocks
    <3>2. QueueBlocks(queue) \in Nat
      BY <1>1, DataFinite
    <3> QED
      BY <1>1, <3>1, <3>2, HeldBlocks DEF LuaInv
  <2>2. Held' = QueueBlocks(queue') + Size(job')
    BY <1>1 DEF Held, JobBlocks
  <2>3. QueueBlocks(queue') \in Nat /\ Size(job') \in Nat
    <3>1. queue' \in Seq(Items) /\ job' \in Items
      BY <1>1, <1>2
    <3>2. Size(job') \in Nat
      BY <3>1, ItemsAre
    <3>3. Len(queue') \in Nat /\ Cardinality(WithData(queue')) \in Nat
          /\ QueueBlocks(queue') = Len(queue') + Cardinality(WithData(queue'))
      BY <3>1, DataFinite
    <3> QED
      BY <3>2, <3>3
  <2>4. QueueBlocks(queue) = Size(job') + QueueBlocks(queue')
    BY <1>1, <1>2
  <2> QED
    BY <1>1, <1>6, <2>1, <2>2, <2>3, <2>4 DEF HeapConserved
<1>8. booted
  BY <1>1 DEF LuaInv, Asleep
<1> QED
  BY <1>1, <1>4, <1>5, <1>7, <1>8
     DEF LuaInv, Asleep, FileFirst, ListedOnce, Heard, mainVars, timerVars
\* The handlers work on the item alone, and free its data if they free any.
LEMMA HandlersDo ==
  ASSUME LuaInv, DofileImpl \/ EventImpl \/ TimerImpl \/ ScriptEnds
  PROVE  /\ pc \in {"start", "script"} /\ pc' \in {"start", "script", "free"}
         /\ fault = "none" /\ fault' \in {"none", "bounds"} /\ left' \in 0..MaxCallbacks
         /\ UNCHANGED <<mainVars, listeners, callbacks, timerVars, queue, job>>
         /\ JobBlocks \in {1, 2} /\ JobBlocks' \in {1, 2} /\ JobBlocks' <= JobBlocks
         /\ blocks' = blocks - (JobBlocks - JobBlocks')
<1>0. /\ left \in 0..MaxCallbacks /\ blocks \in Nat /\ MaxCallbacks \in Nat
      /\ callbacks \in [Events -> 0..MaxCallbacks]
      /\ job.fcn \in {"file", "event", "timer"} /\ Size(job) = (IF job.fcn # "event" THEN 2 ELSE 1)
      /\ job.fcn = "event" => job.arg \in Events
  BY ItemsAre, LuaAssumption DEF LuaInv, TypeOK
<1>1. CASE DofileImpl
  <2>1. /\ pc = "start" /\ fault = "none" /\ job.fcn = "file" /\ blocks' = blocks
        /\ pc' \in {"start", "script", "free"} /\ fault' \in {"none", "bounds"}
        /\ left' \in {0, left}
        /\ UNCHANGED <<mainVars, listeners, callbacks, timerVars, queue, job>>
    BY <1>1 DEF DofileImpl, At, Alive, Enter, workVars
  <2>2. JobBlocks = 2 /\ JobBlocks' = 2
    BY <1>0, <2>1 DEF JobBlocks, Size
  <2> QED
    BY <1>0, <2>1, <2>2
<1>2. CASE EventImpl
  <2>1. /\ pc = "start" /\ fault = "none" /\ job.fcn = "event" /\ blocks' = blocks
        /\ pc' \in {"script", "free"} /\ UNCHANGED fault
        /\ left' = 0 \/ (callbacks[job.arg] # 0 /\ left' = callbacks[job.arg] - 1)
        /\ UNCHANGED <<mainVars, listeners, callbacks, timerVars, queue, job>>
    BY <1>2 DEF EventImpl, At, Alive, Enter
  <2>2. JobBlocks = 1 /\ JobBlocks' = 1
    BY <1>0, <2>1 DEF JobBlocks, Size
  <2>3. callbacks[job.arg] \in 0..MaxCallbacks
    BY <1>0, <2>1
  <2> QED
    BY <1>0, <2>1, <2>2, <2>3
<1>3. CASE TimerImpl
  <2>1. /\ pc = "start" /\ fault = "none" /\ job.fcn = "timer" /\ blocks' = blocks - 1
        /\ pc' \in {"script", "free"} /\ left' = 0 /\ UNCHANGED fault
        /\ UNCHANGED <<mainVars, listeners, callbacks, timerVars, queue, job>>
    BY <1>3 DEF TimerImpl, At, Alive, Enter
  <2>2. JobBlocks = 2 /\ JobBlocks' = 1
    BY <1>0, <2>1 DEF JobBlocks, Size
  <2> QED
    BY <1>0, <2>1, <2>2
<1>4. CASE ScriptEnds
  <2>1. /\ pc = "script" /\ fault = "none" /\ blocks' = blocks
        /\ pc' \in {"script", "free"} /\ UNCHANGED fault
        /\ left' = 0 \/ (left > 0 /\ left' = left - 1)
        /\ UNCHANGED <<mainVars, listeners, callbacks, timerVars, queue, job>>
    BY <1>4 DEF ScriptEnds, At, Alive, Enter
  <2>2. JobBlocks \in {1, 2} /\ JobBlocks' = JobBlocks
    BY <1>0, <2>1 DEF JobBlocks, Size
  <2> QED
    BY <1>0, <2>1, <2>2
<1> QED
  BY <1>1, <1>2, <1>3, <1>4

LEMMA HandlersOK == LuaInv /\ (DofileImpl \/ EventImpl \/ TimerImpl \/ ScriptEnds) => LuaInv'
<1> SUFFICES ASSUME LuaInv, DofileImpl \/ EventImpl \/ TimerImpl \/ ScriptEnds PROVE LuaInv'
  OBVIOUS
<1>1. /\ pc \in {"start", "script"} /\ pc' \in {"start", "script", "free"}
      /\ fault = "none" /\ fault' \in {"none", "bounds"} /\ left' \in 0..MaxCallbacks
      /\ UNCHANGED <<mainVars, listeners, callbacks, timerVars, queue, job>>
      /\ JobBlocks \in {1, 2} /\ JobBlocks' \in {1, 2} /\ JobBlocks' <= JobBlocks
      /\ blocks' = blocks - (JobBlocks - JobBlocks')
  BY HandlersDo
<1>2. /\ blocks \in Nat /\ HeapBlocks \in Nat /\ blocks <= HeapBlocks
      /\ QueueBlocks(queue) \in Nat /\ Held = QueueBlocks(queue) + JobBlocks
      /\ blocks = QueueBlocks(queue) + JobBlocks + (IF FileDone THEN 1 ELSE 0)
  BY <1>1, HeldIs, HeldBlocks, LuaAssumption DEF LuaInv, TypeOK
<1>3. blocks' \in 0..HeapBlocks
  BY <1>1, <1>2
<1>4. TypeOK'
  BY <1>1, <1>3 DEF LuaInv, TypeOK, mainVars, timerVars
<1>5. HeapConserved'
  <2>1. fault' = "none" => (FileDone' <=> FileDone)
    BY <1>1 DEF FileDone, mainVars
  <2>2. Held' = QueueBlocks(queue) + JobBlocks'
    BY <1>1 DEF Held
  <2> QED
    BY <1>1, <1>2, <2>1, <2>2 DEF HeapConserved
<1> QED
  BY <1>1, <1>4, <1>5
     DEF LuaInv, Asleep, FileFirst, ListedOnce, Heard, mainVars, timerVars

\* The item of the file is freed, its name is not.
LEMMA FinishOK == LuaInv /\ Finish => LuaInv'
<1> SUFFICES ASSUME LuaInv, Finish PROVE LuaInv'
  OBVIOUS
<1>1. /\ pc = "free" /\ fault = "none" /\ pc' = "idle" /\ job' = File /\ blocks' = blocks - 1
      /\ UNCHANGED <<mainVars, listeners, callbacks, timerVars, queue, left, fault>>
  BY DEF Finish, At, Alive
<1>2. /\ blocks \in Nat /\ HeapBlocks \in Nat /\ blocks <= HeapBlocks
      /\ QueueBlocks(queue) \in Nat /\ Held = QueueBlocks(queue) + JobBlocks
      /\ blocks = QueueBlocks(queue) + JobBlocks + (IF FileDone THEN 1 ELSE 0)
  BY <1>1, HeldIs, HeldBlocks, LuaAssumption DEF LuaInv, TypeOK
<1>3. /\ job = File => JobBlocks = 2
      /\ job # File => JobBlocks = 1
  BY <1>1, ItemsAre DEF LuaInv, TypeOK, JobBlocks
<1>4. /\ booted /\ \A i \in 1..Len(queue) : queue[i] # File
  BY <1>1 DEF LuaInv, Asleep, FileFirst
<1>5. blocks' \in 0..HeapBlocks
  BY <1>1, <1>2, <1>3
<1>6. TypeOK'
  BY <1>1, <1>5, ItemsAre DEF LuaInv, TypeOK, mainVars, timerVars
<1>7. HeapConserved'
  <2>1. FileDone' /\ (FileDone <=> job # File)
    BY <1>1, <1>4 DEF FileDone, Contains, mainVars
  <2>2. Held' = QueueBlocks(queue)
    BY <1>1, <1>2 DEF Held, JobBlocks
  <2>3. CASE job = File
    BY <1>1, <1>2, <1>3, <2>1, <2>2, <2>3 DEF HeapConserved
  <2>4. CASE job # File
    BY <1>1, <1>2, <1>3, <2>1, <2>2, <2>4 DEF HeapConserved
  <2> QED
    BY <2>3, <2>4
<1> QED
  BY <1>1, <1>4, <1>6, <1>7
     DEF LuaInv, Asleep, FileFirst, ListedOnce, Heard, mainVars, timerVars

\* What leaves the queue, the job and the heap alone keeps the memory.
LEMMA HeapSame ==
  ASSUME LuaInv, UNCHANGED <<booted, queue, job, pc, blocks>>, fault' \in {fault, "bounds"},
         fault = "none"
  PROVE  HeapConserved' /\ FileFirst'
<1>1. Held' = Held
  BY DEF Held, JobBlocks
<1>2. fault' = "none" => (FileDone' <=> FileDone)
  BY DEF FileDone
<1> QED
  BY <1>1, <1>2 DEF LuaInv, HeapConserved, FileFirst

LEMMA PairAppend == \A a, b : Append(<<a>>, b) = <<a, b>>
<1> SUFFICES ASSUME NEW a, NEW b PROVE Append(<<a>>, b) = <<a, b>>
  OBVIOUS
<1>1. <<a>> \in Seq({a, b}) /\ <<a, b>> \in Seq({a, b}) /\ Len(<<a, b>>) = 2
  OBVIOUS
<1>2. Append(<<a>>, b) \in Seq({a, b}) /\ Len(Append(<<a>>, b)) = 2
  BY <1>1
<1>3. Append(<<a>>, b)[1] = a /\ Append(<<a>>, b)[2] = b
  BY <1>1
<1>4. \A i \in 1..2 : Append(<<a>>, b)[i] = <<a, b>>[i]
  BY <1>3
<1> QED
  BY <1>1, <1>2, <1>4, SeqEqual

LEMMA RegisterEventOK ==
  ASSUME LuaInv, NEW e \in Events, RegisterEvent(e)
  PROVE  LuaInv'
<1>1. /\ pc = "script" /\ fault = "none" /\ callbacks[e] < MaxCallbacks
      /\ callbacks' = [callbacks EXCEPT ![e] = @ + 1]
      /\ UNCHANGED <<mainVars, timerVars, queue, workVars, blocks, fault>>
      /\ \/ listeners' = listeners
         \/ /\ callbacks[e] = 0
            /\ listeners' = [listeners EXCEPT ![e] = Append(@, "execute_callback")]
  BY DEF RegisterEvent, Listen, At, Alive
<1>2. HeapConserved' /\ FileFirst'
  BY <1>1, HeapSame DEF mainVars, workVars
<1>3. /\ callbacks \in [Events -> 0..MaxCallbacks] /\ MaxCallbacks \in Nat
      /\ listeners \in [Events -> Seq({"evt_callback", "execute_callback"})]
      /\ booted /\ Heard(e) /\ \A d \in Events : Heard(d)
  BY <1>1, LuaAssumption DEF LuaInv, TypeOK, Asleep, ListedOnce
<1>4. callbacks' \in [Events -> 0..MaxCallbacks] /\ callbacks'[e] > 0
      /\ \A d \in Events : d # e => callbacks'[d] = callbacks[d]
  BY <1>1, <1>3
<1>5. listeners' \in [Events -> Seq({"evt_callback", "execute_callback"})]
      /\ \A d \in Events : d # e => listeners'[d] = listeners[d]
  <2>1. CASE listeners' = listeners
    BY <1>3, <2>1
  <2>2. CASE listeners' = [listeners EXCEPT ![e] = Append(@, "execute_callback")]
    <3>1. Append(listeners[e], "execute_callback") \in Seq({"evt_callback", "execute_callback"})
      BY <1>3
    <3> QED
      BY <1>3, <2>2, <3>1
  <2> QED
    BY <1>1, <2>1, <2>2
<1>6. TypeOK'
  BY <1>1, <1>4, <1>5 DEF LuaInv, TypeOK, mainVars, timerVars, workVars
<1>7. Heard(e)'
  <2>1. CASE listeners'[e] = listeners[e]
    BY <1>3, <1>4, <2>1 DEF Heard
  <2>2. CASE callbacks[e] = 0 /\ listeners'[e] = Append(listeners[e], "execute_callback")
    <3>1. listeners[e] = <<"evt_callback">>
      BY <1>3, <2>2 DEF Heard
    <3>2. listeners'[e] = <<"evt_callback", "execute_callback">>
      BY <2>2, <3>1, PairAppend
    <3> QED
      BY <1>4, <3>2 DEF Heard
  <2> QED
    BY <1>1, <1>3, <2>1, <2>2
<1>8. \A d \in Events : Heard(d)'
  BY <1>3, <1>4, <1>5, <1>7 DEF Heard
<1> QED
  BY <1>1, <1>2, <1>3, <1>6, <1>8 DEF LuaInv, Asleep, ListedOnce, mainVars

LEMMA TimerNumbers ==
  ASSUME NEW n \in Numbers, n % 256 < TimerCount
  PROVE  n % 256 \in Timers
<1>1. n \in Int /\ TimerCount \in Nat
  BY LuaAssumption
<1>2. n % 256 \in 0..255
  BY <1>1
<1> QED
  BY <1>1, <1>2 DEF Timers

\* The types of the timers: one that is due is running.
TimersType ==
  /\ mode \in [Timers -> {"off", "oneshot", "cyclic"}] /\ due \in [Timers -> BOOLEAN]
  /\ expiries \in [Timers -> 0..1]
  /\ \A t \in Timers : due[t] => mode[t] # "off"

\* One timer is set: the others keep their types.
LEMMA SetType ==
  ASSUME TimersType, NEW t \in Timers, NEW m \in {"off", "oneshot", "cyclic"}, NEW d \in BOOLEAN,
         mode' = [mode EXCEPT ![t] = m], due' = [due EXCEPT ![t] = d], d => m # "off",
         expiries' \in [Timers -> 0..1]
  PROVE  TimersType'
BY DEF TimersType

\* The script sets the timers, or time does.
TimerSteps ==
  \/ \E n \in Numbers :
       \/ RegisterTimer(n) \/ StopTimer(n)
       \/ \E count \in {0, 1}, cyclic \in BOOLEAN : StartTimer(n, count, cyclic)
  \/ \E t \in Timers : LastMillisecond(t)

LEMMA TimersOK == LuaInv /\ TimerSteps => LuaInv'
<1> SUFFICES ASSUME LuaInv, TimerSteps PROVE LuaInv'
  OBVIOUS
<1>0. TimersType
  BY DEF LuaInv, TypeOK, TimersType
<1>1. /\ fault = "none" /\ fault' \in {fault, "bounds"} /\ booted
      /\ UNCHANGED <<mainVars, listeners, callbacks, queue, workVars, blocks>>
  BY <1>0 DEF LuaInv, Asleep, TimersType, TimerSteps, RegisterTimer, StopTimer, StartTimer,
              LastMillisecond, At, Alive, timerVars
<1>2. HeapConserved' /\ FileFirst'
  BY <1>1, HeapSame DEF mainVars, workVars
<1>3. TimersType'
  <2>1. ASSUME NEW n \in Numbers, RegisterTimer(n) PROVE TimersType'
    BY <1>0, <2>1 DEF RegisterTimer, timerVars, TimersType
  <2>2. ASSUME NEW n \in Numbers, StopTimer(n) PROVE TimersType'
    <3>1. n % 256 \in Timers
      BY <2>2, TimerNumbers DEF StopTimer
    <3>2. expiries' \in [Timers -> 0..1]
      BY <1>0, <2>2 DEF StopTimer, TimersType
    <3> QED
      BY <1>0, <2>2, <3>1, <3>2, SetType DEF StopTimer
  <2>3. ASSUME NEW n \in Numbers, NEW count \in {0, 1}, NEW cyclic \in BOOLEAN,
               StartTimer(n, count, cyclic)
        PROVE  TimersType'
    <3>1. n % 256 \in Timers
      BY <2>3, TimerNumbers DEF StartTimer
    <3>2. \E m \in {"oneshot", "cyclic"}, d \in BOOLEAN :
            mode' = [mode EXCEPT ![n % 256] = m] /\ due' = [due EXCEPT ![n % 256] = d]
      <4> DEFINE m == IF cyclic /\ count > 0 THEN "cyclic" ELSE "oneshot"
                 d == count = 0
      <4>1. m \in {"oneshot", "cyclic"} /\ d \in BOOLEAN
        BY Zenon
      <4>2. mode' = [mode EXCEPT ![n % 256] = m] /\ due' = [due EXCEPT ![n % 256] = d]
        BY <2>3 DEF StartTimer
      <4> HIDE DEF m, d
      <4> QED
        BY <4>1, <4>2
    <3>3. expiries' \in [Timers -> 0..1]
      BY <1>0, <2>3 DEF StartTimer, TimersType
    <3>4. PICK m \in {"oneshot", "cyclic"}, d \in BOOLEAN :
            mode' = [mode EXCEPT ![n % 256] = m] /\ due' = [due EXCEPT ![n % 256] = d]
      BY <3>2
    <3>5. m \in {"off", "oneshot", "cyclic"} /\ m # "off"
      BY <3>4
    <3> QED
      BY <1>0, <3>1, <3>3, <3>4, <3>5, SetType
  <2>4. ASSUME NEW t \in Timers, LastMillisecond(t) PROVE TimersType'
    BY <1>0, <2>4 DEF LastMillisecond, TimersType
  <2> QED
    BY <2>1, <2>2, <2>3, <2>4 DEF TimerSteps
<1>4. TypeOK'
  BY <1>1, <1>3 DEF LuaInv, TypeOK, TimersType, mainVars, workVars
<1> QED
  BY <1>1, <1>2, <1>4 DEF LuaInv, Asleep, ListedOnce, Heard, mainVars
--------------------------------------------------------------------------------
\* A call that is queued, or cannot be, keeps the memory and the place of the file.
LEMMA QueuedOK ==
  ASSUME LuaInv, booted, fault = "none", NEW item \in Items, item # File,
         NEW n \in {0, 1}, Enqueue(item, n), UNCHANGED <<booted, workVars>>
  PROVE  /\ HeapConserved' /\ FileFirst'
         /\ queue' \in Seq(Items) /\ blocks' \in 0..HeapBlocks
         /\ fault' \in {"none", "no_memory", "not_set"}
<1>1. queue \in Seq(Items) /\ Len(queue) \in Nat /\ blocks \in 0..HeapBlocks /\ blocks \in Nat
  BY LuaAssumption DEF LuaInv, TypeOK
<1>2. \/ /\ n = 1 /\ fault' = "none" /\ queue' = Append(queue, item)
         /\ blocks' = blocks + Size(item) /\ blocks' \in 0..HeapBlocks
      \/ n = 0 /\ UNCHANGED <<fault, queue, blocks>>
      \/ fault' \in {"no_memory", "not_set"} /\ UNCHANGED <<queue, blocks>>
  BY EnqueueDoes DEF LuaInv
<1>3. CASE /\ fault' = "none" /\ queue' = Append(queue, item)
           /\ blocks' = blocks + Size(item) /\ blocks' \in 0..HeapBlocks
  <2>1. /\ queue' \in Seq(Items) /\ Len(queue') = Len(queue) + 1 /\ queue'[Len(queue) + 1] = item
        /\ \A i \in 1..Len(queue) : queue'[i] = queue[i]
    BY <1>1, <1>3
  <2>2. FileFirst'
    BY <1>1, <2>1 DEF LuaInv, FileFirst, workVars
  <2>3. FileDone' <=> FileDone
    BY <1>1, <1>3, <2>1 DEF FileDone, Contains, workVars
  <2>4. HeapConserved'
    <3>1. QueueBlocks(queue') = QueueBlocks(queue) + Size(item) /\ Size(item) \in {1, 2}
      BY <1>1, <1>3, AppendBlocks, ItemsAre
    <3>2. JobBlocks' = JobBlocks /\ JobBlocks \in {0, 1, 2}
      BY ItemsAre DEF LuaInv, TypeOK, JobBlocks, workVars
    <3>3. /\ QueueBlocks(queue) \in Nat
          /\ blocks = QueueBlocks(queue) + JobBlocks + (IF FileDone THEN 1 ELSE 0)
      BY HeldIs, HeldBlocks DEF LuaInv
    <3>4. Held' = QueueBlocks(queue') + JobBlocks'
      BY DEF Held
    <3> QED
      BY <1>3, <2>3, <3>1, <3>2, <3>3, <3>4 DEF HeapConserved
  <2> QED
    BY <1>3, <2>1, <2>2, <2>4
<1>4. CASE UNCHANGED <<fault, queue, blocks>>
  BY <1>1, <1>4, HeapSame DEF workVars
<1>5. CASE fault' \in {"no_memory", "not_set"} /\ UNCHANGED <<queue, blocks>>
  BY <1>1, <1>5 DEF LuaInv, HeapConserved, FileFirst, workVars
<1> QED
  BY <1>2, <1>3, <1>4, <1>5

LEMMA ExpireOK ==
  ASSUME LuaInv, NEW t \in Timers, Expire(t)
  PROVE  LuaInv'
<1>0. TimersType
  BY DEF LuaInv, TypeOK, TimersType
<1>1. /\ fault = "none" /\ due[t] /\ booted /\ Enqueue(TimerItem(t), 1)
      /\ UNCHANGED <<mainVars, listeners, callbacks, workVars>>
  BY <1>0 DEF Expire, Alive, LuaInv, Asleep, TimersType
<1>2. TimersType'
  <2>1. Rearmed(mode[t]) \in {"off", "oneshot", "cyclic"}
    BY DEF Rearmed
  <2>2. expiries' \in [Timers -> 0..1]
    <3>1. expiries' = [expiries EXCEPT ![t] = 1 - @] /\ 1 - expiries[t] \in 0..1
      BY <1>0 DEF Expire, TimersType
    <3> QED
      BY <1>0, <3>1 DEF TimersType
  <2> QED
    BY <1>0, <2>1, <2>2, SetType DEF Expire
<1>3. /\ HeapConserved' /\ FileFirst'
      /\ queue' \in Seq(Items) /\ blocks' \in 0..HeapBlocks
      /\ fault' \in {"none", "no_memory", "not_set"}
  BY <1>1, QueuedOK, ItemsAre DEF mainVars
<1>4. TypeOK'
  BY <1>1, <1>2, <1>3 DEF LuaInv, TypeOK, TimersType, mainVars, workVars
<1> QED
  BY <1>1, <1>3, <1>4 DEF LuaInv, Asleep, ListedOnce, Heard, mainVars

LEMMA FireOK ==
  ASSUME LuaInv, NEW e \in Events, Fire(e)
  PROVE  LuaInv'
<1>1. /\ fault = "none" /\ booted /\ fires[e] < MaxFires
      /\ fires' = [fires EXCEPT ![e] = @ + 1]
      /\ Enqueue(EventItem(e), Registered(e))
      /\ UNCHANGED <<booted, listeners, callbacks, timerVars, workVars>>
  BY DEF Fire, Alive
<1>2. Registered(e) \in {0, 1}
  BY <1>1, RegisteredIs DEF LuaInv, ListedOnce
<1>3. /\ HeapConserved' /\ FileFirst'
      /\ queue' \in Seq(Items) /\ blocks' \in 0..HeapBlocks
      /\ fault' \in {"none", "no_memory", "not_set"}
  BY <1>1, <1>2, QueuedOK, ItemsAre
<1>4. fires' \in [Events -> 0..MaxFires]
  BY <1>1, LuaAssumption DEF LuaInv, TypeOK
<1>5. TypeOK'
  BY <1>1, <1>3, <1>4 DEF LuaInv, TypeOK, timerVars, workVars
<1> QED
  BY <1>1, <1>3, <1>5 DEF LuaInv, Asleep, ListedOnce, Heard

\* The file becomes the first item, whatever is queued later.
LEMMA BootOK == LuaInv /\ Boot => LuaInv'
<1> SUFFICES ASSUME LuaInv, Boot PROVE LuaInv'
  OBVIOUS
<1>1. /\ fault = "none" /\ ~booted /\ booted' = TRUE /\ queue = <<>> /\ pc = "idle"
      /\ listeners' = [e \in Events |-> <<"evt_callback">>]
      /\ Enqueue(File, 1)
      /\ UNCHANGED <<fires, callbacks, timerVars, workVars>>
  BY DEF Boot, Alive, LuaInv, Asleep
<1>2. \/ /\ fault' = "none" /\ queue' = Append(queue, File)
         /\ blocks' = blocks + 2 /\ blocks' \in 0..HeapBlocks
      \/ fault' \in {"no_memory", "not_set"} /\ UNCHANGED <<queue, blocks>>
  BY <1>1, EnqueueDoes, ItemsAre DEF LuaInv
<1>3. /\ queue \in Seq(Items) /\ Len(queue) = 0 /\ blocks \in 0..HeapBlocks /\ JobBlocks = 0
  BY <1>1 DEF LuaInv, TypeOK, JobBlocks
<1>4. blocks = 0
  <2>1. ~FileDone
    BY <1>1 DEF FileDone
  <2> QED
    BY <1>1, <1>3, <2>1, EmptyBlocks, HeldBlocks DEF LuaInv
<1> DEFINE Kept == /\ HeapConserved' /\ FileFirst' /\ queue' \in Seq(Items)
                  /\ blocks' \in 0..HeapBlocks /\ fault' \in {"none", "no_memory", "not_set"}
<1>5. ASSUME /\ fault' = "none" /\ queue' = Append(queue, File)
             /\ blocks' = blocks + 2 /\ blocks' \in 0..HeapBlocks
      PROVE  Kept
  <2>1. queue' \in Seq(Items) /\ Len(queue') = 1 /\ queue'[1] = File
    BY <1>3, <1>5, ItemsAre
  <2>2. FileFirst'
    BY <1>1, <2>1 DEF FileFirst, workVars
  <2>3. HeapConserved'
    <3>1. QueueBlocks(queue') = 2
      <4>1. QueueBlocks(queue') = QueueBlocks(queue) + Size(File)
        BY <1>3, <1>5, AppendBlocks, ItemsAre
      <4> QED
        BY <1>1, <4>1, EmptyBlocks, ItemsAre
    <3>2. ~FileDone'
      BY <2>1 DEF FileDone, Contains
    <3>3. Held' = 2
      BY <1>1, <3>1 DEF Held, JobBlocks, workVars
    <3> QED
      BY <1>4, <1>5, <3>2, <3>3 DEF HeapConserved
  <2> QED
    BY <1>5, <2>1, <2>2, <2>3
<1>6. ASSUME fault' \in {"no_memory", "not_set"}, UNCHANGED <<queue, blocks>>
      PROVE  Kept
  BY <1>1, <1>3, <1>6 DEF HeapConserved, FileFirst
<1>7. Kept
  BY <1>2, <1>5, <1>6
<1>8. listeners' \in [Events -> Seq({"evt_callback", "execute_callback"})]
  BY <1>1
<1>9. TypeOK'
  BY <1>1, <1>7, <1>8 DEF LuaInv, TypeOK, timerVars, workVars
<1> QED
  BY <1>1, <1>7, <1>9 DEF LuaInv, Asleep, ListedOnce, Heard
--------------------------------------------------------------------------------
LEMMA LuaStep == LuaInv /\ [Next]_vars => LuaInv'
<1> SUFFICES ASSUME LuaInv, [Next]_vars PROVE LuaInv'
  OBVIOUS
<1>1. CASE UNCHANGED vars
  BY <1>1 DEF LuaInv, TypeOK, HeapConserved, Held, JobBlocks, FileDone, Asleep, FileFirst,
              ListedOnce, Heard, vars, mainVars, timerVars, workVars
<1>2. CASE LuaThread
  BY <1>2, TakeOK, HandlersOK, FinishOK DEF LuaThread
<1>3. CASE LibraryCall
  BY <1>3, RegisterEventOK, TimersOK DEF LibraryCall, TimerSteps
<1>4. CASE \E t \in Timers : LastMillisecond(t) \/ Expire(t)
  BY <1>4, TimersOK, ExpireOK DEF TimerSteps
<1>5. CASE Boot \/ \E e \in Events : Fire(e)
  BY <1>5, BootOK, FireOK
<1> QED
  BY <1>1, <1>2, <1>3, <1>4, <1>5 DEF Next

LEMMA LuaInvariant == Spec => []LuaInv
BY LuaInit, LuaStep, PTL DEF Spec

\* The types of the Lua engine, for any events, timers and size of the heap; in
\* particular the blocks counted are never negative and never too many.
THEOREM TypeCorrect == Spec => []TypeOK
<1>1. LuaInv => TypeOK
  BY DEF LuaInv
<1> QED
  BY <1>1, LuaInvariant, PTL

\* Every block of the kernel heap the engine took is one it can still reach, but for
\* the name of the script file, however its threads, interrupts and scripts interleave.
THEOREM HeapCorrect == Spec => []HeapConserved
<1>1. LuaInv => HeapConserved
  BY DEF LuaInv
<1> QED
  BY <1>1, LuaInvariant, PTL
--------------------------------------------------------------------------------
(* The refinement *)

\* The call in work, and the oldest call queued.
LEMMA ServingIs ==
  ASSUME TypeOK
  PROVE  /\ pc = "idle" => Serving = Calls!NoCall
         /\ pc # "idle" => Serving = job /\ Serving # Calls!NoCall
<1>1. job # Calls!NoCall
  <2>1. job.fcn # "none"
    BY ItemsAre DEF TypeOK
  <2> QED
    BY <2>1 DEF Calls!NoCall
<1> QED
  BY <1>1 DEF Serving, Calls!NoCall

\* The Lua thread begins the oldest call queued, makes it, and returns from it;
\* what it does between is not seen.
LEMMA ThreadCalls == LuaInv /\ LuaThread => [Calls!Next]_(Calls!callVars)
<1> SUFFICES ASSUME LuaInv, LuaThread PROVE [Calls!Next]_(Calls!callVars)
  OBVIOUS
<1> USE DEF Calls!callVars
<1>0. /\ pc = "idle" => Serving = Calls!NoCall
      /\ pc # "idle" => Serving = job /\ Serving # Calls!NoCall
  BY ServingIs DEF LuaInv
<1>1. CASE Take
  <2>1. /\ Alive /\ pc = "idle" /\ queue # <<>> /\ pc' = "start" /\ Alive'
        /\ job' = Head(queue) /\ queue' = Tail(queue)
        /\ UNCHANGED <<booted, fires, expiries, mode, listeners>>
    BY <1>1 DEF Take, At, Alive, mainVars, timerVars
  <2>2. Serving = Calls!NoCall /\ Serving' = Head(queue) /\ UNCHANGED Subscribed
    BY <1>0, <2>1 DEF Serving, Subscribed
  <2>3. Calls!Serve
    BY <2>1, <2>2 DEF Calls!Serve
  <2> QED
    BY <2>1, <2>3 DEF Calls!Next
<1>2. CASE DofileImpl \/ EventImpl \/ TimerImpl \/ ScriptEnds
  <2>1. /\ pc # "idle" /\ pc' # "idle" /\ Alive
        /\ UNCHANGED <<queue, job, listeners, booted, fires, expiries, mode>>
    BY <1>2, HandlersDo DEF Alive, mainVars, timerVars
  <2>2. UNCHANGED <<Serving, Subscribed>>
    BY <2>1 DEF Serving, Subscribed
  <2>3. CASE Alive'
    BY <2>1, <2>2, <2>3
  <2>4. CASE Alive' = FALSE
    BY <2>1, <2>4 DEF Calls!Next, Calls!Fail
  <2> QED
    BY <2>3, <2>4 DEF Alive
<1>3. CASE Finish
  <2>1. /\ Alive /\ pc = "free" /\ pc' = "idle" /\ Alive'
        /\ UNCHANGED <<queue, listeners, booted, fires, expiries, mode>>
    BY <1>3 DEF Finish, At, Alive, mainVars, timerVars
  <2>2. Serving # Calls!NoCall /\ Serving' = Calls!NoCall /\ UNCHANGED Subscribed
    BY <1>0, <2>1 DEF Serving, Subscribed, Calls!NoCall
  <2>3. Calls!Return
    BY <2>1, <2>2 DEF Calls!Return
  <2> QED
    BY <2>1, <2>3 DEF Calls!Next
<1> QED
  BY <1>1, <1>2, <1>3 DEF LuaThread

\* The script subscribes to an event in a call, or the registration is lost.
LEMMA RegisterCalls ==
  ASSUME LuaInv, NEW e \in Events, RegisterEvent(e)
  PROVE  [Calls!Next]_(Calls!callVars)
<1> USE DEF Calls!callVars
<1>1. /\ Alive /\ Alive' /\ pc = "script" /\ UNCHANGED <<mainVars, timerVars, queue, workVars>>
      /\ \/ UNCHANGED listeners
         \/ /\ callbacks[e] = 0
            /\ listeners' = [listeners EXCEPT ![e] = Append(@, "execute_callback")]
  BY DEF RegisterEvent, Listen, At, Alive
<1>2. Serving # Calls!NoCall /\ UNCHANGED Serving
  BY <1>1, ServingIs DEF LuaInv, Serving, workVars
<1>3. CASE UNCHANGED listeners
  BY <1>1, <1>2, <1>3 DEF Subscribed, Alive, mainVars, timerVars
<1>4. CASE /\ callbacks[e] = 0
           /\ listeners' = [listeners EXCEPT ![e] = Append(@, "execute_callback")]
  <2>1. listeners \in [Events -> Seq({"evt_callback", "execute_callback"})]
        /\ listeners[e] = <<"evt_callback">>
    BY <1>1, <1>4 DEF LuaInv, TypeOK, Asleep, ListedOnce, Heard
  <2>2. listeners'[e] = <<"evt_callback", "execute_callback">>
    BY <1>4, <2>1, PairAppend
  <2>3. Contains(listeners'[e], "execute_callback")
    BY <2>2 DEF Contains
  <2>4. \A d \in Events : d # e => listeners'[d] = listeners[d]
    BY <1>4, <2>1
  <2>5. Subscribed' = Subscribed \cup {e}
    BY <2>3, <2>4 DEF Subscribed
  <2>6. Calls!Subscribe(e)
    BY <1>1, <1>2, <2>5 DEF Calls!Subscribe, Alive, mainVars, timerVars
  <2> QED
    BY <1>1, <2>6 DEF Calls!Next
<1> QED
  BY <1>1, <1>3, <1>4

\* The script sets a timer in a call; a callback outside the table faults.
LEMMA TimerCalls == LuaInv /\ TimerSteps => [Calls!Next]_(Calls!callVars)
<1> SUFFICES ASSUME LuaInv, TimerSteps PROVE [Calls!Next]_(Calls!callVars)
  OBVIOUS
<1> USE DEF Calls!callVars
<1>1. /\ Alive /\ UNCHANGED <<booted, fires, expiries, listeners, queue, workVars>>
  BY DEF TimerSteps, RegisterTimer, StopTimer, StartTimer, LastMillisecond, At, Alive,
         mainVars, timerVars
<1>2. UNCHANGED <<Serving, Subscribed>>
  BY <1>1 DEF Serving, Subscribed, workVars
<1>3. CASE Alive' = FALSE
  BY <1>1, <1>3 DEF Calls!Next, Calls!Fail
<1>4. CASE Alive'
  <2>1. \/ UNCHANGED mode
        \/ /\ pc = "script"
           /\ \E t \in Timers, m \in {"off", "oneshot", "cyclic"} : mode' = [mode EXCEPT ![t] = m]
    BY TimerNumbers DEF TimerSteps, RegisterTimer, StopTimer, StartTimer, LastMillisecond, At,
                        timerVars
  <2>2. CASE UNCHANGED mode
    BY <1>1, <1>2, <1>4, <2>2
  <2>3. ASSUME pc = "script", NEW t \in Timers, NEW m \in {"off", "oneshot", "cyclic"},
               mode' = [mode EXCEPT ![t] = m]
        PROVE  [Calls!Next]_(Calls!callVars)
    <3>1. Serving # Calls!NoCall
      BY <2>3, ServingIs DEF LuaInv
    <3>2. Calls!SetTimer(t, m)
      BY <1>1, <1>2, <1>4, <2>3, <3>1 DEF Calls!SetTimer
    <3> QED
      BY <1>1, <3>2 DEF Calls!Next
  <2> QED
    BY <2>1, <2>2, <2>3
<1> QED
  BY <1>3, <1>4 DEF Alive

\* Each step queues, begins or ends the call it says, or nothing a script can see.
LEMMA StepCalls == LuaInv /\ [Next]_vars => [Calls!Next]_(Calls!callVars)
<1> SUFFICES ASSUME LuaInv, [Next]_vars PROVE [Calls!Next]_(Calls!callVars)
  OBVIOUS
<1> USE DEF Calls!callVars
<1>1. CASE UNCHANGED vars
  BY <1>1 DEF vars, mainVars, timerVars, workVars, Subscribed, Serving, Alive
<1>2. ASSUME NEW t \in Timers, Expire(t) PROVE [Calls!Next]_(Calls!callVars)
  <2>1. /\ Alive /\ mode[t] \in {"oneshot", "cyclic"} /\ Enqueue(TimerItem(t), 1)
        /\ mode' = [mode EXCEPT ![t] = Rearmed(@)]
        /\ expiries' = [expiries EXCEPT ![t] = 1 - @]
        /\ UNCHANGED <<mainVars, listeners, workVars>>
    BY <1>2 DEF Expire, LuaInv, TypeOK
  <2>2. UNCHANGED <<Serving, Subscribed>>
    BY <2>1 DEF Serving, Subscribed, workVars
  <2>3. (Alive' /\ queue' = Append(queue, TimerItem(t))) \/ Alive' = FALSE
    BY <2>1, EnqueueDoes, ItemsAre DEF LuaInv, Alive
  <2>4. CASE Alive' /\ queue' = Append(queue, TimerItem(t))
    <3>1. mode' = [mode EXCEPT ![t] = IF @ = "oneshot" THEN "off" ELSE @]
      BY <2>1 DEF Rearmed
    <3>2. Calls!Expire(t)
      BY <2>1, <2>2, <2>4, <3>1 DEF Calls!Expire, Calls!TimerCall, TimerItem, mainVars, Alive
    <3> QED
      BY <2>1, <3>2 DEF Calls!Next
  <2>5. CASE Alive' = FALSE
    BY <2>1, <2>5 DEF Calls!Next, Calls!Fail
  <2> QED
    BY <2>3, <2>4, <2>5
<1>3. ASSUME NEW e \in Events, Fire(e) PROVE [Calls!Next]_(Calls!callVars)
  <2>1. /\ Alive /\ booted /\ Enqueue(EventItem(e), Registered(e))
        /\ fires' = [fires EXCEPT ![e] = @ + 1]
        /\ UNCHANGED <<booted, listeners, timerVars, workVars>>
    BY <1>3 DEF Fire
  <2>2. UNCHANGED <<Serving, Subscribed>>
    BY <2>1 DEF Serving, Subscribed, workVars
  <2>3. /\ Registered(e) \in {0, 1}
        /\ Registered(e) = 1 <=> e \in Subscribed
    BY <2>1, RegisteredIs DEF LuaInv, ListedOnce, Subscribed
  <2>4. \/ Registered(e) = 1 /\ Alive' /\ queue' = Append(queue, EventItem(e))
        \/ Registered(e) = 0 /\ Alive' /\ queue' = queue
        \/ Alive' = FALSE
    BY <2>1, <2>3, EnqueueDoes, ItemsAre DEF LuaInv, Alive
  <2>5. CASE Alive' = FALSE
    BY <2>1, <2>5 DEF Calls!Next, Calls!Fail
  <2>6. CASE Alive' /\ queue' = IF e \in Subscribed THEN Append(queue, EventItem(e)) ELSE queue
    <3>1. Calls!Fire(e)
      BY <2>1, <2>2, <2>6 DEF Calls!Fire, Calls!EventCall, EventItem, timerVars, Alive
    <3> QED
      BY <2>1, <3>1 DEF Calls!Next
  <2>7. CASE Registered(e) = 1 /\ Alive' /\ queue' = Append(queue, EventItem(e))
    BY <2>3, <2>6, <2>7
  <2>8. CASE Registered(e) = 0 /\ Alive' /\ queue' = queue
    <3>1. e \notin Subscribed
      BY <2>3, <2>8
    <3> QED
      BY <2>6, <2>8, <3>1
  <2> QED
    BY <2>4, <2>5, <2>7, <2>8
<1>4. CASE Boot
  <2>1. /\ Alive /\ ~booted /\ booted' = TRUE /\ Enqueue(File, 1)
        /\ \A e \in Events : listeners[e] = <<>>
        /\ listeners' = [e \in Events |-> <<"evt_callback">>]
        /\ UNCHANGED <<fires, timerVars, workVars>>
    BY <1>4 DEF Boot, LuaInv, Asleep
  <2>2. UNCHANGED <<Serving, Subscribed>>
    <3>1. Subscribed = {} /\ Subscribed' = {}
      BY <2>1 DEF Subscribed, Contains
    <3> QED
      BY <2>1, <3>1 DEF Serving, workVars
  <2>3. (Alive' /\ queue' = Append(queue, File)) \/ Alive' = FALSE
    BY <2>1, EnqueueDoes, ItemsAre DEF LuaInv, Alive
  <2>4. CASE Alive' /\ queue' = Append(queue, File)
    <3>1. Calls!Load
      BY <2>1, <2>2, <2>4 DEF Calls!Load, Calls!ScriptCall, File, timerVars, Alive
    <3> QED
      BY <2>1, <3>1 DEF Calls!Next
  <2>5. CASE Alive' = FALSE
    BY <2>1, <2>5 DEF Calls!Next, Calls!Fail
  <2> QED
    BY <2>3, <2>4, <2>5
<1> QED
  BY <1>1, <1>2, <1>3, <1>4, ThreadCalls, RegisterCalls, TimerCalls
     DEF Next, LibraryCall, TimerSteps

\* Until it faults the Lua engine queues exactly one call for every fire of an event
\* the library is registered with and for every expiry of a timer, at that moment, and
\* begins the calls in that order, each once and one after another.
THEOREM RefinesLuaCalls == Spec => CallsRefined
<1>1. Init => Calls!Init
  <2> SUFFICES ASSUME Init PROVE Calls!Init
    OBVIOUS
  <2>1. Subscribed = {} /\ Serving = Calls!NoCall /\ Alive
    BY DEF Init, Subscribed, Contains, Serving, Calls!NoCall, Alive
  <2> QED
    BY <2>1 DEF Init, Calls!Init
<1>2. LuaInv /\ [Next]_vars => [Calls!Next]_(Calls!callVars)
  BY StepCalls
<1> QED
  BY <1>1, <1>2, LuaInvariant, PTL DEF Spec, CallsRefined, Calls!Spec
================================================================================
