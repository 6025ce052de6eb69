---------------------------- MODULE Datalogger_proof ----------------------------
(***************************************************************************)
(* The heap discipline of the datalogger, and that behind it callers see   *)
(* the queue of requests of LogService, for any number of blocks, callers' *)
(* calls, failing calls and power losses.                                  *)
(***************************************************************************)
EXTENDS Datalogger, LogJob_proof

\* A data chunk's item points to a data block, no other item does, and none
\* points to itself.
ItemOK(b) ==
  /\ mem[b].cmd \in DataCmds <=> mem[b].data # NULL
  /\ mem[b].data # b

ItemsOK ==
  \A i \in 1..Len(fifo) :
    /\ ItemOK(fifo[i])
    /\ mem[fifo[i]].cmd = "OPEN_LOG" => current_path \in Paths

\* Where the thread is and what it works on.
ThreadOK ==
  /\ pc = "work" <=> job.busy
  /\ pc # "get" => item \in Blocks
  /\ pc \in {"work", "free_data"} => ItemOK(item)
  /\ pc = "free_data" => mem[item].cmd \in DataCmds

HeapTypes ==
  /\ used \subseteq Blocks /\ held \subseteq Blocks /\ leaked \subseteq Blocks
  /\ mem \in [Blocks -> Cell]
  /\ fifo \in Seq(Blocks)

Counters ==
  /\ naming \in BOOLEAN
  /\ pc \in {"get", "work", "free_data", "free_item"}
  /\ item \in Blocks \cup {NULL}
  /\ calls \in Nat /\ losses \in Nat

HeapInv == HeapTypes /\ Counters /\ OneOwner /\ ItemsOK /\ ThreadOK

Inv == JobInv /\ HeapInv
--------------------------------------------------------------------------------
(* The heap *)

LEMMA QueueFacts ==
  ASSUME HeapTypes
  PROVE  /\ Len(fifo) \in Nat /\ DOMAIN fifo = 1..Len(fifo)
         /\ \A i \in 1..Len(fifo) : fifo[i] \in Blocks
         /\ NULL \notin Blocks
         /\ \A x : x \in QueuedBlocks <=> \E i \in 1..Len(fifo) : x \in BlocksOf(fifo[i])
         /\ \A i \in 1..Len(fifo) : fifo[i] \in QueuedBlocks
         /\ \A b \in Blocks : mem[b].data \in Blocks \cup {NULL} /\ BlocksOf(b) \subseteq Blocks
<1>1. /\ Len(fifo) \in Nat /\ DOMAIN fifo = 1..Len(fifo)
      /\ \A i \in 1..Len(fifo) : fifo[i] \in Blocks
  BY DEF HeapTypes
<1>2. \A x : x \in QueuedBlocks <=> \E i \in 1..Len(fifo) : x \in BlocksOf(fifo[i])
  BY <1>1 DEF QueuedBlocks
<1>3. \A i \in 1..Len(fifo) : fifo[i] \in BlocksOf(fifo[i])  BY DEF BlocksOf
<1>4. \A b \in Blocks : mem[b].data \in Blocks \cup {NULL}
  BY DEF HeapTypes, Cell
<1>5. \A b \in Blocks : BlocksOf(b) \subseteq Blocks  BY <1>4 DEF BlocksOf
<1> QED  BY <1>1, <1>2, <1>3, <1>4, <1>5, DataloggerAssumption

\* Every queued block is allocated, and so is every block of the thread.
LEMMA OwnedIsUsed ==
  ASSUME HeapInv
  PROVE  QueuedBlocks \subseteq used /\ ThreadBlocks \subseteq used
         /\ held \subseteq used /\ leaked \subseteq used
BY DEF HeapInv, OneOwner

\* A step that leaves the queued blocks alone changes nothing for their items.
LEMMA QueueUndisturbed ==
  ASSUME HeapInv, UNCHANGED fifo, \A x \in QueuedBlocks : mem'[x] = mem[x]
  PROVE  /\ QueuedBlocks' = QueuedBlocks
         /\ \A i \in 1..Len(fifo) : /\ BlocksOf(fifo[i])' = BlocksOf(fifo[i])
                                    /\ mem'[fifo[i]] = mem[fifo[i]]
         /\ Requests' = Requests
<1> USE DEF HeapInv
<1>1. \A i \in 1..Len(fifo) : mem'[fifo[i]] = mem[fifo[i]]  BY QueueFacts
<1>2. \A i \in 1..Len(fifo) : BlocksOf(fifo[i])' = BlocksOf(fifo[i])
  BY <1>1 DEF BlocksOf
<1>3. QueuedBlocks' = QueuedBlocks
  BY <1>2, QueueFacts DEF QueuedBlocks
<1>4. \A i \in 1..Len(fifo) : RequestAt(fifo[i])' = RequestAt(fifo[i])
  <2> SUFFICES ASSUME NEW i \in 1..Len(fifo)
               PROVE  RequestAt(fifo[i])' = RequestAt(fifo[i])
    OBVIOUS
  <2>1. mem[fifo[i]].data # NULL => mem[fifo[i]].data \in QueuedBlocks
    BY QueueFacts DEF BlocksOf
  <2> QED  BY <1>1, <2>1 DEF RequestAt
<1>5. Requests' = Requests  BY <1>4 DEF Requests
<1> QED  BY <1>1, <1>2, <1>3, <1>5

\* With the queue undisturbed, only what the thread and the callers hold matters.
LEMMA QueueKept ==
  ASSUME HeapInv, UNCHANGED <<fifo, current_path>>,
         \A x \in QueuedBlocks : mem'[x] = mem[x],
         used' = QueuedBlocks \cup ThreadBlocks' \cup held' \cup leaked',
         QueuedBlocks \cap (ThreadBlocks' \cup held' \cup leaked') = {},
         ThreadBlocks' \cap (held' \cup leaked') = {}, held' \cap leaked' = {}
  PROVE  OneOwner' /\ ItemsOK' /\ Requests' = Requests
<1> USE DEF HeapInv
<1>1. /\ QueuedBlocks' = QueuedBlocks
      /\ \A i \in 1..Len(fifo) : /\ BlocksOf(fifo[i])' = BlocksOf(fifo[i])
                                 /\ mem'[fifo[i]] = mem[fifo[i]]
      /\ Requests' = Requests
  BY QueueUndisturbed
<1>2. ItemsOK'  BY <1>1 DEF ItemsOK, ItemOK
<1>3. /\ DOMAIN fifo = 1..Len(fifo)
      /\ \A i, j \in 1..Len(fifo) : i # j => BlocksOf(fifo[i]) \cap BlocksOf(fifo[j]) = {}
      /\ \A i \in 1..Len(fifo) : mem[fifo[i]].data # fifo[i]
  BY QueueFacts DEF OneOwner
<1>4. /\ \A i, j \in 1..Len(fifo) :
            i # j => BlocksOf(fifo[i])' \cap BlocksOf(fifo[j])' = {}
      /\ \A i \in 1..Len(fifo) : mem'[fifo[i]].data # fifo[i]
  BY <1>1, <1>3
<1>5. OneOwner'  BY <1>1, <1>3, <1>4 DEF OneOwner, BlocksOf
<1> QED  BY <1>1, <1>2, <1>5

\* A caller that leaves the blocks of the thread alone does not disturb it.
LEMMA ThreadKept ==
  ASSUME HeapInv, UNCHANGED <<pc, item, job>>, \A x \in ThreadBlocks : mem'[x] = mem[x]
  PROVE  ThreadBlocks' = ThreadBlocks /\ ThreadOK'
<1> USE DEF HeapInv
<1>1. pc \in {"work", "free_data"} => item \in ThreadBlocks
  BY DEF ThreadBlocks, BlocksOf
<1>2. ThreadBlocks' = ThreadBlocks  BY <1>1 DEF ThreadBlocks, BlocksOf, Counters
<1>3. ThreadOK'  BY <1>1 DEF ThreadOK, ItemOK
<1> QED  BY <1>2, <1>3

\* An item b is accepted, with a new data block d, one the caller held, or none.
LEMMA AcceptItem ==
  ASSUME HeapInv, NEW b \in Blocks \ used, NEW d \in (Blocks \ used) \cup held \cup {NULL},
         d # b, fifo' = Append(fifo, b), UNCHANGED <<pc, item, job, leaked>>,
         mem' \in [Blocks -> Cell], \A x \in used : mem'[x] = mem[x],
         mem'[b].data = d, mem'[b].cmd \in DataCmds <=> d # NULL,
         used' = used \cup {b} \cup ({d} \ {NULL}), held' = held \ {d},
         current_path' = current_path \/ current_path' \in Paths,
         mem'[b].cmd = "OPEN_LOG" => current_path' \in Paths
  PROVE  /\ OneOwner' /\ ItemsOK' /\ ThreadOK'
         /\ Requests' = Append(Requests, RequestAt(b)')
<1> USE DEF HeapInv
<1>0. PICK n \in Nat : n = Len(fifo)  BY QueueFacts
<1>1. /\ n \in Nat /\ DOMAIN fifo' = 1..(n + 1) /\ Len(fifo') = n + 1
      /\ fifo'[n + 1] = b /\ \A i \in 1..n : fifo'[i] = fifo[i]
      /\ NULL \notin Blocks
  BY <1>0, QueueFacts DEF HeapTypes
<1>2. /\ \A i \in 1..n : BlocksOf(fifo[i]) \subseteq used
      /\ \A i \in 1..n : fifo[i] \in used /\ mem'[fifo[i]] = mem[fifo[i]]
      /\ ThreadBlocks \subseteq used
  BY <1>0, OwnedIsUsed, QueueFacts
<1>3. /\ \A i \in 1..n : BlocksOf(fifo[i])' = BlocksOf(fifo[i])
      /\ BlocksOf(fifo[n + 1])' = {b} \cup ({d} \ {NULL})
  BY <1>1, <1>2 DEF BlocksOf
<1>4. QueuedBlocks' = QueuedBlocks \cup {b} \cup ({d} \ {NULL})
  <2>1. QueuedBlocks' = UNION {BlocksOf(fifo[i])' : i \in 1..(n + 1)}
    BY <1>1 DEF QueuedBlocks
  <2>2. QueuedBlocks = UNION {BlocksOf(fifo[i]) : i \in 1..n}
    BY <1>0, QueueFacts DEF QueuedBlocks
  <2>3. \A i \in 1..(n + 1) : i \in 1..n \/ i = n + 1  BY <1>1
  <2>4. 1..n \subseteq 1..(n + 1) /\ n + 1 \in 1..(n + 1)  BY <1>1
  <2>5. ASSUME NEW x, x \in QueuedBlocks'
        PROVE  x \in QueuedBlocks \cup {b} \cup ({d} \ {NULL})
    <3>1. PICK i \in 1..(n + 1) : x \in BlocksOf(fifo[i])'  BY <2>1, <2>5
    <3> QED  BY <1>3, <2>2, <2>3, <3>1
  <2>6. ASSUME NEW x \in QueuedBlocks PROVE x \in QueuedBlocks'
    <3>1. PICK i \in 1..n : x \in BlocksOf(fifo[i])  BY <2>2
    <3>2. x \in BlocksOf(fifo[i])'  BY <1>3, <3>1
    <3> QED  BY <2>1, <2>4, <3>1, <3>2
  <2>7. {b} \cup ({d} \ {NULL}) \subseteq QueuedBlocks'
    <3>1. BlocksOf(fifo[n + 1])' \subseteq QueuedBlocks'  BY <2>1, <2>4
    <3> QED  BY <1>3, <3>1
  <2> QED  BY <2>5, <2>6, <2>7
<1>5. ThreadBlocks' = ThreadBlocks /\ ThreadOK'
  BY <1>2, ThreadKept
<1>7. ItemsOK'
  <2> SUFFICES ASSUME NEW i \in 1..(n + 1)
               PROVE  ItemOK(fifo[i])'
                      /\ (mem'[fifo'[i]].cmd = "OPEN_LOG" => current_path' \in Paths)
    BY <1>1 DEF ItemsOK
  <2>1. CASE i = n + 1  BY <1>1, <2>1 DEF ItemOK
  <2>2. CASE i \in 1..n  BY <1>0, <1>1, <1>2, <2>2 DEF ItemsOK, ItemOK
  <2> QED  BY <1>1, <2>1, <2>2
<1>8. OneOwner'
  <2>1. /\ used = QueuedBlocks \cup ThreadBlocks \cup held \cup leaked
        /\ QueuedBlocks \cap (ThreadBlocks \cup held \cup leaked) = {}
        /\ ThreadBlocks \cap (held \cup leaked) = {} /\ held \cap leaked = {}
        /\ \A i, j \in 1..n : i # j => BlocksOf(fifo[i]) \cap BlocksOf(fifo[j]) = {}
        /\ \A i \in 1..n : mem[fifo[i]].data # fifo[i]
    BY <1>0, QueueFacts DEF OneOwner
  <2>2. used' = QueuedBlocks' \cup ThreadBlocks' \cup held' \cup leaked'
    <3>1. held' \cup ({d} \ {NULL}) = held \cup ({d} \ {NULL})
      BY <1>1 DEF HeapTypes
    <3>2. used' = QueuedBlocks \cup ThreadBlocks \cup (held \cup ({d} \ {NULL})) \cup leaked \cup {b}
      BY <2>1
    <3> QED  BY <1>4, <1>5, <3>1, <3>2
  <2>3. QueuedBlocks' \cap (ThreadBlocks' \cup held' \cup leaked') = {}
    BY <1>4, <1>5, <2>1
  <2>4. ThreadBlocks' \cap (held' \cup leaked') = {} /\ held' \cap leaked' = {}
    BY <1>5, <2>1
  <2>5. \A i \in 1..n : BlocksOf(fifo[i]) \cap ({b} \cup ({d} \ {NULL})) = {}
    <3>1. \A i \in 1..n : BlocksOf(fifo[i]) \subseteq QueuedBlocks
      BY <1>0, QueueFacts
    <3> QED  BY <1>2, <2>1, <3>1
  <2>6. \A i, j \in 1..(n + 1) :
           i # j => BlocksOf(fifo[i])' \cap BlocksOf(fifo[j])' = {}
    <3>1. \A i \in 1..(n + 1) : i \in 1..n \/ i = n + 1  BY <1>1
    <3>2. \A i \in 1..n :
             /\ BlocksOf(fifo[i])' \cap BlocksOf(fifo[n + 1])' = {}
             /\ BlocksOf(fifo[n + 1])' \cap BlocksOf(fifo[i])' = {}
      <4> TAKE i \in 1..n
      <4>1. BlocksOf(fifo[i])' = BlocksOf(fifo[i])  BY <1>3
      <4>2. BlocksOf(fifo[n + 1])' = {b} \cup ({d} \ {NULL})  BY <1>3
      <4>3. BlocksOf(fifo[i]) \cap ({b} \cup ({d} \ {NULL})) = {}  BY <2>5
      <4> QED  BY <4>1, <4>2, <4>3
    <3>3. \A i, j \in 1..n : i # j => BlocksOf(fifo[i])' \cap BlocksOf(fifo[j])' = {}
      BY <1>3, <2>1
    <3> QED  BY <3>1, <3>2, <3>3
  <2>7. \A i \in 1..(n + 1) : mem'[fifo'[i]].data # fifo'[i]
    BY <1>7, <1>1 DEF ItemsOK, ItemOK
  <2> QED  BY <1>1, <2>2, <2>3, <2>4, <2>6, <2>7 DEF OneOwner
<1>9. Requests' = Append(Requests, RequestAt(b)')
  <2>1. \A i \in 1..n : RequestAt(fifo[i])' = RequestAt(fifo[i])
    <3> SUFFICES ASSUME NEW i \in 1..n PROVE RequestAt(fifo[i])' = RequestAt(fifo[i])
      OBVIOUS
    <3>1. mem[fifo[i]].data # NULL => mem[fifo[i]].data \in used
      BY <1>2 DEF BlocksOf
    <3> QED  BY <1>1, <1>2, <3>1 DEF RequestAt
  <2>2. Requests' = [i \in 1..(n + 1) |-> RequestAt(fifo[i])']
    BY <1>1 DEF Requests
  <2>3. Requests = [i \in 1..n |-> RequestAt(fifo[i])]
    BY <1>0 DEF Requests
  <2>4. Len(Requests) = n /\ Append(Requests, RequestAt(b)')
          = [i \in 1..(n + 1) |-> IF i = n + 1 THEN RequestAt(b)' ELSE RequestAt(fifo[i])]
    BY <1>1, <2>3
  <2> QED  BY <1>1, <2>1, <2>2, <2>4
<1> QED  BY <1>5, <1>7, <1>8, <1>9
--------------------------------------------------------------------------------
(* The calls *)

\* The step of the abstract datalogger a call is.
Served == (\E r \in Request : LS!Submit(r)) \/ UNCHANGED <<Requests, jobVars>>

\* A call that queues an item is a request accepted.
LEMMA Accepted ==
  ASSUME Inv, Call, NEW b \in Blocks \ used, NEW d \in (Blocks \ used) \cup held \cup {NULL},
         d # b, fifo' = Append(fifo, b), UNCHANGED leaked, naming' \in BOOLEAN,
         mem' \in [Blocks -> Cell], \A x \in used : mem'[x] = mem[x],
         mem'[b].data = d, mem'[b].cmd \in DataCmds <=> d # NULL,
         used' = used \cup {b} \cup ({d} \ {NULL}), held' = held \ {d},
         IF mem'[b].cmd = "OPEN_LOG" THEN current_path' \in Paths ELSE UNCHANGED current_path
  PROVE  Inv' /\ Served
<1> USE DEF Inv, HeapInv
<1>1. UNCHANGED <<pc, item, losses, fileVars, job, faults>> /\ calls' = calls + 1
  BY DEF Call, threadVars
<1>2. JobInv'  BY <1>1, CallerOK
<1>3. OneOwner' /\ ItemsOK' /\ ThreadOK' /\ Requests' = Append(Requests, RequestAt(b)')
  BY <1>1, AcceptItem
<1>4. HeapTypes'  BY DEF HeapTypes
<1>5. Counters'  BY <1>1 DEF Counters
<1>6. RequestAt(b)' \in Request
  BY LogJobAssumption DEF RequestAt, Request, Cell, HeapTypes
<1>7. RequestAt(b)'.cmd = mem'[b].cmd  BY DEF RequestAt
<1>8. LS!Submit(RequestAt(b)')  BY <1>1, <1>3, <1>7 DEF LS!Submit, LS!fileVars, fileVars
<1> QED  BY <1>2, <1>3, <1>4, <1>5, <1>6, <1>8 DEF Served

\* One that queues nothing is not seen by the thread.
LEMMA NotQueued ==
  ASSUME Inv, Call, UNCHANGED <<fifo, current_path>>, naming' \in BOOLEAN,
         mem' \in [Blocks -> Cell],
         \A x \in QueuedBlocks \cup ThreadBlocks : mem'[x] = mem[x],
         held' \subseteq Blocks, leaked' \subseteq Blocks,
         used' = QueuedBlocks \cup ThreadBlocks \cup held' \cup leaked',
         (QueuedBlocks \cup ThreadBlocks) \cap (held' \cup leaked') = {},
         held' \cap leaked' = {}
  PROVE  Inv' /\ Served
<1> USE DEF Inv, HeapInv
<1>1. UNCHANGED <<pc, item, losses, fileVars, job, faults>> /\ calls' = calls + 1
  BY DEF Call, threadVars
<1>2. JobInv'  BY <1>1, CallerOK
<1>3. ThreadBlocks' = ThreadBlocks /\ ThreadOK'  BY <1>1, ThreadKept
<1>4. QueuedBlocks \cap ThreadBlocks = {}  BY DEF OneOwner
<1>5. OneOwner' /\ ItemsOK' /\ Requests' = Requests  BY <1>3, <1>4, QueueKept
<1>6. HeapTypes'  BY OwnedIsUsed DEF HeapTypes
<1>7. Counters'  BY <1>1 DEF Counters
<1>8. UNCHANGED jobVars  BY <1>1 DEF jobVars, fileVars
<1> QED  BY <1>2, <1>3, <1>5, <1>6, <1>7, <1>8 DEF Served

LEMMA PayloadOfCall == Inv /\ Call => calls + 1 \in Payloads
BY DataloggerAssumption DEF Inv, HeapInv, Counters, Call

\* A block keeps its type when a command and a data block are stored in it.
LEMMA ItemStored ==
  ASSUME HeapTypes, NEW b \in Blocks, NEW cmd \in Cmds, NEW data \in Blocks \cup {NULL},
         mem' = [mem EXCEPT ![b].cmd = cmd, ![b].data = data]
  PROVE  /\ mem' \in [Blocks -> Cell] /\ mem'[b].cmd = cmd /\ mem'[b].data = data
         /\ \A x \in Blocks \ {b} : mem'[x] = mem[x]
BY DEF HeapTypes, Cell

LEMMA ChunkStored ==
  ASSUME HeapTypes, NEW b \in Blocks, NEW d \in Blocks, b # d,
         NEW cmd \in Cmds, NEW payload \in Payloads,
         mem' = [mem EXCEPT ![b].cmd = cmd, ![b].data = d, ![d].arg = payload]
  PROVE  /\ mem' \in [Blocks -> Cell] /\ mem'[b].cmd = cmd /\ mem'[b].data = d
         /\ \A x \in Blocks \ {b, d} : mem'[x] = mem[x]
BY DEF HeapTypes, Cell

LEMMA QueueChunkOK ==
  ASSUME Inv, Call, NEW cmd \in DataCmds, NEW payload \in Payloads,
         QueueChunk(cmd, payload), naming' \in BOOLEAN, UNCHANGED current_path
  PROVE  Inv' /\ Served
<1>1. PICK b \in Free, d \in Free :
        /\ b # d /\ used' = used \cup {b, d} /\ fifo' = Append(fifo, b)
        /\ mem' = [mem EXCEPT ![b].cmd = cmd, ![b].data = d, ![d].arg = payload]
        /\ UNCHANGED <<held, leaked>>
  BY DEF QueueChunk
<1>2. /\ b \in Blocks \ used /\ d \in Blocks \ used /\ d # NULL
      /\ held \subseteq used /\ used \subseteq Blocks
  BY OwnedIsUsed, DataloggerAssumption DEF Free, Inv, HeapInv, HeapTypes
<1>3. cmd \in Cmds /\ cmd # "OPEN_LOG"  BY DEF Cmds, DataCmds
<1>4. /\ mem' \in [Blocks -> Cell] /\ mem'[b].cmd = cmd /\ mem'[b].data = d
      /\ \A x \in Blocks \ {b, d} : mem'[x] = mem[x]
  BY <1>1, <1>2, <1>3, ChunkStored DEF Inv, HeapInv
<1>5. \A x \in used : mem'[x] = mem[x]  BY <1>2, <1>4
<1>6. used' = used \cup {b} \cup ({d} \ {NULL}) /\ held' = held \ {d}
  BY <1>1, <1>2
<1>7. mem'[b].cmd \in DataCmds /\ mem'[b].cmd # "OPEN_LOG"  BY <1>3, <1>4
<1> QED  BY <1>1, <1>2, <1>4, <1>5, <1>6, <1>7, Accepted

LEMMA RefuseChunkOK ==
  ASSUME Inv, Call, RefuseChunk, naming' \in BOOLEAN, UNCHANGED current_path
  PROVE  Inv' /\ Served
<1> USE DEF Inv, HeapInv
<1>1. /\ used = QueuedBlocks \cup ThreadBlocks \cup held \cup leaked
      /\ (QueuedBlocks \cup ThreadBlocks) \cap (held \cup leaked) = {}
      /\ held \cap leaked = {}
  BY DEF OneOwner
<1>2. /\ mem \in [Blocks -> Cell] /\ held \subseteq Blocks /\ leaked \subseteq Blocks
  BY DEF HeapTypes
<1>3. CASE LoseItem
  <2>1. PICK b \in Free : used' = used \cup {b} /\ leaked' = leaked \cup {b}
    BY <1>3 DEF LoseItem
  <2>2. b \in Blocks \ used  BY DEF Free
  <2>3. UNCHANGED <<mem, fifo, held>>  BY <1>3 DEF LoseItem
  <2>4. /\ used' = QueuedBlocks \cup ThreadBlocks \cup held' \cup leaked'
        /\ (QueuedBlocks \cup ThreadBlocks) \cap (held' \cup leaked') = {}
        /\ held' \cap leaked' = {}
    BY <1>1, <2>1, <2>2, <2>3
  <2>5. leaked' \subseteq Blocks  BY <1>2, <2>1, <2>2
  <2>6. mem' \in [Blocks -> Cell] /\ held' \subseteq Blocks /\ fifo' = fifo
    BY <1>2, <2>3
  <2> HIDE DEF Inv, HeapInv
  <2> QED  BY <2>3, <2>4, <2>5, <2>6, NotQueued
<1>4. CASE UNCHANGED <<used, mem, fifo, held, leaked>>
  BY <1>1, <1>2, <1>4, NotQueued
<1> QED  BY <1>3, <1>4 DEF RefuseChunk

LEMMA OpenCloseOK ==
  ASSUME Inv, dl_close_log \/ \E p \in Paths : dl_open_log(p)
  PROVE  Inv' /\ Served
<1> USE DEF Inv, HeapInv
<1>1. Call /\ naming' \in BOOLEAN /\ UNCHANGED <<held, leaked>>
  BY DEF dl_close_log, dl_open_log, heapVars, Counters
<1>2. CASE /\ UNCHANGED <<heapVars, current_path>>
  <2>1. /\ used = QueuedBlocks \cup ThreadBlocks \cup held \cup leaked
        /\ (QueuedBlocks \cup ThreadBlocks) \cap (held \cup leaked) = {}
        /\ held \cap leaked = {}
    BY DEF OneOwner
  <2>2. /\ mem \in [Blocks -> Cell] /\ held \subseteq Blocks /\ leaked \subseteq Blocks
    BY DEF HeapTypes
  <2>3. UNCHANGED <<used, mem, fifo, held, leaked>>  BY <1>2 DEF heapVars
  <2> QED  BY <1>1, <1>2, <2>1, <2>2, <2>3, NotQueued
<1>3. ASSUME NEW b \in Free, NEW cmd \in {"OPEN_LOG", "CLOSE_LOG"},
             used' = used \cup {b}, Enqueue(b, cmd, NULL),
             IF cmd = "OPEN_LOG" THEN current_path' \in Paths ELSE UNCHANGED current_path
      PROVE  Inv' /\ Served
  <2>1. b \in Blocks \ used /\ b # NULL /\ used \subseteq Blocks /\ NULL \notin held
    BY DataloggerAssumption DEF Free, HeapTypes
  <2>2. cmd \in Cmds /\ cmd \notin DataCmds  BY DEF Cmds, DataCmds
  <2>3. /\ mem' \in [Blocks -> Cell] /\ mem'[b].cmd = cmd /\ mem'[b].data = NULL
        /\ \A x \in Blocks \ {b} : mem'[x] = mem[x]
    BY <1>3, <2>1, <2>2, ItemStored DEF Enqueue
  <2>4. /\ \A x \in used : mem'[x] = mem[x]
        /\ used' = used \cup {b} \cup ({NULL} \ {NULL}) /\ held' = held \ {NULL}
    BY <1>1, <1>3, <2>1, <2>3
  <2> QED  BY <1>1, <1>3, <2>1, <2>2, <2>3, <2>4, Accepted DEF Enqueue
<1>4. CASE dl_close_log  BY <1>2, <1>3, <1>4 DEF dl_close_log
<1>5. CASE \E p \in Paths : dl_open_log(p)  BY <1>2, <1>3, <1>5 DEF dl_open_log
<1> QED  BY <1>4, <1>5

\* A caller gets a data block of its own.
LEMMA AllocOK ==
  ASSUME Inv, NEW payload \in Payloads, dl_alloc_track_data_buffer(payload)
  PROVE  Inv' /\ Served
<1> USE DEF Inv, HeapInv
<1>1. /\ used = QueuedBlocks \cup ThreadBlocks \cup held \cup leaked
      /\ (QueuedBlocks \cup ThreadBlocks) \cap (held \cup leaked) = {}
      /\ held \cap leaked = {}
  BY DEF OneOwner
<1>2. /\ mem \in [Blocks -> Cell] /\ held \subseteq Blocks /\ leaked \subseteq Blocks
  BY DEF HeapTypes
<1>3. Call /\ naming' \in BOOLEAN /\ UNCHANGED <<fifo, leaked, current_path>>
  BY DEF dl_alloc_track_data_buffer, Counters
<1>4. CASE UNCHANGED <<used, mem, held>>
  <2> HIDE DEF Inv, HeapInv
  <2> QED  BY <1>1, <1>2, <1>3, <1>4, NotQueued
<1>5. CASE \E d \in Free : /\ used' = used \cup {d}
                          /\ mem' = [mem EXCEPT ![d].arg = payload]
                          /\ held' = held \cup {d}
  <2>1. PICK d \in Free : /\ used' = used \cup {d}
                         /\ mem' = [mem EXCEPT ![d].arg = payload]
                         /\ held' = held \cup {d}
    BY <1>5
  <2>2. d \in Blocks \ used  BY DEF Free
  <2>3. mem' \in [Blocks -> Cell] /\ \A x \in Blocks \ {d} : mem'[x] = mem[x]
    BY <1>2, <2>1, <2>2 DEF Cell
  <2>4. \A x \in QueuedBlocks \cup ThreadBlocks : mem'[x] = mem[x]
    BY <1>1, <2>2, <2>3 DEF HeapTypes
  <2>5. /\ used' = QueuedBlocks \cup ThreadBlocks \cup held' \cup leaked'
        /\ (QueuedBlocks \cup ThreadBlocks) \cap (held' \cup leaked') = {}
        /\ held' \cap leaked' = {}
    BY <1>1, <1>3, <2>1, <2>2
  <2>6. held' \subseteq Blocks /\ leaked' \subseteq Blocks  BY <1>2, <1>3, <2>1, <2>2
  <2> HIDE DEF Inv, HeapInv
  <2> QED  BY <1>3, <2>3, <2>4, <2>5, <2>6, NotQueued
<1> QED  BY <1>4, <1>5 DEF dl_alloc_track_data_buffer

\* A held block is queued, stays held, or is freed.
LEMMA HeldBlockOK ==
  ASSUME Inv, NEW d \in held, dl_add_track_data(d) \/ dl_free_track_data_buffer(d)
  PROVE  Inv' /\ Served
<1> USE DEF Inv, HeapInv
<1>1. /\ used = QueuedBlocks \cup ThreadBlocks \cup held \cup leaked
      /\ (QueuedBlocks \cup ThreadBlocks) \cap (held \cup leaked) = {}
      /\ held \cap leaked = {}
  BY DEF OneOwner
<1>2. /\ mem \in [Blocks -> Cell] /\ held \subseteq Blocks /\ leaked \subseteq Blocks
      /\ used \subseteq Blocks /\ NULL \notin Blocks
  BY DataloggerAssumption DEF HeapTypes
<1>3. Call /\ naming' \in BOOLEAN /\ UNCHANGED <<leaked, current_path>>
  BY DEF dl_add_track_data, dl_free_track_data_buffer, Counters
<1>4. CASE UNCHANGED <<used, mem, fifo, held>>
  <2> HIDE DEF Inv, HeapInv
  <2> QED  BY <1>1, <1>2, <1>3, <1>4, NotQueued
<1>5. ASSUME NEW b \in Free, used' = used \cup {b}, Enqueue(b, "LOG_TRACK_DATA", d),
             held' = held \ {d}
      PROVE  Inv' /\ Served
  <2>1. b \in Blocks \ used /\ d \in used /\ d \in Blocks /\ d # NULL /\ d # b
    BY <1>1, <1>2 DEF Free
  <2>2. "LOG_TRACK_DATA" \in Cmds /\ "LOG_TRACK_DATA" \in DataCmds  BY DEF Cmds, DataCmds
  <2>3. /\ mem' \in [Blocks -> Cell] /\ mem'[b].cmd = "LOG_TRACK_DATA" /\ mem'[b].data = d
        /\ \A x \in Blocks \ {b} : mem'[x] = mem[x]
    BY <1>5, <2>1, <2>2, ItemStored DEF Enqueue
  <2>4. \A x \in used : mem'[x] = mem[x]  BY <1>2, <2>1, <2>3
  <2>5. used' = used \cup {b} \cup ({d} \ {NULL})  BY <1>5, <2>1
  <2>6. fifo' = Append(fifo, b)  BY <1>5 DEF Enqueue
  <2> HIDE DEF Inv, HeapInv
  <2> QED  BY <1>3, <1>5, <2>1, <2>2, <2>3, <2>4, <2>5, <2>6, Accepted
<1>6. CASE dl_add_track_data(d)  BY <1>4, <1>5, <1>6 DEF dl_add_track_data
<1>7. CASE dl_free_track_data_buffer(d)
  <2>1. /\ used' = used \ {d} /\ mem' = [mem EXCEPT ![d] = Garbage]
        /\ held' = held \ {d} /\ UNCHANGED fifo
    BY <1>7 DEF dl_free_track_data_buffer, FreeBlock
  <2>2. Garbage \in Cell  BY LogJobAssumption DEF Garbage, Cell, Cmds
  <2>3. mem' \in [Blocks -> Cell] /\ \A x \in Blocks \ {d} : mem'[x] = mem[x]
    BY <1>2, <2>1, <2>2
  <2>4. \A x \in QueuedBlocks \cup ThreadBlocks : mem'[x] = mem[x]
    BY <1>1, <1>2, <2>3
  <2>5. /\ used' = QueuedBlocks \cup ThreadBlocks \cup held' \cup leaked'
        /\ (QueuedBlocks \cup ThreadBlocks) \cap (held' \cup leaked') = {}
        /\ held' \cap leaked' = {} /\ held' \subseteq Blocks /\ leaked' \subseteq Blocks
    BY <1>1, <1>2, <1>3, <2>1
  <2> HIDE DEF Inv, HeapInv
  <2> QED  BY <1>3, <2>1, <2>3, <2>4, <2>5, NotQueued
<1> QED  BY <1>6, <1>7

LEMMA CallerServed ==
  ASSUME Inv, Caller
  PROVE  Inv' /\ Served
<1>1. Call => calls + 1 \in Payloads  BY PayloadOfCall
<1>2. /\ "LOG_FILE" \in DataCmds /\ "LOG_TRACK_FORMAT" \in DataCmds
      /\ "LOG_TRACK_NAMES" \in DataCmds /\ naming \in BOOLEAN
  BY DEF DataCmds, Inv, HeapInv, Counters
<1>3. CASE dl_add_file(calls + 1)
  BY <1>1, <1>2, <1>3, QueueChunkOK, RefuseChunkOK DEF dl_add_file
<1>4. CASE dl_add_track_format_chunk(calls + 1)
  BY <1>1, <1>2, <1>4, QueueChunkOK, RefuseChunkOK DEF dl_add_track_format_chunk
<1>5. CASE dl_add_track_names_chunk(calls + 1)
  BY <1>1, <1>2, <1>5, QueueChunkOK, RefuseChunkOK DEF dl_add_track_names_chunk
<1>6. CASE dl_alloc_track_data_buffer(calls + 1)
  BY <1>1, <1>6, AllocOK DEF dl_alloc_track_data_buffer
<1> QED  BY <1>3, <1>4, <1>5, <1>6, OpenCloseOK, HeldBlockOK DEF Caller
--------------------------------------------------------------------------------
(* The thread *)

\* The abstract thread works as this one does.
LEMMA SameWork ==
  /\ Perform => LS!Perform
  /\ LoseMemory => LS!LoseMemory
  /\ JobInit => LS!JobInit
  /\ \A r \in Request : r \in LS!Request
<1>1. \A r : LS!Chunk(r) = Chunk(r)
  BY DEF LS!Chunk, Chunk, LS!Part, Part, LS!DataCmds, DataCmds
<1>2. LS!NoJob = NoJob  BY DEF LS!NoJob, NoJob
<1>3. /\ WriteElement => LS!WriteElement
      /\ AbandonChunk => LS!AbandonChunk
      /\ FinishUnsynced => LS!FinishUnsynced
      /\ FinishSynced => LS!FinishSynced
      /\ OpenLog => LS!OpenLog
      /\ CloseLog => LS!CloseLog
  BY <1>2 DEF WriteElement, LS!WriteElement, AbandonChunk, LS!AbandonChunk,
     FinishUnsynced, LS!FinishUnsynced, FinishSynced, LS!FinishSynced,
     OpenLog, LS!OpenLog, CloseLog, LS!CloseLog, Fault, LS!Fault, fileVars, LS!fileVars
<1>4. LoseMemory => LS!LoseMemory  BY <1>2 DEF LoseMemory, LS!LoseMemory
<1>5. JobInit => LS!JobInit  BY <1>2 DEF JobInit, LS!JobInit
<1>6. \A r \in Request : r \in LS!Request
  BY DEF Request, LS!Request, Cmds, LS!Cmds, DataCmds, LS!DataCmds
<1> QED  BY <1>3, <1>4, <1>5, <1>6 DEF Perform, LS!Perform

\* Taking an item starts the first request; its blocks go to the thread.
LEMMA GetOK ==
  ASSUME Inv, Get
  PROVE  Inv' /\ LS!Start
<1> USE DEF Inv, HeapInv
<1>0. PICK n \in Nat : n = Len(fifo)  BY QueueFacts
<1>1. /\ pc = "get" /\ fifo # <<>> /\ item' = Head(fifo) /\ fifo' = Tail(fifo) /\ pc' = "work"
      /\ StartJob(RequestAt(Head(fifo)))
      /\ UNCHANGED <<used, mem, held, leaked, naming, calls, losses>>
  BY DEF Get
<1>2. /\ n > 0 /\ Len(fifo') = n - 1 /\ Head(fifo) = fifo[1]
      /\ fifo' \in Seq(Blocks) /\ fifo[1] \in Blocks
      /\ \A i \in 1..(n - 1) : fifo'[i] = fifo[i + 1] /\ i + 1 \in 1..n
      /\ DOMAIN fifo' = 1..(n - 1) /\ 1 \in 1..n
  BY <1>0, <1>1 DEF HeapTypes
<1>3. ItemOK(fifo[1]) /\ (mem[fifo[1]].cmd = "OPEN_LOG" => current_path \in Paths)
  BY <1>0, <1>2 DEF ItemsOK
<1>4. RequestAt(fifo[1]) \in Request /\ RequestAt(fifo[1]).cmd = mem[fifo[1]].cmd
  BY <1>2, LogJobAssumption DEF RequestAt, Request, Cell, HeapTypes
<1>5. JobInv'  BY <1>1, <1>2, <1>3, <1>4, StartJobOK
<1>6. UNCHANGED current_path /\ job'.busy  BY <1>1 DEF StartJob
<1>7. HeapTypes'  BY <1>1, <1>2 DEF HeapTypes
<1>8. Counters'  BY <1>1, <1>2 DEF Counters
<1>9. \A i \in 1..(n - 1) : BlocksOf(fifo[i])' = BlocksOf(fifo[i + 1])
  BY <1>1, <1>2 DEF BlocksOf
<1>10. ThreadBlocks = {} /\ ThreadBlocks' = BlocksOf(fifo[1])
  BY <1>1, <1>2 DEF ThreadBlocks, BlocksOf
<1>11. ThreadOK'  BY <1>1, <1>2, <1>3, <1>6 DEF ThreadOK, ItemOK
<1>12. ItemsOK'
  <2> SUFFICES ASSUME NEW i \in 1..(n - 1)
               PROVE  ItemOK(fifo[i])'
                      /\ (mem'[fifo'[i]].cmd = "OPEN_LOG" => current_path' \in Paths)
    BY <1>2 DEF ItemsOK
  <2> QED  BY <1>0, <1>1, <1>2, <1>6 DEF ItemsOK, ItemOK
<1>13. OneOwner'
  <2>1. /\ used = QueuedBlocks \cup held \cup leaked
        /\ QueuedBlocks \cap (held \cup leaked) = {} /\ held \cap leaked = {}
        /\ \A i, j \in 1..n : i # j => BlocksOf(fifo[i]) \cap BlocksOf(fifo[j]) = {}
        /\ \A i \in 1..n : mem[fifo[i]].data # fifo[i]
    BY <1>0, <1>10, QueueFacts DEF OneOwner
  <2>2. QueuedBlocks' = UNION {BlocksOf(fifo[i])' : i \in 1..(n - 1)}
    BY <1>2 DEF QueuedBlocks
  <2>3. QueuedBlocks = UNION {BlocksOf(fifo[i]) : i \in 1..n}
    BY <1>0, QueueFacts DEF QueuedBlocks
  <2>4. ASSUME NEW x \in QueuedBlocks'
        PROVE  x \in QueuedBlocks /\ x \notin BlocksOf(fifo[1])
    <3>1. PICK i \in 1..(n - 1) : x \in BlocksOf(fifo[i])'  BY <2>2
    <3>2. x \in BlocksOf(fifo[i + 1]) /\ i + 1 \in 1..n /\ i + 1 # 1
      BY <1>2, <1>9, <3>1
    <3> QED  BY <1>2, <2>1, <2>3, <3>2
  <2>5. ASSUME NEW x \in QueuedBlocks
        PROVE  x \in QueuedBlocks' \/ x \in BlocksOf(fifo[1])
    <3>1. PICK i \in 1..n : x \in BlocksOf(fifo[i])  BY <2>3
    <3>2. CASE i = 1  BY <3>1, <3>2
    <3>3. CASE i # 1
      <4>1. PICK j \in 1..(n - 1) : j + 1 = i  BY <1>0, <3>3
      <4>2. x \in BlocksOf(fifo[j])'  BY <1>9, <3>1, <4>1
      <4> QED  BY <2>2, <4>2
    <3> QED  BY <3>2, <3>3
  <2>6. BlocksOf(fifo[1]) \subseteq QueuedBlocks  BY <1>2, <2>3
  <2>7. QueuedBlocks = QueuedBlocks' \cup ThreadBlocks' /\ QueuedBlocks' \cap ThreadBlocks' = {}
    BY <1>10, <2>4, <2>5, <2>6
  <2>8. /\ used' = QueuedBlocks' \cup ThreadBlocks' \cup held' \cup leaked'
        /\ QueuedBlocks' \cap (ThreadBlocks' \cup held' \cup leaked') = {}
        /\ ThreadBlocks' \cap (held' \cup leaked') = {} /\ held' \cap leaked' = {}
    BY <1>1, <2>1, <2>7
  <2>9. \A i, j \in 1..(n - 1) : i # j => BlocksOf(fifo[i])' \cap BlocksOf(fifo[j])' = {}
    <3> SUFFICES ASSUME NEW i \in 1..(n - 1), NEW j \in 1..(n - 1), i # j
                 PROVE  BlocksOf(fifo[i])' \cap BlocksOf(fifo[j])' = {}
      OBVIOUS
    <3>1. i + 1 \in 1..n /\ j + 1 \in 1..n /\ i + 1 # j + 1  BY <1>2
    <3>2. BlocksOf(fifo[i + 1]) \cap BlocksOf(fifo[j + 1]) = {}  BY <2>1, <3>1
    <3> QED  BY <1>9, <3>2
  <2>10. \A i \in 1..(n - 1) : mem'[fifo'[i]].data # fifo'[i]
    BY <1>1, <1>2, <2>1
  <2> QED  BY <1>2, <2>8, <2>9, <2>10 DEF OneOwner
<1>14. LS!Start
  <2>1. Requests = [i \in 1..n |-> RequestAt(fifo[i])]  BY <1>0 DEF Requests
  <2>2. \A i \in 1..(n - 1) : RequestAt(fifo[i])' = RequestAt(fifo[i + 1])
    BY <1>1, <1>2 DEF RequestAt
  <2>3. Requests' = [i \in 1..(n - 1) |-> RequestAt(fifo[i])']  BY <1>2 DEF Requests
  <2>4. /\ Requests # <<>> /\ Head(Requests) = RequestAt(fifo[1])
        /\ Tail(Requests) = [i \in 1..(n - 1) |-> RequestAt(fifo[i + 1])]
    <3>1. Len(Requests) = n /\ Requests[1] = RequestAt(fifo[1])  BY <1>2, <2>1
    <3>2. Tail(Requests) = [i \in 1..(n - 1) |-> Requests[i + 1]]  BY <1>2, <3>1, <2>1
    <3> QED  BY <1>2, <2>1, <3>1, <3>2
  <2>5. Requests' = Tail(Requests)  BY <2>2, <2>3, <2>4
  <2>6. LS!StartJob(Head(Requests))
    BY <1>1, <1>2, <2>4 DEF StartJob, LS!StartJob, fileVars, LS!fileVars, Chunk, LS!Chunk,
       Part, LS!Part, DataCmds, LS!DataCmds
  <2> QED  BY <2>4, <2>5, <2>6 DEF LS!Start
<1> QED  BY <1>5, <1>7, <1>8, <1>11, <1>12, <1>13, <1>14

\* The worker leaves the heap alone; an item without data has one block.
LEMMA WorkOK ==
  ASSUME Inv, Work
  PROVE  Inv' /\ LS!Work
<1> USE DEF Inv, HeapInv
<1>1. /\ pc = "work" /\ Perform /\ UNCHANGED <<used, mem, fifo, held, leaked, naming, item>>
      /\ UNCHANGED <<calls, losses>>
      /\ pc' = IF job'.busy THEN "work"
               ELSE IF mem[item].cmd \in DataCmds THEN "free_data" ELSE "free_item"
  BY DEF Work, heapVars
<1>2. JobInv'  BY <1>1, PerformOK
<1>3. job'.busy \in BOOLEAN  BY <1>2 DEF JobInv, JobTypeOK
<1>4. current_path' = current_path
  BY <1>1 DEF Perform, WriteElement, AbandonChunk, FinishUnsynced, FinishSynced,
     OpenLog, CloseLog
<1>5. ItemOK(item) /\ item \in Blocks  BY <1>1 DEF ThreadOK
<1>6. ThreadBlocks = BlocksOf(item)  BY <1>1 DEF ThreadBlocks
<1>7. ThreadBlocks' = ThreadBlocks
  <2>1. CASE pc' \in {"work", "free_data"}
    BY <1>1, <1>6, <2>1 DEF ThreadBlocks, BlocksOf
  <2>2. CASE pc' = "free_item"
    <3>1. mem[item].data = NULL  BY <1>1, <1>5, <2>2 DEF ItemOK
    <3> QED  BY <1>1, <1>6, <2>2, <3>1 DEF ThreadBlocks, BlocksOf
  <2> QED  BY <1>1, <2>1, <2>2
<1>8. OneOwner' /\ ItemsOK' /\ Requests' = Requests
  <2>1. /\ used = QueuedBlocks \cup ThreadBlocks \cup held \cup leaked
        /\ QueuedBlocks \cap (ThreadBlocks \cup held \cup leaked) = {}
        /\ ThreadBlocks \cap (held \cup leaked) = {} /\ held \cap leaked = {}
    BY DEF OneOwner
  <2> HIDE DEF Inv
  <2> QED  BY <1>1, <1>4, <1>7, <2>1, QueueKept DEF Inv
<1>9. ThreadOK'  BY <1>1, <1>3, <1>5 DEF ThreadOK, ItemOK
<1>10. HeapTypes' /\ Counters'  BY <1>1 DEF HeapTypes, Counters
<1>11. LS!Work  BY <1>1, <1>8, SameWork DEF LS!Work
<1> QED  BY <1>2, <1>8, <1>9, <1>10, <1>11

\* A block of the thread is freed and no other is touched.
LEMMA FreeOK ==
  ASSUME Inv, FreeData \/ FreeItem
  PROVE  Inv' /\ UNCHANGED <<Requests, jobVars>>
<1> USE DEF Inv, HeapInv
<1>1. UNCHANGED jobVars /\ UNCHANGED <<fifo, held, leaked, naming, calls, losses>>
  BY DEF FreeData, FreeItem
<1>2. UNCHANGED <<current_path, log_open, fd, pos, image, durable, job, faults>>
  BY <1>1 DEF jobVars
<1>3. JobInv'  BY <1>2, CallerOK DEF fileVars
<1>4. /\ used = QueuedBlocks \cup ThreadBlocks \cup held \cup leaked
      /\ QueuedBlocks \cap (ThreadBlocks \cup held \cup leaked) = {}
      /\ ThreadBlocks \cap (held \cup leaked) = {} /\ held \cap leaked = {}
      /\ used \subseteq Blocks /\ NULL \notin Blocks /\ item \in Blocks
  BY DataloggerAssumption DEF OneOwner, HeapTypes, ThreadOK, FreeData, FreeItem
<1>5. ASSUME NEW b \in Blocks, FreeBlock(b), b \in ThreadBlocks, ThreadBlocks' = ThreadBlocks \ {b}
      PROVE  OneOwner' /\ ItemsOK' /\ Requests' = Requests /\ HeapTypes'
  <2>1. used' = used \ {b} /\ mem' = [mem EXCEPT ![b] = Garbage]  BY <1>5 DEF FreeBlock
  <2>2. Garbage \in Cell  BY LogJobAssumption DEF Garbage, Cell, Cmds
  <2>3. mem' \in [Blocks -> Cell] /\ \A x \in Blocks \ {b} : mem'[x] = mem[x]
    BY <2>1, <2>2 DEF HeapTypes
  <2>4. HeapTypes'  BY <1>1, <2>1, <2>3 DEF HeapTypes
  <2>5. \A x \in QueuedBlocks : mem'[x] = mem[x]  BY <1>4, <1>5, <2>3
  <2>6. /\ used' = QueuedBlocks \cup ThreadBlocks' \cup held' \cup leaked'
        /\ QueuedBlocks \cap (ThreadBlocks' \cup held' \cup leaked') = {}
        /\ ThreadBlocks' \cap (held' \cup leaked') = {} /\ held' \cap leaked' = {}
    BY <1>1, <1>4, <1>5, <2>1
  <2> HIDE DEF Inv
  <2> QED  BY <1>1, <1>2, <2>4, <2>5, <2>6, QueueKept DEF Inv
<1>6. CASE FreeData
  <2>1. /\ pc = "free_data" /\ pc' = "free_item" /\ item' = item
        /\ FreeBlock(mem[item].data)
    BY <1>6 DEF FreeData
  <2>2. /\ ItemOK(item) /\ mem[item].cmd \in DataCmds
        /\ mem[item].data \in Blocks \cup {NULL}
    BY <1>4, <2>1, QueueFacts DEF ThreadOK
  <2>3. mem[item].data \in Blocks /\ mem[item].data # item  BY <2>2 DEF ItemOK
  <2>4. ThreadBlocks = {item, mem[item].data} /\ ThreadBlocks' = {item}
    BY <1>4, <2>1, <2>3 DEF ThreadBlocks, BlocksOf
  <2>5. OneOwner' /\ ItemsOK' /\ Requests' = Requests /\ HeapTypes'
    BY <1>5, <2>1, <2>3, <2>4
  <2>6. ThreadOK'  BY <1>2, <1>4, <2>1 DEF ThreadOK
  <2>7. Counters'  BY <1>1, <2>1 DEF Counters
  <2> QED  BY <1>1, <1>3, <2>5, <2>6, <2>7
<1>7. CASE FreeItem
  <2>1. pc = "free_item" /\ pc' = "get" /\ item' = NULL /\ FreeBlock(item)
    BY <1>7 DEF FreeItem
  <2>2. ThreadBlocks = {item} /\ ThreadBlocks' = {}
    BY <2>1 DEF ThreadBlocks
  <2>3. OneOwner' /\ ItemsOK' /\ Requests' = Requests /\ HeapTypes'
    BY <1>4, <1>5, <2>1, <2>2
  <2>4. ThreadOK'  BY <1>2, <2>1 DEF ThreadOK
  <2>5. Counters'  BY <1>1, <2>1 DEF Counters
  <2> QED  BY <1>1, <1>3, <2>3, <2>4, <2>5
<1> QED  BY <1>6, <1>7

\* The heap as it is after a start.
Fresh ==
  /\ used = {} /\ fifo = <<>> /\ held = {} /\ leaked = {}
  /\ mem = [b \in Blocks |-> Garbage]
  /\ pc = "get" /\ item = NULL /\ ~job.busy

FreshOwned == HeapTypes /\ OneOwner /\ ItemsOK /\ ThreadOK /\ Requests = <<>>

LEMMA FreshHeap == Fresh => FreshOwned
<1> SUFFICES ASSUME Fresh PROVE FreshOwned  OBVIOUS
<1> USE DEF Fresh
<1>1. Garbage \in Cell  BY LogJobAssumption DEF Garbage, Cell, Cmds
<1>2. HeapTypes  BY <1>1 DEF HeapTypes
<1>3. QueuedBlocks = {} /\ ThreadBlocks = {}  BY DEF QueuedBlocks, ThreadBlocks
<1>4. OneOwner  BY <1>3 DEF OneOwner
<1>5. ItemsOK /\ ThreadOK  BY DEF ItemsOK, ThreadOK
<1>6. Requests = <<>>  BY DEF Requests
<1> QED  BY <1>2, <1>4, <1>5, <1>6 DEF FreshOwned

LEMMA PowerLossOK ==
  ASSUME Inv, PowerLoss
  PROVE  Inv' /\ LS!PowerLoss
<1>1. JobInv' /\ LS!LoseMemory /\ ~job'.busy
  BY LoseMemoryOK, SameWork DEF PowerLoss, Inv, LoseMemory, NoJob
<1>2. Fresh'  BY <1>1 DEF PowerLoss, Fresh
<1>3. FreshOwned'  BY <1>2, FreshHeap, PTL
<1>4. /\ pc' = "get" /\ item' = NULL /\ naming' = FALSE
      /\ calls' \in Nat /\ losses' \in Nat
  BY DEF PowerLoss, Inv, HeapInv, Counters
<1>5. Counters'  BY <1>4 DEF Counters
<1> QED  BY <1>1, <1>3, <1>5 DEF Inv, HeapInv, FreshOwned, LS!PowerLoss

LEMMA InitOK == Init => Inv /\ LS!Init
<1> SUFFICES ASSUME Init PROVE Inv /\ LS!Init  OBVIOUS
<1>1. JobInv /\ LS!JobInit /\ ~job.busy
  BY JobInitOK, SameWork DEF Init, JobInit, NoJob
<1>2. FreshOwned  BY <1>1, FreshHeap DEF Init, Fresh
<1>3. Counters  BY DEF Init, Counters
<1> QED  BY <1>1, <1>2, <1>3 DEF Inv, HeapInv, FreshOwned, LS!Init

\* Every step keeps the invariant and is one of the abstract datalogger.
LEMMA StepOK == Inv /\ [Next]_vars => Inv' /\ [LS!Next]_(LS!serviceVars)
<1> SUFFICES ASSUME Inv, [Next]_vars PROVE Inv' /\ [LS!Next]_(LS!serviceVars)
  OBVIOUS
<1>1. UNCHANGED <<Requests, jobVars>> => UNCHANGED LS!serviceVars
  BY DEF LS!serviceVars, LS!jobVars, LS!fileVars, jobVars
<1>2. CASE Caller
  <2>1. \A r \in Request : r \in LS!Request  BY SameWork
  <2> QED  BY <1>1, <1>2, <2>1, CallerServed DEF Served, LS!Next
<1>3. CASE Get  BY <1>3, GetOK DEF LS!Next
<1>4. CASE Work  BY <1>4, WorkOK DEF LS!Next
<1>5. CASE FreeData \/ FreeItem  BY <1>1, <1>5, FreeOK
<1>6. CASE PowerLoss  BY <1>6, PowerLossOK DEF LS!Next
<1>7. CASE UNCHANGED vars
  <2>1. UNCHANGED <<used, mem, fifo, held, leaked, naming, pc, item, calls, losses>>
    BY <1>7 DEF vars, heapVars, threadVars
  <2>2. UNCHANGED <<current_path, log_open, fd, pos, image, durable, job, faults>>
        /\ UNCHANGED jobVars
    BY <1>7 DEF vars, jobVars
  <2>3. JobInv'  BY <2>2, CallerOK DEF Inv, fileVars
  <2>4. ThreadBlocks' = ThreadBlocks /\ ThreadOK'  BY <2>1, <2>2, ThreadKept DEF Inv
  <2>5. /\ used = QueuedBlocks \cup ThreadBlocks \cup held \cup leaked
        /\ QueuedBlocks \cap (ThreadBlocks \cup held \cup leaked) = {}
        /\ ThreadBlocks \cap (held \cup leaked) = {} /\ held \cap leaked = {}
    BY DEF Inv, HeapInv, OneOwner
  <2>6. OneOwner' /\ ItemsOK' /\ Requests' = Requests
    BY <2>1, <2>2, <2>4, <2>5, QueueKept DEF Inv
  <2>7. HeapTypes' /\ Counters'  BY <2>1 DEF Inv, HeapInv, HeapTypes, Counters
  <2> QED  BY <1>1, <2>2, <2>3, <2>4, <2>6, <2>7 DEF Inv, HeapInv
<1> QED  BY <1>2, <1>3, <1>4, <1>5, <1>6, <1>7 DEF Next, Thread
--------------------------------------------------------------------------------
(* The theorems *)

LEMMA InvCorrect == Spec => []Inv
<1>1. Init => Inv  BY InitOK
<1>2. Inv /\ [Next]_vars => Inv'  BY StepOK
<1> QED  BY <1>1, <1>2, PTL DEF Spec

\* The types of the variables: the log that is opened is always one that a caller
\* named, and no pointer is ever followed that is none.
THEOREM TypeCorrect == Spec => []TypeOK
<1>1. Inv => TypeOK
  BY DEF Inv, JobInv, HeapInv, HeapTypes, Counters, TypeOK
<1> QED  BY <1>1, InvCorrect, PTL

\* The items and data blocks that dl_alloc_item and dl_alloc_track_data_buffer
\* take from the heap have one owner until they are freed.
THEOREM OneOwnerCorrect == Spec => []OneOwner
<1>1. Inv => OneOwner  BY DEF Inv, HeapInv
<1> QED  BY <1>1, InvCorrect, PTL

\* What the thread of datalogger.c writes for one request is whole in the file, but
\* for at most one request per file system call that failed.
THEOREM WholeChunksCorrect == Spec => []WholeChunks
<1>1. Inv => WholeChunks  BY FilesInOrder DEF Inv
<1> QED  BY <1>1, InvCorrect, PTL

\* The format and names of a track that add_track_format_chunk and
\* add_track_names_chunk wrote survive a power loss once their request is done, as
\* long as no file system call fails.
THEOREM MetadataDurableCorrect == Spec => []MetadataDurable
<1>1. Inv => MetadataDurable  BY FilesInOrder DEF Inv
<1> QED  BY <1>1, InvCorrect, PTL

\* datalogger.c implements the queue of requests: what its callers see is as if
\* there were no heap and no pointers.
THEOREM RefinesLogService == Spec => LogServiceRefined
<1>1. Init => LS!Init  BY InitOK
<1>2. Inv /\ [Next]_vars => [LS!Next]_(LS!serviceVars)  BY StepOK
<1> QED  BY <1>1, <1>2, InvCorrect, PTL DEF Spec, LogServiceRefined, LS!Spec
================================================================================
