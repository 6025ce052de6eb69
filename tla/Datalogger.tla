------------------------------- MODULE Datalogger -------------------------------
(***************************************************************************)
(* The datalogger (datalogger.c): callers allocate request items and data  *)
(* blocks from a k_heap and put the items on a k_fifo; the datalogger      *)
(* thread takes them off, performs them and frees them.                    *)
(*                                                                         *)
(* The callers are cooperative threads and no call waits, so a call is one *)
(* step.  The thread has a lower priority and may be preempted anywhere.   *)
(* A block of the heap is one allocation: sizes and fragmentation are      *)
(* abstracted into an allocation that may fail as soon as another block is *)
(* allocated (an empty heap of 4096 bytes serves every request).           *)
(***************************************************************************)
EXTENDS LogJob

CONSTANTS
  Blocks,     \* addresses the heap hands out
  NULL,
  MaxCalls,   \* bound: calls of the API
  MaxLosses   \* bound: power losses

ASSUME DataloggerAssumption ==
  /\ NULL \notin Blocks
  /\ MaxCalls \in Nat
  /\ 1..MaxCalls \subseteq Payloads
  /\ MaxLosses \in Nat

VARIABLES
  used,     \* allocated blocks
  mem,      \* what callers stored in a block: an item's cmd and data pointer,
            \*   a data block's payload
  fifo,     \* addresses of the queued items
  held,     \* data blocks a caller has allocated and not submitted or freed
  leaked,   \* allocated blocks whose address is lost
  naming,   \* dl_start_track is between its two calls
  pc,       \* the thread: "get", "work", "free_data", "free_item"
  item,     \* the item the thread works on
  calls, losses

heapVars == <<used, mem, fifo, held, leaked, naming>>
threadVars == <<pc, item>>
vars == <<heapVars, threadVars, calls, losses, jobVars>>

Cell == [cmd : Cmds, data : Blocks \cup {NULL}, arg : Payloads]

\* What a block holds after the heap has reused it for its free list.
Garbage == [cmd |-> "CLOSE_LOG", data |-> NULL, arg |-> NoPayload]

Init ==
  /\ JobInit
  /\ used = {} /\ fifo = <<>> /\ held = {} /\ leaked = {}
  /\ mem = [b \in Blocks |-> Garbage]
  /\ naming = FALSE
  /\ pc = "get" /\ item = NULL
  /\ calls = 0 /\ losses = 0
--------------------------------------------------------------------------------
(* The calls *)

Free == Blocks \ used
AllocFails == used # {}

\* k_heap_free.
FreeBlock(b) == used' = used \ {b} /\ mem' = [mem EXCEPT ![b] = Garbage]

\* A call of the API, the n-th; n names what it logs.
Call ==
  /\ calls < MaxCalls
  /\ calls' = calls + 1
  /\ UNCHANGED <<threadVars, losses, fileVars, job, faults>>

\* Mutant of Enqueue: the item jumps the queue.
EnqueueFirst(b, cmd, data) ==
  /\ mem' = [mem EXCEPT ![b].cmd = cmd, ![b].data = data]
  /\ fifo' = <<b>> \o fifo

\* Item b is filled in and queued.
Enqueue(b, cmd, data) ==
  /\ mem' = [mem EXCEPT ![b].cmd = cmd, ![b].data = data]
  /\ fifo' = Append(fifo, b)

\* dl_open_log stores the path where the thread will look for it.
dl_open_log(path) ==
  /\ Call /\ ~naming
  /\ \/ \E b \in Free : /\ used' = used \cup {b}
                        /\ Enqueue(b, "OPEN_LOG", NULL)
                        /\ current_path' = path
                        /\ UNCHANGED <<held, leaked, naming>>
     \/ AllocFails /\ UNCHANGED <<heapVars, current_path>>

dl_close_log ==
  /\ Call /\ ~naming
  /\ \/ \E b \in Free : /\ used' = used \cup {b}
                        /\ Enqueue(b, "CLOSE_LOG", NULL)
                        /\ UNCHANGED <<held, leaked, naming>>
     \/ AllocFails /\ UNCHANGED heapVars
  /\ UNCHANGED current_path

\* The item and the data block of a chunk; a failing second allocation
\* returns without freeing the first.
QueueChunk(cmd, payload) ==
  \E b \in Free, d \in Free :
     /\ b # d
     /\ used' = used \cup {b, d}
     /\ mem' = [mem EXCEPT ![b].cmd = cmd, ![b].data = d, ![d].arg = payload]
     /\ fifo' = Append(fifo, b)
     /\ UNCHANGED <<held, leaked>>

LoseItem ==
  /\ AllocFails
  /\ \E b \in Free : used' = used \cup {b} /\ leaked' = leaked \cup {b}
  /\ UNCHANGED <<mem, fifo, held>>

RefuseChunk ==
  \/ LoseItem
  \/ AllocFails /\ UNCHANGED <<used, mem, fifo, held, leaked>>

dl_add_file(payload) ==
  /\ Call /\ ~naming
  /\ QueueChunk("LOG_FILE", payload) \/ RefuseChunk
  /\ UNCHANGED <<naming, current_path>>

\* dl_start_track: the format, then, if that was queued, the names.
dl_add_track_format_chunk(payload) ==
  /\ Call /\ ~naming
  /\ \/ QueueChunk("LOG_TRACK_FORMAT", payload) /\ naming' \in {TRUE, FALSE}
     \/ RefuseChunk /\ UNCHANGED naming
  /\ UNCHANGED current_path

dl_add_track_names_chunk(payload) ==
  /\ Call
  /\ QueueChunk("LOG_TRACK_NAMES", payload) \/ RefuseChunk
  /\ naming' = FALSE
  /\ UNCHANGED current_path

\* Mutant of dl_alloc_track_data_buffer: a failed allocation is handed out.
alloc_unchecked(payload) ==
  /\ Call /\ ~naming
  /\ \/ \E d \in Free : /\ used' = used \cup {d}
                        /\ mem' = [mem EXCEPT ![d].arg = payload]
                        /\ held' = held \cup {d}
     \/ AllocFails /\ held' = held \cup {NULL} /\ UNCHANGED <<used, mem>>
  /\ UNCHANGED <<fifo, leaked, naming, current_path>>

dl_alloc_track_data_buffer(payload) ==
  /\ Call /\ ~naming
  /\ \/ \E d \in Free : /\ used' = used \cup {d}
                        /\ mem' = [mem EXCEPT ![d].arg = payload]
                        /\ held' = held \cup {d}
     \/ AllocFails /\ UNCHANGED <<used, mem, held>>
  /\ UNCHANGED <<fifo, leaked, naming, current_path>>

\* Mutant of dl_add_track_data: a queued data block stays the caller's too.
add_track_data_keeping(d) ==
  /\ Call /\ ~naming
  /\ \/ \E b \in Free : used' = used \cup {b} /\ Enqueue(b, "LOG_TRACK_DATA", d)
     \/ UNCHANGED <<used, mem, fifo>>
  /\ UNCHANGED <<held, leaked, naming, current_path>>

\* A refused data block stays the caller's.
dl_add_track_data(d) ==
  /\ Call /\ ~naming
  /\ \/ \E b \in Free : /\ used' = used \cup {b}
                        /\ Enqueue(b, "LOG_TRACK_DATA", d)
                        /\ held' = held \ {d}
     \/ UNCHANGED <<used, mem, fifo, held>>
  /\ UNCHANGED <<leaked, naming, current_path>>

dl_free_track_data_buffer(d) ==
  /\ Call /\ ~naming
  /\ FreeBlock(d)
  /\ held' = held \ {d}
  /\ UNCHANGED <<fifo, leaked, naming, current_path>>

\* The payload of a call is named by its number.
Caller ==
  \/ \E p \in Paths : dl_open_log(p)
  \/ dl_close_log
  \/ dl_add_file(calls + 1)
  \/ dl_add_track_format_chunk(calls + 1)
  \/ dl_add_track_names_chunk(calls + 1)
  \/ dl_alloc_track_data_buffer(calls + 1)
  \/ \E d \in held : dl_add_track_data(d) \/ dl_free_track_data_buffer(d)
--------------------------------------------------------------------------------
(* datalogger_consumer *)

\* The request an item in memory stands for.
RequestAt(b) ==
  [cmd |-> mem[b].cmd,
   arg |-> IF mem[b].data = NULL THEN NoPayload ELSE mem[mem[b].data].arg]

Get ==
  /\ pc = "get" /\ fifo # <<>>
  /\ item' = Head(fifo)
  /\ fifo' = Tail(fifo)
  /\ pc' = "work"
  /\ StartJob(RequestAt(Head(fifo)))
  /\ UNCHANGED <<used, mem, held, leaked, naming, calls, losses>>

\* Mutant of Work: the data block of a chunk is not freed.
WorkKeepsData ==
  /\ pc = "work"
  /\ Perform
  /\ pc' = IF job'.busy THEN "work" ELSE "free_item"
  /\ UNCHANGED <<heapVars, item, calls, losses>>

Work ==
  /\ pc = "work"
  /\ Perform
  /\ pc' = IF job'.busy THEN "work"
           ELSE IF mem[item].cmd \in DataCmds THEN "free_data" ELSE "free_item"
  /\ UNCHANGED <<heapVars, item, calls, losses>>

FreeData ==
  /\ pc = "free_data"
  /\ FreeBlock(mem[item].data)
  /\ pc' = "free_item"
  /\ UNCHANGED <<fifo, held, leaked, naming, item, calls, losses, jobVars>>

FreeItem ==
  /\ pc = "free_item"
  /\ FreeBlock(item)
  /\ item' = NULL
  /\ pc' = "get"
  /\ UNCHANGED <<fifo, held, leaked, naming, calls, losses, jobVars>>

Thread == Get \/ Work \/ FreeData \/ FreeItem

\* Power is lost and comes back.
PowerLoss ==
  /\ losses < MaxLosses
  /\ losses' = losses + 1
  /\ LoseMemory
  /\ used' = {} /\ fifo' = <<>> /\ held' = {} /\ leaked' = {} /\ naming' = FALSE
  /\ mem' = [b \in Blocks |-> Garbage]
  /\ pc' = "get" /\ item' = NULL
  /\ UNCHANGED calls

Next == Caller \/ Thread \/ PowerLoss

Spec == Init /\ [][Next]_vars

\* The threads above the datalogger thread all block once per sample.
FairSpec == Spec /\ WF_vars(Thread)
--------------------------------------------------------------------------------
(* Properties *)

\* The variables keep their types.
TypeOK ==
  /\ JobTypeOK
  /\ used \subseteq Blocks /\ held \subseteq Blocks /\ leaked \subseteq Blocks
  /\ mem \in [Blocks -> Cell]
  /\ fifo \in Seq(Blocks)
  /\ naming \in BOOLEAN
  /\ pc \in {"get", "work", "free_data", "free_item"}
  /\ item \in Blocks \cup {NULL}
  /\ calls \in Nat /\ losses \in Nat

\* The blocks of an item: its own and, until freed, its data.
BlocksOf(b) == {b} \cup (IF mem[b].data = NULL THEN {} ELSE {mem[b].data})

QueuedBlocks == UNION {BlocksOf(fifo[i]) : i \in DOMAIN fifo}

ThreadBlocks ==
  CASE pc = "get" -> {}
    [] pc \in {"work", "free_data"} -> BlocksOf(item)
    [] pc = "free_item" -> {item}

\* Every allocated block has exactly one owner: a queued item, the thread, a
\* caller, or nobody any more.  So no block is freed twice, no block is reused
\* while somebody still reads it, and none is lost but by a failed allocation.
OneOwner ==
  /\ used = QueuedBlocks \cup ThreadBlocks \cup held \cup leaked
  /\ QueuedBlocks \cap (ThreadBlocks \cup held \cup leaked) = {}
  /\ ThreadBlocks \cap (held \cup leaked) = {}
  /\ held \cap leaked = {}
  /\ \A i, j \in DOMAIN fifo :
        i # j => BlocksOf(fifo[i]) \cap BlocksOf(fifo[j]) = {}
  /\ \A i \in DOMAIN fifo : mem[fifo[i]].data # fifo[i]

\* The requests the queued items stand for.
Requests == [i \in 1..Len(fifo) |-> RequestAt(fifo[i])]

LS == INSTANCE LogService WITH queue <- Requests

\* The heap, the item pointers and the frees are invisible to a caller: the
\* datalogger performs the requests it accepted, in order, with the payloads
\* they were given.
LogServiceRefined == LS!Spec

\* Once the callers are silent, the thread returns all the memory it was handed:
\* what stays allocated is with a caller or lost.
HeapDrains == <>[](used = held \cup leaked)

\* datalogger.h: "If the file already exists, the file is overriden".  At the
\* close the file holds what was written since the open and nothing else.
FileOverriden ==
  job.busy /\ job.req.cmd = "CLOSE_LOG" /\ fd # NoPath => Len(image) = pos
================================================================================
