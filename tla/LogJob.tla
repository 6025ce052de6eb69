--------------------------------- MODULE LogJob ---------------------------------
(***************************************************************************)
(* The work of the datalogger thread (datalogger.c) on one request, and    *)
(* the file system calls it is made of.  A file is a sequence of elements: *)
(* the header byte of a chunk, the size field of an included file, and the *)
(* body of a chunk each are one.                                           *)
(*                                                                         *)
(* The file system is external.  What is written goes to the open file's   *)
(* image and becomes durable at fs_sync or fs_close; a power loss reverts  *)
(* a file to its durable contents.  Every call may fail; faults counts the *)
(* calls that did.                                                         *)
(***************************************************************************)
EXTENDS Integers, Sequences, FiniteSets

CONSTANTS
  Paths,      \* names of log files
  NoPath,     \* no file: fd is closed
  Payloads,   \* what the body of a chunk holds
  NoPayload,  \* what a request without a body carries
  MaxFaults   \* bound: failing file system calls

ASSUME LogJobAssumption ==
  /\ NoPath \notin Paths
  /\ MaxFaults \in Nat
  /\ NoPayload \in Payloads

VARIABLES
  current_path,  \* the path the next OPEN_LOG opens
  log_open,
  fd,            \* the open file, or NoPath
  pos,           \* write position in image
  image,         \* contents of the open file, as the thread sees them
  durable,       \* contents of every file after a power loss
  job,           \* the request being worked on and what is left to write
  faults

fileVars == <<log_open, fd, pos, image, durable>>
jobVars == <<current_path, log_open, fd, pos, image, durable, job, faults>>

DataCmds == {"LOG_FILE", "LOG_TRACK_DATA", "LOG_TRACK_FORMAT", "LOG_TRACK_NAMES"}
Cmds == DataCmds \cup {"OPEN_LOG", "CLOSE_LOG"}

Request == [cmd : Cmds, arg : Payloads]
Element == [part : {"head", "size", "body"}, cmd : Cmds, arg : Payloads]

Part(p, r) == [part |-> p, cmd |-> r.cmd, arg |-> r.arg]

\* Mutant of Chunk: the header byte is written last.
ChunkHeadLast(r) == IF r.cmd \in DataCmds THEN <<Part("body", r), Part("head", r)>> ELSE <<>>

\* What a request writes, in the order it is written.
Chunk(r) ==
  CASE r.cmd = "LOG_FILE" -> <<Part("head", r), Part("size", r), Part("body", r)>>
    [] r.cmd \in DataCmds \ {"LOG_FILE"} -> <<Part("head", r), Part("body", r)>>
    [] OTHER -> <<>>

NoJob == [req |-> [cmd |-> "CLOSE_LOG", arg |-> NoPayload], left |-> <<>>, busy |-> FALSE]

JobInit ==
  /\ current_path = NoPath
  /\ log_open = FALSE
  /\ fd = NoPath
  /\ pos = 0
  /\ image = <<>>
  /\ durable = [p \in Paths |-> <<>>]
  /\ job = NoJob
  /\ faults = 0

\* A file system call fails.
Fault == faults < MaxFaults /\ faults' = faults + 1

\* The thread has taken request r off the queue.
StartJob(r) ==
  /\ ~job.busy
  /\ job' = [req |-> r, left |-> Chunk(r), busy |-> TRUE]
  /\ UNCHANGED <<current_path, fileVars, faults>>

\* fs_write of the next element, over what the file already holds there.
WriteElement ==
  /\ job.busy /\ job.left # <<>> /\ fd # NoPath
  /\ image' = IF pos < Len(image) THEN [image EXCEPT ![pos + 1] = Head(job.left)]
                                  ELSE Append(image, Head(job.left))
  /\ pos' = pos + 1
  /\ job' = [job EXCEPT !.left = Tail(@)]
  /\ UNCHANGED <<current_path, log_open, fd, durable, faults>>

\* A call on the way fails, fs_write of a closed file among them: the rest of
\* the chunk is given up and nobody is told.  fs_open of the file to include
\* gets an uninitialised handle, so it may fail without a reason.
AbandonChunk ==
  /\ job.busy /\ job.left # <<>>
  /\ \/ fd = NoPath /\ UNCHANGED faults
     \/ Fault
  /\ job' = NoJob
  /\ UNCHANGED <<current_path, fileVars>>

\* A data chunk and an included file are not synced.
FinishUnsynced ==
  /\ job.busy /\ job.left = <<>>
  /\ job.req.cmd \in {"LOG_TRACK_DATA", "LOG_FILE"}
  /\ job' = NoJob
  /\ UNCHANGED <<current_path, fileVars, faults>>

\* Mutant of FinishSynced: no sync.
FinishNeverSynced ==
  /\ job.busy /\ job.left = <<>>
  /\ job.req.cmd \in {"LOG_TRACK_FORMAT", "LOG_TRACK_NAMES"}
  /\ job' = NoJob
  /\ UNCHANGED <<current_path, fileVars, faults>>

\* The format and the names of a track are.
FinishSynced ==
  /\ job.busy /\ job.left = <<>>
  /\ job.req.cmd \in {"LOG_TRACK_FORMAT", "LOG_TRACK_NAMES"}
  /\ \/ durable' = [durable EXCEPT ![fd] = image] /\ UNCHANGED faults
     \/ Fault /\ UNCHANGED durable
  /\ job' = NoJob
  /\ UNCHANGED <<current_path, log_open, fd, pos, image>>

\* open_log: no truncation, and no second file while one is open.
OpenLog ==
  /\ job.busy /\ job.req.cmd = "OPEN_LOG"
  /\ \/ /\ fd = NoPath
        /\ fd' = current_path
        /\ pos' = 0
        /\ image' = durable[current_path]
        /\ log_open' = TRUE
        /\ UNCHANGED faults
     \/ /\ \/ fd # NoPath /\ UNCHANGED faults
           \/ fd = NoPath /\ Fault
        /\ log_open' = FALSE
        /\ UNCHANGED <<fd, pos, image>>
  /\ job' = NoJob
  /\ UNCHANGED <<current_path, durable>>

\* Mutant of CloseLog: a failing or missing fs_close leaves the file open.
CloseLogKeepsFile ==
  /\ job.busy /\ job.req.cmd = "CLOSE_LOG"
  /\ durable' = IF fd = NoPath THEN durable ELSE [durable EXCEPT ![fd] = image]
  /\ log_open' = FALSE
  /\ job' = NoJob
  /\ UNCHANGED <<current_path, fd, pos, image, faults>>

\* close_log: fs_sync, then fs_close, which syncs once more; both are no-ops on a
\* closed file.  A file whose fs_close fails stays open, synced before or not.
CloseLog ==
  /\ job.busy /\ job.req.cmd = "CLOSE_LOG"
  /\ \/ /\ durable' = IF fd = NoPath THEN durable ELSE [durable EXCEPT ![fd] = image]
        /\ fd' = NoPath /\ pos' = 0 /\ image' = <<>>
        /\ UNCHANGED faults
     \/ /\ fd # NoPath /\ Fault
        /\ durable' \in {durable, [durable EXCEPT ![fd] = image]}
        /\ UNCHANGED <<fd, pos, image>>
  /\ log_open' = FALSE
  /\ job' = NoJob
  /\ UNCHANGED current_path

Perform == \/ WriteElement \/ AbandonChunk \/ FinishUnsynced \/ FinishSynced
           \/ OpenLog \/ CloseLog

\* A power loss: everything but the durable contents is gone.
LoseMemory ==
  /\ current_path' = NoPath
  /\ log_open' = FALSE
  /\ fd' = NoPath
  /\ pos' = 0
  /\ image' = <<>>
  /\ job' = NoJob
  /\ UNCHANGED <<durable, faults>>

JobTypeOK ==
  /\ current_path \in Paths \cup {NoPath}
  /\ log_open \in BOOLEAN
  /\ fd \in Paths \cup {NoPath}
  /\ pos \in Nat
  /\ image \in Seq(Element)
  /\ durable \in [Paths -> Seq(Element)]
  /\ job \in [req : Request, left : Seq(Element), busy : BOOLEAN]
  /\ faults \in Nat
--------------------------------------------------------------------------------
(* What a reader of the files may rely on *)

\* The thread is in the middle of a chunk.
Underway == job.busy /\ job.left # <<>> /\ job.left # Chunk(job.req)

\* The elements written that the rest of their chunk does not follow.
Torn ==
  {i \in 1..pos :
     /\ image[i].part # "body"
     /\ IF i = pos THEN ~Underway
        ELSE \/ image[i + 1].part = "head"
             \/ image[i + 1].cmd # image[i].cmd \/ image[i + 1].arg # image[i].arg}

\* A chunk is in the file whole or not at all, but for the one being written and
\* at most one torn chunk per failed call: a failure costs no chunk but its own.
WholeChunks == Cardinality(Torn) <= faults

\* A power loss costs no format or names of a track: when the thread is done
\* with one, the file has it durably, and so everything written before it.
MetadataDurable ==
  faults = 0 => \A i \in 1..pos :
     (/\ image[i].cmd \in {"LOG_TRACK_FORMAT", "LOG_TRACK_NAMES"}
      /\ image[i].part = "body"
      /\ ~(job.busy /\ job.left = <<>> /\ i = pos))
       => \A j \in 1..i : j <= Len(durable[fd]) /\ durable[fd][j] = image[j]
================================================================================
