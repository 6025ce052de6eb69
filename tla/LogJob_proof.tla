------------------------------ MODULE LogJob_proof ------------------------------
(***************************************************************************)
(* Lemmas on the work of the datalogger thread: an invariant that every    *)
(* step of a request preserves, a power loss too, and that says what is in *)
(* the files.  Whoever drives the thread only has to show that it hands    *)
(* over proper requests.                                                   *)
(***************************************************************************)
EXTENDS LogJob, FiniteSetTheorems, TLAPS

MetadataCmds == {"LOG_TRACK_FORMAT", "LOG_TRACK_NAMES"}

\* A log is only opened after somebody said which.
OpensKnownPath == job.busy /\ job.req.cmd = "OPEN_LOG" => current_path \in Paths

\* Nothing has been written to a file that is not open.
FileOpen == /\ pos <= Len(image)
            /\ fd = NoPath => pos = 0

\* What can be left of a chunk while it is written.
Rests(r) ==
  {Chunk(r)} \cup
  (IF r.cmd \in DataCmds THEN {<<>>, <<Part("body", r)>>} ELSE {}) \cup
  (IF r.cmd = "LOG_FILE" THEN {<<Part("size", r), Part("body", r)>>} ELSE {})

\* The request in work is the one whose rest is left, and when nothing is left
\* the last element written is of its chunk.
WorksOnRequest ==
  job.busy =>
    /\ job.left \in Rests(job.req)
    /\ job.left = <<>> /\ job.req.cmd \in DataCmds =>
         pos > 0 /\ image[pos].cmd = job.req.cmd

\* WholeChunks, and in the middle of a chunk the rest continues the element
\* written last.
ChunksContinue ==
  /\ Cardinality(Torn) <= faults
  /\ Underway => /\ pos > 0
                 /\ image[pos].cmd = job.req.cmd /\ image[pos].arg = job.req.arg
                 /\ job.left[1].part # "head"

\* The body of a chunk of metadata that still waits for its sync.
Unsynced(i) == job.busy /\ job.left = <<>> /\ job.req.cmd \in MetadataCmds /\ i = pos

\* MetadataDurable, but only the request that syncs its metadata may owe it.
MetadataSynced ==
  faults = 0 => \A i \in 1..pos :
     (image[i].cmd \in MetadataCmds /\ image[i].part = "body" /\ ~Unsynced(i))
       => \A j \in 1..i : j <= Len(durable[fd]) /\ durable[fd][j] = image[j]

JobInv == /\ JobTypeOK /\ OpensKnownPath /\ FileOpen
          /\ WorksOnRequest /\ ChunksContinue /\ MetadataSynced

\* Every request's chunk is a sequence of elements.
LEMMA ChunkType == \A r \in Request : Chunk(r) \in Seq(Element)
<1> SUFFICES ASSUME NEW r \in Request PROVE Chunk(r) \in Seq(Element)  OBVIOUS
<1>1. \A p \in {"head", "size", "body"} : Part(p, r) \in Element
  BY DEF Part, Element, Request
<1>2. /\ <<>> \in Seq(Element)
      /\ <<Part("head", r), Part("body", r)>> \in Seq(Element)
      /\ <<Part("head", r), Part("size", r), Part("body", r)>> \in Seq(Element)
  BY <1>1
<1> QED  BY <1>2 DEF Chunk, DataCmds

\* A chunk that is not empty starts with its header.
LEMMA ChunkStarts ==
  ASSUME NEW r \in Request, r.cmd \in DataCmds
  PROVE  Chunk(r) # <<>> /\ Chunk(r)[1].part = "head"
BY DEF Chunk, DataCmds, Part

\* The torn elements are finitely many, and none of an empty file.
LEMMA TornFinite ==
  ASSUME pos \in Nat
  PROVE  /\ IsFiniteSet(Torn) /\ Cardinality(Torn) \in Nat
         /\ pos = 0 => Torn = {}
<1>1. Torn \subseteq 1..pos /\ IsFiniteSet(1..pos)
  BY FS_Interval DEF Torn
<1>2. IsFiniteSet(Torn)
  BY <1>1, FS_Subset
<1> QED
  BY <1>1, <1>2, FS_CardinalityType

\* A step that tears nothing, or one chunk as a call fails.
LEMMA TornBounded ==
  ASSUME JobTypeOK, Cardinality(Torn) <= faults, faults' \in Nat, pos' \in Nat,
         \/ Torn' \subseteq Torn /\ faults' >= faults
         \/ Torn' \subseteq Torn \cup {pos} /\ faults' = faults + 1
  PROVE  Cardinality(Torn)' <= faults'
<1>1. /\ IsFiniteSet(Torn) /\ Cardinality(Torn) \in Nat /\ faults \in Nat
  BY TornFinite DEF JobTypeOK
<1>2. CASE Torn' \subseteq Torn /\ faults' >= faults
  <2>1. Cardinality(Torn') <= Cardinality(Torn) /\ Cardinality(Torn') \in Nat
    BY <1>1, <1>2, FS_Subset, FS_CardinalityType
  <2> QED  BY <1>1, <1>2, <2>1
<1>3. CASE Torn' \subseteq Torn \cup {pos} /\ faults' = faults + 1
  <2>1. /\ IsFiniteSet(Torn \cup {pos})
        /\ Cardinality(Torn \cup {pos}) <= Cardinality(Torn) + 1
        /\ Cardinality(Torn \cup {pos}) \in Nat
    <3>1. /\ IsFiniteSet(Torn \cup {pos})
          /\ Cardinality(Torn \cup {pos})
               = IF pos \in Torn THEN Cardinality(Torn) ELSE Cardinality(Torn) + 1
      BY <1>1, FS_AddElement
    <3> QED  BY <1>1, <3>1
  <2>2. Cardinality(Torn') <= Cardinality(Torn \cup {pos}) /\ Cardinality(Torn') \in Nat
    BY <1>3, <2>1, FS_Subset, FS_CardinalityType
  <2> QED  BY <1>1, <1>3, <2>1, <2>2
<1> QED  BY <1>2, <1>3

\* Of an empty or closed file nothing is torn.
LEMMA NothingTorn ==
  ASSUME pos' = 0, faults' \in Nat
  PROVE  Cardinality(Torn)' <= faults'
<1>1. Torn' = {}  BY DEF Torn
<1> QED  BY <1>1, FS_EmptySet

\* What is left of a chunk ends in its body, and all of it is of one request.
LEMMA RestsOfChunk ==
  ASSUME NEW r \in Request, NEW s \in Rests(r), s # <<>>
  PROVE  /\ r.cmd \in DataCmds
         /\ s[1].cmd = r.cmd /\ s[1].arg = r.arg
         /\ Tail(s) \in Rests(r)
         /\ IF s[1].part = "body" THEN Tail(s) = <<>>
            ELSE /\ Tail(s) # <<>> /\ Tail(s)[1].part # "head"
                 /\ Tail(s)[1].cmd = r.cmd /\ Tail(s)[1].arg = r.arg
<1> DEFINE head == Part("head", r)  size == Part("size", r)  body == Part("body", r)
<1>1. /\ head.cmd = r.cmd /\ head.arg = r.arg /\ head.part = "head"
      /\ size.cmd = r.cmd /\ size.arg = r.arg /\ size.part = "size"
      /\ body.cmd = r.cmd /\ body.arg = r.arg /\ body.part = "body"
  BY DEF Part
<1>2. Rests(r) \subseteq {<<>>, <<body>>, <<size, body>>, <<head, body>>, <<head, size, body>>}
  BY DEF Rests, Chunk
<1>3. /\ s = <<body>> => r.cmd \in DataCmds
      /\ s = <<head, body>> => r.cmd \in DataCmds
      /\ s = <<size, body>> => r.cmd = "LOG_FILE"
      /\ s = <<head, size, body>> => r.cmd = "LOG_FILE"
  <2> HIDE DEF head, size, body
  <2>1. CASE r.cmd = "LOG_FILE"  BY <2>1 DEF DataCmds
  <2>2. CASE r.cmd \in DataCmds \ {"LOG_FILE"}
    <3>1. Rests(r) = {<<head, body>>, <<>>, <<body>>}
      BY <2>2 DEF Rests, Chunk, head, body
    <3>2. /\ \A t \in Rests(r) : Len(t) = 2 => t[1] = head
          /\ \A t \in Rests(r) : Len(t) # 3
      BY <3>1
    <3>3. /\ Len(<<size, body>>) = 2 /\ <<size, body>>[1] = size /\ size # head
          /\ Len(<<head, size, body>>) = 3
      BY <1>1
    <3> QED  BY <2>2, <3>2, <3>3
  <2>3. CASE r.cmd \notin DataCmds
    <3>1. Rests(r) = {<<>>}  BY <2>3 DEF Rests, Chunk, DataCmds
    <3> QED  BY <3>1
  <2> QED  BY <2>1, <2>2, <2>3
<1>4. /\ r.cmd \in DataCmds => <<>> \in Rests(r) /\ <<body>> \in Rests(r)
      /\ r.cmd = "LOG_FILE" => r.cmd \in DataCmds /\ <<size, body>> \in Rests(r)
  BY DEF Rests, DataCmds
<1> HIDE DEF head, size, body
<1>5. /\ Tail(<<body>>) = <<>> /\ Tail(<<size, body>>) = <<body>>
      /\ Tail(<<head, body>>) = <<body>> /\ Tail(<<head, size, body>>) = <<size, body>>
  OBVIOUS
<1>6. CASE s = <<body>>  BY <1>1, <1>3, <1>4, <1>5, <1>6
<1>7. CASE s = <<size, body>>  BY <1>1, <1>3, <1>4, <1>5, <1>7
<1>8. CASE s = <<head, body>>
  <2>1. r.cmd \in DataCmds  BY <1>3, <1>8
  <2> QED  BY <1>1, <1>4, <1>5, <1>8, <2>1
<1>9. CASE s = <<head, size, body>>  BY <1>1, <1>3, <1>4, <1>5, <1>9
<1> QED  BY <1>2, <1>6, <1>7, <1>8, <1>9

\* The chunks in the file are whole and the metadata is durable.
LEMMA FilesInOrder == JobInv => JobTypeOK /\ WholeChunks /\ MetadataDurable
<1> SUFFICES ASSUME JobInv PROVE WholeChunks /\ MetadataDurable  BY DEF JobInv
<1>1. WholeChunks  BY DEF JobInv, ChunksContinue, WholeChunks
<1>2. MetadataDurable
  BY DEF JobInv, MetadataSynced, MetadataDurable, Unsynced, MetadataCmds
<1> QED  BY <1>1, <1>2

LEMMA JobInitOK == JobInit => JobInv
<1> SUFFICES ASSUME JobInit PROVE JobInv  OBVIOUS
<1>1. NoJob \in [req : Request, left : Seq(Element), busy : BOOLEAN] /\ ~NoJob.busy
  BY LogJobAssumption DEF NoJob, Request, Cmds
<1>2. JobTypeOK
  <2>1. <<>> \in Seq(Element)  OBVIOUS
  <2> QED  BY <1>1, <2>1 DEF JobInit, JobTypeOK
<1>3. OpensKnownPath /\ FileOpen /\ WorksOnRequest
  BY <1>1 DEF JobInit, OpensKnownPath, FileOpen, WorksOnRequest
<1>4. ChunksContinue
  <2>1. Torn = {} /\ ~Underway  BY <1>1 DEF JobInit, Torn, Underway
  <2> QED  BY <2>1, FS_EmptySet DEF JobInit, ChunksContinue
<1>5. MetadataSynced  BY DEF JobInit, MetadataSynced
<1> QED  BY <1>2, <1>3, <1>4, <1>5 DEF JobInv

\* Callers change nothing of the thread's but the path to open next.
LEMMA CallerOK ==
  ASSUME JobInv, UNCHANGED <<fileVars, job, faults>>,
         current_path' = current_path \/ current_path' \in Paths
  PROVE  JobInv'
<1>1. JobTypeOK' /\ OpensKnownPath' /\ FileOpen'
  BY DEF JobInv, JobTypeOK, OpensKnownPath, FileOpen, fileVars
<1>2. WorksOnRequest' /\ MetadataSynced'
  BY DEF JobInv, WorksOnRequest, MetadataSynced, Unsynced, fileVars
<1>3. ChunksContinue'
  BY DEF JobInv, ChunksContinue, Torn, Underway, fileVars
<1> QED  BY <1>1, <1>2, <1>3 DEF JobInv

\* A power loss leaves the thread as it started, but for the files.
LEMMA LoseMemoryOK == JobInv /\ LoseMemory => JobInv'
<1> SUFFICES ASSUME JobInv, LoseMemory PROVE JobInv'  OBVIOUS
<1>1. NoJob \in [req : Request, left : Seq(Element), busy : BOOLEAN] /\ ~NoJob.busy
  BY LogJobAssumption DEF NoJob, Request, Cmds
<1>2. JobTypeOK'
  <2>1. <<>> \in Seq(Element)  OBVIOUS
  <2> QED  BY <1>1, <2>1 DEF LoseMemory, JobInv, JobTypeOK
<1>3. OpensKnownPath' /\ FileOpen' /\ WorksOnRequest'
  BY <1>1 DEF LoseMemory, OpensKnownPath, FileOpen, WorksOnRequest
<1>4. ChunksContinue'
  <2>1. Cardinality(Torn)' <= faults'
    BY NothingTorn DEF LoseMemory, JobInv, JobTypeOK
  <2> QED  BY <1>1, <2>1 DEF LoseMemory, ChunksContinue, Underway
<1>5. MetadataSynced'
  BY DEF LoseMemory, MetadataSynced
<1> QED  BY <1>2, <1>3, <1>4, <1>5 DEF JobInv

\* A request is started with its whole chunk left.
LEMMA StartJobOK ==
  ASSUME JobInv, NEW r \in Request, StartJob(r),
         r.cmd = "OPEN_LOG" => current_path \in Paths
  PROVE  JobInv'
<1>1. /\ job' = [req |-> r, left |-> Chunk(r), busy |-> TRUE] /\ ~job.busy
      /\ UNCHANGED <<current_path, log_open, fd, pos, image, durable, faults>>
  BY DEF StartJob, fileVars
<1>2. JobTypeOK'  BY <1>1, ChunkType DEF JobInv, JobTypeOK
<1>3. OpensKnownPath' /\ FileOpen'
  BY <1>1 DEF JobInv, OpensKnownPath, FileOpen
<1>4. r.cmd \in DataCmds => Chunk(r) # <<>>
  BY DEF Chunk, DataCmds
<1>5. WorksOnRequest'  BY <1>1, <1>4 DEF WorksOnRequest, Rests
<1>6. ChunksContinue'
  <2>1. ~Underway /\ ~Underway'  BY <1>1 DEF Underway
  <2>2. Torn' = Torn  BY <1>1, <2>1 DEF Torn
  <2> QED  BY <1>1, <2>1, <2>2 DEF JobInv, ChunksContinue
<1>7. MetadataSynced'  BY <1>1 DEF JobInv, MetadataSynced, Unsynced
<1> QED  BY <1>2, <1>3, <1>5, <1>6, <1>7 DEF JobInv

\* An element is written: it continues the one before it, and the rest of its
\* chunk continues it.
LEMMA WriteElementOK ==
  ASSUME JobInv, WriteElement
  PROVE  JobInv'
<1> DEFINE e == Head(job.left)
<1>1. /\ job.busy /\ job.left # <<>> /\ fd # NoPath /\ pos \in Nat /\ pos <= Len(image)
      /\ image \in Seq(Element) /\ job.left \in Seq(Element) /\ job.req \in Request
      /\ job.left \in Rests(job.req)
  BY DEF WriteElement, JobInv, JobTypeOK, FileOpen, WorksOnRequest
<1>2. e \in Element /\ e = job.left[1] /\ Tail(job.left) \in Seq(Element)
  BY <1>1
<1>3. /\ image' \in Seq(Element) /\ pos' = pos + 1 /\ pos' <= Len(image')
      /\ image'[pos'] = e /\ \A i \in 1..pos : image'[i] = image[i]
  <2>1. CASE pos < Len(image)
    <3>1. image' = [image EXCEPT ![pos + 1] = e] /\ pos + 1 \in 1..Len(image)
      BY <1>1, <2>1 DEF WriteElement
    <3> HIDE DEF e
    <3> QED  BY <1>1, <1>2, <3>1 DEF WriteElement
  <2>2. CASE ~(pos < Len(image))
    <3>1. image' = Append(image, e) /\ pos = Len(image)
      BY <1>1, <2>2 DEF WriteElement
    <3> HIDE DEF e
    <3> QED  BY <1>1, <1>2, <3>1 DEF WriteElement
  <2> QED  BY <2>1, <2>2
<1>4. /\ job' = [job EXCEPT !.left = Tail(job.left)]
      /\ UNCHANGED <<current_path, log_open, fd, durable, faults>>
  BY DEF WriteElement
<1>5. /\ job'.busy /\ job'.req = job.req /\ job'.left = Tail(job.left)
      /\ job' \in [req : Request, left : Seq(Element), busy : BOOLEAN]
  BY <1>1, <1>2, <1>4 DEF JobInv, JobTypeOK
<1>6. /\ job.req.cmd \in DataCmds
      /\ e.cmd = job.req.cmd /\ e.arg = job.req.arg
      /\ job'.left \in Rests(job.req)
      /\ IF e.part = "body" THEN job'.left = <<>>
         ELSE /\ job'.left # <<>> /\ job'.left[1].part # "head"
              /\ job'.left[1].cmd = e.cmd /\ job'.left[1].arg = e.arg
  <2> DEFINE s == job.left  r == job.req
  <2>1. /\ r.cmd \in DataCmds
        /\ s[1].cmd = r.cmd /\ s[1].arg = r.arg
        /\ Tail(s) \in Rests(r)
        /\ IF s[1].part = "body" THEN Tail(s) = <<>>
           ELSE /\ Tail(s) # <<>> /\ Tail(s)[1].part # "head"
                /\ Tail(s)[1].cmd = r.cmd /\ Tail(s)[1].arg = r.arg
    <3>1. r \in Request /\ s \in Rests(r) /\ s # <<>>
      BY <1>1
    <3> HIDE DEF r, s
    <3> QED
      BY <3>1, RestsOfChunk
  <2>2. e = s[1] /\ job'.left = Tail(s)
    BY <1>2, <1>5
  <2> HIDE DEF e, r, s
  <2>3. /\ r.cmd \in DataCmds /\ e.cmd = r.cmd /\ e.arg = r.arg
        /\ job'.left \in Rests(r)
        /\ IF e.part = "body" THEN job'.left = <<>>
           ELSE /\ job'.left # <<>> /\ job'.left[1].part # "head"
                /\ job'.left[1].cmd = e.cmd /\ job'.left[1].arg = e.arg
    BY <2>1, <2>2
  <2> QED
    BY <2>3 DEF r
<1> HIDE DEF e
<1>7. JobTypeOK'  BY <1>1, <1>3, <1>4, <1>5 DEF JobInv, JobTypeOK
<1>8. OpensKnownPath' /\ FileOpen'
  BY <1>1, <1>3, <1>4, <1>5 DEF JobInv, OpensKnownPath, FileOpen
<1>9. WorksOnRequest'  BY <1>1, <1>3, <1>5, <1>6 DEF WorksOnRequest
<1>10. ChunksContinue'
  <2>1. Chunk(job.req) # <<>> /\ Chunk(job.req)[1].part = "head"
    BY <1>1, <1>6, ChunkStarts
  <2>2. e.part # "body" => Underway'
    BY <1>5, <1>6, <2>1 DEF Underway
  <2>3. Underway' => /\ pos' > 0
                    /\ image'[pos'].cmd = job'.req.cmd /\ image'[pos'].arg = job'.req.arg
                    /\ job'.left[1].part # "head"
    BY <1>1, <1>3, <1>5, <1>6 DEF Underway
  <2>4. Torn' \subseteq Torn
    <3> SUFFICES ASSUME NEW i \in 1..(pos + 1), i \in Torn' PROVE i \in Torn
      BY <1>3 DEF Torn
    <3>1. i # pos + 1  BY <1>3, <2>2 DEF Torn
    <3>2. CASE i = pos
      <4>1. /\ image[i].part # "body"
            /\ \/ e.part = "head"
               \/ e.cmd # image[i].cmd \/ e.arg # image[i].arg
        BY <1>1, <1>3, <3>2 DEF Torn
      <4>2. ~Underway
        BY <1>2, <1>6, <3>2, <4>1 DEF JobInv, ChunksContinue
      <4> QED  BY <1>1, <3>2, <4>1, <4>2 DEF Torn
    <3>3. CASE i < pos
      <4>1. image'[i] = image[i] /\ image'[i + 1] = image[i + 1]
        BY <1>1, <1>3, <3>3
      <4> QED  BY <1>1, <1>3, <3>3, <4>1 DEF Torn
    <3> QED  BY <1>1, <3>1, <3>2, <3>3
  <2>5. Cardinality(Torn)' <= faults'
    BY <1>3, <1>4, <2>4, TornBounded DEF JobInv, ChunksContinue, JobTypeOK
  <2> QED  BY <2>3, <2>5 DEF ChunksContinue
<1>11. MetadataSynced'
  <2> SUFFICES ASSUME faults = 0, NEW i \in 1..(pos + 1),
                      image'[i].cmd \in MetadataCmds, image'[i].part = "body",
                      ~Unsynced(i)', NEW j \in 1..i
               PROVE  j <= Len(durable[fd]) /\ durable[fd][j] = image'[j]
    BY <1>3, <1>4 DEF MetadataSynced
  <2>1. i # pos + 1  BY <1>3, <1>5, <1>6 DEF Unsynced
  <2>2. i \in 1..pos /\ image'[i] = image[i] /\ image'[j] = image[j]
    BY <1>1, <1>3, <2>1
  <2>3. ~Unsynced(i)  BY <1>1 DEF Unsynced
  <2> QED  BY <2>2, <2>3 DEF JobInv, MetadataSynced
<1> QED  BY <1>7, <1>8, <1>9, <1>10, <1>11 DEF JobInv

\* A chunk whose rest is given up: nothing of it was written to a closed file,
\* and otherwise a call failed.
LEMMA AbandonChunkOK ==
  ASSUME JobInv, AbandonChunk
  PROVE  JobInv'
<1>1. /\ NoJob \in [req : Request, left : Seq(Element), busy : BOOLEAN] /\ ~NoJob.busy
      /\ <<>> \in Seq(Element)
  BY LogJobAssumption DEF NoJob, Request, Cmds
<1>2. /\ job' = NoJob /\ UNCHANGED <<current_path, log_open, fd, pos, image, durable>>
      /\ \/ fd = NoPath /\ faults' = faults
         \/ faults' = faults + 1
  BY DEF AbandonChunk, Fault, fileVars
<1>3. JobTypeOK'  BY <1>1, <1>2 DEF JobInv, JobTypeOK
<1>4. OpensKnownPath' /\ FileOpen' /\ WorksOnRequest'
  BY <1>1, <1>2 DEF JobInv, OpensKnownPath, FileOpen, WorksOnRequest
<1>5. faults' = 0 => pos' = 0
  BY <1>2 DEF JobInv, JobTypeOK, FileOpen
<1>6. MetadataSynced'  BY <1>5 DEF MetadataSynced
<1>7. ChunksContinue'
  <2>1. ~Underway'  BY <1>1, <1>2 DEF Underway
  <2>2. Torn' \subseteq Torn \cup {pos}  BY <1>2 DEF Torn
  <2>3. faults' = faults => pos' = 0  BY <1>2 DEF JobInv, JobTypeOK, FileOpen
  <2>4. Cardinality(Torn)' <= faults'
    <3>1. CASE faults' = faults
      BY <1>3, <2>3, <3>1, NothingTorn DEF JobTypeOK
    <3>2. CASE faults' = faults + 1
      BY <1>3, <2>2, <3>2, TornBounded DEF JobInv, ChunksContinue, JobTypeOK
    <3> QED  BY <1>2, <3>1, <3>2
  <2> QED  BY <2>1, <2>4 DEF ChunksContinue
<1> QED  BY <1>3, <1>4, <1>6, <1>7 DEF JobInv

\* The end of a request that left the file as it is: what is in it was whole
\* when nothing was left to write, and only metadata had to be synced.
LEMMA EndOfRequest ==
  ASSUME JobInv, job.busy, job.left = <<>>, job' = NoJob, JobTypeOK',
         UNCHANGED <<current_path, fd, pos, image>>,
         faults' = faults \/ faults' = faults + 1,
         faults' = faults =>
           \/ durable' = [durable EXCEPT ![fd] = image]
           \/ durable' = durable /\ job.req.cmd \notin MetadataCmds
  PROVE  JobInv'
<1>1. ~NoJob.busy  BY DEF NoJob
<1>2. OpensKnownPath' /\ FileOpen' /\ WorksOnRequest'
  BY <1>1 DEF JobInv, OpensKnownPath, FileOpen, WorksOnRequest
<1>3. faults' = 0 => faults = 0 /\ faults' = faults
  BY DEF JobInv, JobTypeOK
<1>4. ChunksContinue'
  <2>1. ~Underway /\ ~Underway'  BY <1>1 DEF Underway
  <2>2. Torn' = Torn  BY <2>1 DEF Torn
  <2>3. Cardinality(Torn)' <= faults'
    BY <2>2, TornBounded DEF JobInv, JobTypeOK, ChunksContinue
  <2> QED  BY <2>1, <2>3 DEF ChunksContinue
<1>5. MetadataSynced'
  <2> SUFFICES ASSUME faults' = 0, NEW i \in 1..pos, NEW j \in 1..i,
                      image[i].cmd \in MetadataCmds, image[i].part = "body"
               PROVE  j <= Len(durable'[fd]) /\ durable'[fd][j] = image[j]
    BY DEF MetadataSynced
  <2>1. pos \in Nat /\ pos <= Len(image) /\ fd \in Paths
    BY DEF JobInv, JobTypeOK, FileOpen
  <2>2. CASE durable' = [durable EXCEPT ![fd] = image]
    <3>1. durable'[fd] = image  BY <2>1, <2>2 DEF JobInv, JobTypeOK
    <3> QED  BY <2>1, <3>1 DEF JobInv, JobTypeOK
  <2>3. CASE durable' = durable /\ job.req.cmd \notin MetadataCmds
    BY <1>3, <2>3 DEF JobInv, MetadataSynced, Unsynced
  <2> QED  BY <1>3, <2>2, <2>3
<1> QED  BY <1>2, <1>4, <1>5 DEF JobInv

\* A request that leaves the file closed, or opened anew.
LEMMA FileAnew ==
  ASSUME JobInv, job' = NoJob, JobTypeOK', pos' = 0
  PROVE  JobInv'
<1>1. ~NoJob.busy  BY DEF NoJob
<1>2. OpensKnownPath' /\ FileOpen' /\ WorksOnRequest'
  BY <1>1 DEF JobTypeOK, OpensKnownPath, FileOpen, WorksOnRequest
<1>3. Cardinality(Torn)' <= faults'  BY NothingTorn DEF JobTypeOK
<1>4. ChunksContinue' /\ MetadataSynced'
  BY <1>1, <1>3 DEF ChunksContinue, Underway, MetadataSynced
<1> QED  BY <1>2, <1>4 DEF JobInv

LEMMA PerformOK ==
  ASSUME JobInv, Perform
  PROVE  JobInv'
<1>1. /\ NoJob \in [req : Request, left : Seq(Element), busy : BOOLEAN]
      /\ <<>> \in Seq(Element)
  BY LogJobAssumption DEF NoJob, Request, Cmds
<1>2. /\ fd \in Paths \cup {NoPath} /\ image \in Seq(Element) /\ faults \in Nat
      /\ durable \in [Paths -> Seq(Element)]
      /\ [durable EXCEPT ![fd] = image] \in [Paths -> Seq(Element)]
  BY DEF JobInv, JobTypeOK
<1>3. CASE WriteElement  BY <1>3, WriteElementOK
<1>4. CASE AbandonChunk  BY <1>4, AbandonChunkOK
<1>5. CASE FinishUnsynced
  <2>1. JobTypeOK'  BY <1>1, <1>5 DEF FinishUnsynced, JobInv, JobTypeOK, fileVars
  <2>2. job.req.cmd \notin MetadataCmds  BY <1>5 DEF FinishUnsynced, MetadataCmds
  <2> QED  BY <1>5, <2>1, <2>2, EndOfRequest DEF FinishUnsynced, fileVars
<1>6. CASE FinishSynced
  <2>1. JobTypeOK'  BY <1>1, <1>2, <1>6 DEF FinishSynced, Fault, JobInv, JobTypeOK
  <2>2. faults' = faults \/ faults' = faults + 1
    BY <1>6 DEF FinishSynced, Fault
  <2>3. faults' = faults => durable' = [durable EXCEPT ![fd] = image]
    BY <1>2, <1>6 DEF FinishSynced, Fault
  <2> QED  BY <1>6, <2>1, <2>2, <2>3, EndOfRequest DEF FinishSynced
<1>7. CASE OpenLog
  <2>0. job' = NoJob /\ UNCHANGED <<current_path, durable>>  BY <1>7 DEF OpenLog
  <2>1. CASE fd' = current_path /\ pos' = 0 /\ image' = durable[current_path]
             /\ fd = NoPath /\ log_open' = TRUE /\ UNCHANGED faults
    <3>1. current_path \in Paths  BY <1>7 DEF OpenLog, JobInv, OpensKnownPath
    <3>2. JobTypeOK'  BY <1>1, <1>2, <2>0, <2>1, <3>1 DEF JobInv, JobTypeOK
    <3> QED  BY <1>7, <2>1, <3>2, FileAnew DEF OpenLog
  <2>2. CASE fd = NoPath /\ Fault /\ log_open' = FALSE /\ UNCHANGED <<fd, pos, image>>
    <3>0. faults' \in Nat  BY <1>2, <2>2 DEF Fault
    <3>1. JobTypeOK'  BY <1>1, <2>0, <2>2, <3>0 DEF JobInv, JobTypeOK
    <3>2. pos' = 0  BY <2>2 DEF JobInv, FileOpen
    <3> QED  BY <1>7, <3>1, <3>2, FileAnew DEF OpenLog
  <2>3. CASE fd # NoPath /\ log_open' = FALSE /\ UNCHANGED <<fd, pos, image, faults>>
    <3>1. JobTypeOK'  BY <1>1, <2>0, <2>3 DEF JobInv, JobTypeOK
    <3>2. job.left = <<>> /\ job.req.cmd \notin MetadataCmds
      BY <1>7 DEF OpenLog, JobInv, WorksOnRequest, Rests, Chunk, DataCmds, MetadataCmds
    <3> QED  BY <1>7, <2>3, <3>1, <3>2, EndOfRequest DEF OpenLog
  <2> QED  BY <1>7, <2>1, <2>2, <2>3 DEF OpenLog
<1>8. CASE CloseLog
  <2>0. job' = NoJob /\ UNCHANGED current_path /\ log_open' = FALSE
    BY <1>8 DEF CloseLog
  <2>1. CASE fd' = NoPath /\ pos' = 0 /\ image' = <<>> /\ UNCHANGED faults
             /\ durable' = IF fd = NoPath THEN durable ELSE [durable EXCEPT ![fd] = image]
    <3>1. JobTypeOK'  BY <1>1, <1>2, <2>0, <2>1 DEF JobInv, JobTypeOK
    <3> QED  BY <1>8, <2>1, <3>1, FileAnew DEF CloseLog
  <2>2. CASE /\ Fault /\ UNCHANGED <<fd, pos, image>>
             /\ durable' \in {durable, [durable EXCEPT ![fd] = image]}
    <3>0. /\ faults' \in Nat
          /\ durable' \in [Paths -> Seq(Element)]
      <4>1. faults' \in Nat
        BY <1>2, <2>2 DEF Fault
      <4>2. durable' = durable \/ durable' = [durable EXCEPT ![fd] = image]
        BY <2>2, Zenon
      <4>3. durable' \in [Paths -> Seq(Element)]
        BY <1>2, <4>2
      <4> QED
        BY <4>1, <4>3
    <3>1. JobTypeOK'  BY <1>1, <2>0, <2>2, <3>0 DEF JobInv, JobTypeOK
    <3>2. job.left = <<>>
      BY <1>8 DEF CloseLog, JobInv, WorksOnRequest, Rests, Chunk, DataCmds
    <3>3. faults' = faults + 1  BY <2>2 DEF Fault
    <3> QED  BY <1>2, <1>8, <2>2, <3>1, <3>2, <3>3, EndOfRequest DEF CloseLog
  <2> QED  BY <1>8, <2>1, <2>2 DEF CloseLog
<1> QED  BY <1>3, <1>4, <1>5, <1>6, <1>7, <1>8 DEF Perform
================================================================================
