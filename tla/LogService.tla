------------------------------- MODULE LogService -------------------------------
(***************************************************************************)
(* What the datalogger promises its callers: requests are refused or       *)
(* queued, and the queued ones are performed one at a time, in the order   *)
(* they were queued, each with the payload it was given.  There is no heap *)
(* and there are no pointers: this is the specification that the memory    *)
(* handling of datalogger.c has to live up to.                             *)
(***************************************************************************)
EXTENDS LogJob

VARIABLE queue  \* the requests accepted and not yet started

serviceVars == <<queue, jobVars>>

Init == JobInit /\ queue = <<>>

\* A request is accepted; one to open a log also says which.
Submit(r) ==
  /\ queue' = Append(queue, r)
  /\ IF r.cmd = "OPEN_LOG" THEN current_path' \in Paths ELSE UNCHANGED current_path
  /\ UNCHANGED <<fileVars, job, faults>>

Start == queue # <<>> /\ queue' = Tail(queue) /\ StartJob(Head(queue))

Work == Perform /\ UNCHANGED queue

PowerLoss == LoseMemory /\ queue' = <<>>

Next == (\E r \in Request : Submit(r)) \/ Start \/ Work \/ PowerLoss

Spec == Init /\ [][Next]_serviceVars
================================================================================
