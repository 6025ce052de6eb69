-------------------------------- MODULE LogStore --------------------------------
(***************************************************************************)
(* The numbers of the logs (util.c): get_log_count reads the directory to  *)
(* find the highest number, entry by entry, in whatever order the file     *)
(* system keeps them.                                                      *)
(***************************************************************************)
EXTENDS Naturals

CONSTANT MaxLog  \* bound: highest number of a log

INT_MAX == 2147483647

\* The number after the highest one still is an int.
ASSUME LogStoreAssumption == MaxLog \in 0..(INT_MAX - 1)

VARIABLES
  logs,     \* numbers of the logs in the file system
  entries,  \* those the directory has still to give
  found,    \* what get_log_count has found so far
  unread    \* reading the directory failed at this start

logVars == <<logs, entries, found, unread>>

NoLogs == [min |-> INT_MAX, max |-> 0, count |-> 0]

LogsInit == logs \in SUBSET (1..MaxLog) /\ entries = {} /\ found = NoLogs /\ unread = FALSE

\* Mutant of CountEntry: the maximum already is the number of the next log.
CountEntryNext(c, num) ==
  [count |-> c.count + 1, max |-> IF num > c.max THEN num + 1 ELSE c.max,
   min |-> IF num <= c.max /\ num < c.min THEN num ELSE c.min]

\* One entry of get_log_count; the minimum is only looked at for a number that is
\* no new maximum.
CountEntry(c, num) ==
  [count |-> c.count + 1,
   max |-> IF num > c.max THEN num ELSE c.max,
   min |-> IF num <= c.max /\ num < c.min THEN num ELSE c.min]

OpenDir == entries' = logs /\ found' = NoLogs /\ UNCHANGED <<logs, unread>>

ReadEntry ==
  /\ \E num \in entries : entries' = entries \ {num} /\ found' = CountEntry(found, num)
  /\ UNCHANGED <<logs, unread>>

\* fs_readdir fails, or fs_opendir before it: what was found so far counts.
ReadFails == ~unread /\ unread' = TRUE /\ entries' = {} /\ UNCHANGED <<logs, found>>

\* Mutant of NextLog: the number of logs instead of the highest number.
NextLogCount(c) == c.count + 1

\* The number main gives the new log.
NextLog(c) == c.max + 1

CreateLog(n) == logs' = logs \cup {n} /\ UNCHANGED <<entries, found, unread>>

\* A power loss leaves the logs.
ForgetCount == entries' = {} /\ found' = NoLogs /\ unread' = FALSE /\ UNCHANGED logs

LogsTypeOK ==
  /\ logs \subseteq 1..MaxLog /\ entries \subseteq logs /\ unread \in BOOLEAN
  /\ found \in [min : 0..INT_MAX, max : 0..MaxLog, count : Nat]
================================================================================
