--------------------------------- MODULE Startup ---------------------------------
(***************************************************************************)
(* A start of the flight computer as main.c goes through it, and what is   *)
(* kept over a power loss, which may come at any moment: the configuration *)
(* is loaded, completed and saved, the log gets its number, and the shell  *)
(* changes and dumps the configuration while the log is recorded.          *)
(***************************************************************************)
EXTENDS ConfigStore, LogStore

VARIABLES
  phase,      \* "config", "check", "save", "count", "read", "running", "logging"
  number      \* the number of this start's log

startVars == <<phase, logVars, number>>
vars == <<configVars, startVars>>

Init ==
  /\ ConfigInit /\ LogsInit
  /\ phase = "config" /\ number = 0

\* Files of other users: the log is open while it is recorded.
Others == IF phase = "logging" THEN 1 ELSE 0

Step(from, to) == ~fault /\ phase = from /\ phase' = to /\ UNCHANGED <<logVars, number>>
--------------------------------------------------------------------------------
(* init_config *)

\* Without a configuration main goes on with none, and writes none.
ConfigMissing == Step("config", "count") /\ LoadNothing(Others) /\ UNCHANGED <<file, dump, cut>>

ConfigOverrun == Step("config", "config") /\ LoadOverrun /\ UNCHANGED <<file, dump, cut>>

ConfigLoaded ==
  /\ Step("config", "check") /\ HandleFree(Others)
  /\ LoadParsed
  /\ UNCHANGED <<file, dump, cut>>

\* The file fails to close after it was parsed.
ConfigUnchecked == Step("check", "count") /\ UNCHANGED configVars

CheckComplete == Step("check", "count") /\ ~json.null /\ Complete(json.value) /\ UNCHANGED configVars

\* A default value finds no memory: the defaults before it have been added.
CheckFails ==
  /\ Step("check", "count")
  /\ \/ json.null /\ UNCHANGED json
     \/ \E added \in SUBSET DefaultKeys :
          LET v == WithDefaults(json.value, added) IN
          ~json.null /\ ~Complete(v) /\ json' = Json(v)
  /\ UNCHANGED <<file, dump, leaked, cut, starved, fault>>

CheckAdds ==
  /\ Step("check", "save")
  /\ ~json.null /\ ~Complete(json.value)
  /\ json' = Json(WithDefaults(json.value, DefaultKeys))
  /\ UNCHANGED <<file, dump, leaked, cut, starved, fault>>
--------------------------------------------------------------------------------
(* config_dump, by init_config or by the shell *)

\* The user of the shell waits for the configuration; main sleeps for a second
\* before it names the log.
ShellReady == phase \in {"count", "read", "running", "logging"}

StartupSaves == ~fault /\ phase = "save" /\ dump = "idle" /\ DumpOpen(Others) /\ UNCHANGED startVars

ShellDumps ==
  /\ ~fault /\ ShellReady /\ dump = "idle"
  /\ DumpOpen(Others)
  /\ UNCHANGED startVars

DumpStep ==
  /\ ~fault
  /\ DumpNothing \/ DumpWrite \/ DumpLeaks \/ DumpClose
  /\ phase' = IF phase = "save" /\ dump' = "idle" THEN "count" ELSE phase
  /\ UNCHANGED <<logVars, number>>

\* The file cannot be opened for writing.
SaveFails == Step("save", "count") /\ dump = "idle" /\ UNCHANGED configVars

ShellSets(k, v) ==
  /\ ~fault /\ ShellReady /\ dump = "idle"
  /\ SetString(k, v)
  /\ UNCHANGED startVars
--------------------------------------------------------------------------------
(* The log *)

\* main calls get_log_count, whose result is not looked at.
StartCount ==
  /\ ~fault /\ phase = "count" /\ phase' = "read"
  /\ OpenDir
  /\ UNCHANGED <<number, configVars>>

CountLogs ==
  /\ ~fault /\ phase = "read"
  /\ ReadEntry \/ ReadFails
  /\ UNCHANGED <<phase, number, configVars>>

\* Its answer is the name of the log.
NameLog ==
  /\ ~fault /\ phase = "read" /\ entries = {}
  /\ phase' = "running" /\ number' = NextLog(found)
  /\ UNCHANGED <<logVars, configVars>>

\* dl_open_log of that name, when the rocket is on the pad.
StartLog ==
  /\ ~fault /\ phase = "running" /\ number <= MaxLog
  /\ HandleFree(IF dump = "idle" THEN 0 ELSE 1)
  /\ phase' = "logging" /\ CreateLog(number)
  /\ UNCHANGED <<number, configVars>>

PowerLoss ==
  /\ ForgetConfig /\ ForgetCount
  /\ phase' = "config" /\ number' = 0
--------------------------------------------------------------------------------
Next ==
  \/ ConfigMissing \/ ConfigOverrun \/ ConfigLoaded \/ ConfigUnchecked
  \/ CheckFails \/ CheckComplete \/ CheckAdds
  \/ StartupSaves \/ SaveFails \/ DumpStep
  \/ ShellDumps \/ \E k \in Keys, v \in Values : ShellSets(k, v)
  \/ StartCount \/ CountLogs \/ NameLog \/ StartLog
  \/ PowerLoss

Spec == Init /\ [][Next]_vars
--------------------------------------------------------------------------------
\* With the files left open, the dump and the log, littlefs never holds more files
\* than it can.
HandlesSuffice == leaked + (IF dump = "idle" THEN 0 ELSE 1) + Others <= FS_FILES

ConfigTypeOK ==
  /\ file \in [kind : {"none", "empty", "torn", "whole"}, value : Objects]
  /\ json \in [null : BOOLEAN, value : Objects]
  /\ dump \in {"idle", "opened", "written", "short", "unwritten"}
  /\ leaked \in Nat /\ HandlesSuffice
  /\ cut \in BOOLEAN /\ starved \in BOOLEAN /\ fault \in BOOLEAN
  /\ phase \in {"config", "check", "save", "count", "read", "running", "logging"}

TypeOK ==
  /\ ConfigTypeOK /\ LogsTypeOK
  /\ number \in 0..(MaxLog + 1)

\* The log gets a number no log has yet, wherever earlier starts were broken off
\* and whichever logs were removed, unless reading the directory failed.
FreshLog == phase = "running" /\ ~unread => number \notin logs

\* A power loss at any moment of a dump leaves the old configuration or the new
\* one: a configuration that could be read can always be read, until a write that
\* was cut short reaches the file.
ConfigNeverTorn == [][file.kind = "whole" /\ ~cut' => file'.kind = "whole"]_vars

\* A start never replaces a value in the file by a default, unless the memory
\* did not suffice to parse the file or the write was cut short.
StartKeepsValues ==
  [][phase = "save" /\ file.kind = "whole" /\ ~starved =>
       \/ file'.kind = "torn"
       \/ \A k \in Keys : file.value[k] # Absent => file'.value[k] = file.value[k]]_vars
================================================================================
