------------------------------ MODULE ConfigStore ------------------------------
(***************************************************************************)
(* The configuration (config_yaml.c, config_shell.c): a JSON object in     *)
(* memory, loaded from env.json at the start, completed by default values  *)
(* and written back; the shell changes and dumps it.  littlefs commits a   *)
(* file when it is closed: a file that is never closed keeps its contents, *)
(* whatever was written.                                                   *)
(***************************************************************************)
EXTENDS Naturals

CONSTANTS
  Keys,        \* keys of the object
  DefaultKeys, \* those of default_values
  FS_FILES     \* files littlefs can hold open

ASSUME ConfigAssumption == DefaultKeys \subseteq Keys /\ FS_FILES \in Nat

VARIABLES
  file,    \* env.json as it would be read after a power loss
  json,    \* appconfig.json
  dump,    \* where config_dump is
  leaked,  \* files left open for good
  cut,     \* a write that was cut short has reached the file
  starved, \* the memory did not suffice to parse the file
  fault    \* the program is in undefined behaviour

configVars == <<file, json, dump, leaked, cut, starved, fault>>

Absent == "absent"

Values == {"default", "own"}

Objects == [Keys -> Values \cup {Absent}]
EmptyObject == [k \in Keys |-> Absent]

NoFile == [kind |-> "none", value |-> EmptyObject]
EmptyFile == [kind |-> "empty", value |-> EmptyObject]
TornFile == [kind |-> "torn", value |-> EmptyObject]
WholeFile(v) == [kind |-> "whole", value |-> v]

Null == [null |-> TRUE, value |-> EmptyObject]
Json(v) == [null |-> FALSE, value |-> v]

ConfigInit ==
  /\ file \in {NoFile} \cup {WholeFile(v) : v \in Objects}
  /\ json = Null /\ dump = "idle" /\ leaked = 0
  /\ cut = FALSE /\ starved = FALSE /\ fault = FALSE

\* There is room for one more file besides those of others.
HandleFree(others) == leaked + others < FS_FILES

\* config_load when the file cannot be opened, or the buffer cannot be allocated:
\* then the file stays open.
LoadNothing(others) ==
  /\ leaked' \in IF HandleFree(others) /\ file # NoFile THEN {leaked, leaked + 1} ELSE {leaked}
  /\ UNCHANGED <<json, starved, fault>>

\* A read fails and its error is taken for a length, or the text is longer than
\* the one block the buffer ever has: memory outside the buffer is overwritten.
LoadOverrun == file # NoFile /\ fault' = TRUE /\ UNCHANGED <<json, leaked, starved>>

\* The text is parsed.  What is not JSON, or too large for the memory that is
\* left, counts as an empty object, if there is memory for that.
LoadParsed ==
  /\ file # NoFile
  /\ \/ /\ json' = Json(IF file.kind = "whole" THEN file.value ELSE EmptyObject)
        /\ starved' = FALSE
     \/ json' \in {Json(EmptyObject), Null} /\ starved' = TRUE
  /\ UNCHANGED <<leaked, fault>>

\* Mutant of WithDefaults: keys that are present are not skipped.
WithDefaultsAll(v, added) == [k \in Keys |-> IF k \in added THEN "default" ELSE v[k]]

\* config_check as far as the default values in added: those that are missing.
WithDefaults(v, added) ==
  [k \in Keys |-> IF k \in added /\ v[k] = Absent THEN "default" ELSE v[k]]

Complete(v) == \A k \in DefaultKeys : v[k] # Absent
--------------------------------------------------------------------------------
(* config_dump of env.json *)

\* Mutant of DumpOpen: the old file is removed first.
DumpOpenAnew(others) ==
  /\ HandleFree(others)
  /\ dump' = "opened" /\ file' = EmptyFile
  /\ UNCHANGED <<json, leaked, cut, starved, fault>>

\* fs_open creates the file if there is none.
DumpOpen(others) ==
  /\ HandleFree(others)
  /\ dump' = "opened"
  /\ file' = IF file = NoFile THEN EmptyFile ELSE file
  /\ UNCHANGED <<json, leaked, cut, starved, fault>>

\* cJSON_Print of a null pointer, or without memory, gives a null pointer, and its
\* length is taken before it is tested.
DumpNothing ==
  /\ dump = "opened"
  /\ \/ fault' = TRUE /\ UNCHANGED dump
     \/ dump' = "unwritten" /\ UNCHANGED fault
  /\ UNCHANGED <<file, json, leaked, cut, starved>>

\* The write is complete, or cut short.
DumpWrite ==
  /\ dump = "opened" /\ ~json.null
  /\ dump' \in {"written", "short"}
  /\ UNCHANGED <<file, json, leaked, cut, starved, fault>>

\* The error of a write is taken for a length, which fs_truncate refuses, or
\* fs_truncate fails itself: the file is left open.
DumpLeaks ==
  /\ dump \in {"opened", "written", "short"} /\ ~json.null
  /\ dump' = "idle" /\ leaked' = leaked + 1
  /\ UNCHANGED <<file, json, cut, starved, fault>>

\* The contents of the file after the close: behind a write that was cut short
\* comes the end of the text or what was in the file before.
Closed ==
  CASE dump = "written" -> WholeFile(json.value)
    [] dump = "short" -> TornFile
    [] OTHER -> file

\* fs_truncate and fs_close, which may fail.
DumpClose ==
  /\ dump \in {"written", "short", "unwritten"}
  /\ dump' = "idle"
  /\ file' \in {file, Closed}
  /\ cut' = (cut \/ (dump = "short" /\ file' # file))
  /\ UNCHANGED <<json, leaked, starved, fault>>
--------------------------------------------------------------------------------
\* config_set_string: only the value of a string that is there is changed; for
\* other keys an object is made that belongs to nothing.
SetString(k, v) ==
  /\ ~json.null /\ json.value[k] # Absent
  /\ json' = Json([json.value EXCEPT ![k] = v])
  /\ UNCHANGED <<file, dump, leaked, cut, starved, fault>>

\* A power loss: memory is gone, and every file that is open with it.
ForgetConfig ==
  /\ json' = Null /\ dump' = "idle" /\ leaked' = 0 /\ starved' = FALSE /\ fault' = FALSE
  /\ UNCHANGED <<file, cut>>
================================================================================
