----------------------------- MODULE Startup_proof -----------------------------
(***************************************************************************)
(* What a power loss and a start do to the configuration, for any keys and *)
(* any number of file handles: the file is never torn but by a write that  *)
(* was cut short, and a start never replaces a value it could read. And    *)
(* for any number of logs: a start gives its log a number no log has.      *)
(***************************************************************************)
EXTENDS Startup, TLAPS

USE DEF Step, ShellReady, Others, HandleFree, Null, Json, NoFile, EmptyFile, TornFile, WholeFile,
        configVars, startVars, logVars

\* v has every value the file has.
Keeps(v) == \A k \in Keys : file.value[k] # Absent => v[k] = file.value[k]

\* From the load to the end of the save memory holds at least what the file held,
\* and before the save no dump is under way: why the object that the
\* start writes back repeats the values of the file.
Loaded ==
  /\ phase \in {"config", "check"} => dump = "idle"
  /\ phase \in {"check", "save"} /\ file.kind = "whole" /\ ~starved
       => ~json.null /\ Keeps(json.value)
  /\ phase = "save" /\ dump \in {"written", "short"} => ~json.null

IInv == ConfigTypeOK /\ Loaded

\* get_log_count has looked at every log the directory has no longer to give: the
\* maximum it found bounds those, all of them when nothing is left to read.
Counted ==
  /\ phase = "read" /\ ~unread => \A l \in logs \ entries : l <= found.max
  /\ phase = "running" => number >= 1
  /\ phase = "running" /\ ~unread => \A l \in logs : l < number

CountInv == LogsTypeOK /\ number \in 0..(MaxLog + 1) /\ Counted

\* The actions of init_config, those of config_dump and its callers, those of
\* get_log_count, and the rest.
Configures ==
  \/ ConfigMissing \/ ConfigOverrun \/ ConfigLoaded \/ ConfigUnchecked
  \/ CheckFails \/ CheckComplete \/ CheckAdds \/ SaveFails

Dumps == StartupSaves \/ ShellDumps \/ DumpStep

Counts == StartCount \/ CountLogs \/ NameLog

Elsewhere == StartLog \/ PowerLoss \/ \E k \in Keys, v \in Values : ShellSets(k, v)

LEMMA NextCases == Next <=> Configures \/ Dumps \/ Counts \/ Elsewhere
BY DEF Next, Configures, Dumps, Counts, Elsewhere

\* Default values complete an object and change none of its values.
LEMMA DefaultsKeep ==
  ASSUME NEW v \in Objects, NEW added \in SUBSET Keys
  PROVE  /\ WithDefaults(v, added) \in Objects
         /\ \A k \in Keys : v[k] # Absent => WithDefaults(v, added)[k] = v[k]
BY DEF WithDefaults, Objects, Values

LEMMA ObjectsHold == EmptyObject \in Objects
BY DEF EmptyObject, Objects
--------------------------------------------------------------------------------
LEMMA TypeInitially == Init => ConfigTypeOK
<1> SUFFICES ASSUME Init PROVE ConfigTypeOK  OBVIOUS
<1>1. file \in [kind : {"none", "empty", "torn", "whole"}, value : Objects]
  BY ObjectsHold DEF Init, ConfigInit
<1>2. json \in [null : BOOLEAN, value : Objects]
  BY ObjectsHold DEF Init, ConfigInit
<1>3. HandlesSuffice  BY ConfigAssumption DEF Init, ConfigInit, HandlesSuffice
<1> QED  BY <1>1, <1>2, <1>3 DEF Init, ConfigInit, ConfigTypeOK

LEMMA ConfiguresType == IInv /\ Configures => ConfigTypeOK'
<1> SUFFICES ASSUME IInv, Configures PROVE ConfigTypeOK'  OBVIOUS
<1> USE DEF IInv, ConfigTypeOK, HandlesSuffice
<1>1. CASE ConfigMissing
  <2>1. phase = "config" /\ phase' = "count" /\ UNCHANGED <<file, json, dump, cut, starved, fault>>
    BY <1>1 DEF ConfigMissing, LoadNothing
  <2>2. leaked' = leaked \/ (leaked < FS_FILES /\ leaked' = leaked + 1)
    BY <1>1 DEF ConfigMissing, LoadNothing
  <2>3. dump = "idle"  BY <2>1 DEF Loaded
  <2> QED  BY <2>1, <2>2, <2>3, ConfigAssumption
<1>2. CASE ConfigOverrun  BY <1>2 DEF ConfigOverrun, LoadOverrun
<1>3. CASE ConfigLoaded
  <2>1. json' \in [null : BOOLEAN, value : Objects]
    <3>1. EmptyObject \in Objects /\ file.value \in Objects  BY ObjectsHold
    <3>2. \E v \in Objects, null \in BOOLEAN : json' = [null |-> null, value |-> v]
      BY <1>3, <3>1 DEF ConfigLoaded, LoadParsed
    <3> QED  BY <3>2
  <2>2. starved' \in BOOLEAN  BY <1>3, Zenon DEF ConfigLoaded, LoadParsed
  <2> QED  BY <1>3, <2>1, <2>2 DEF ConfigLoaded, LoadParsed
<1>4. CASE ConfigUnchecked \/ CheckComplete \/ SaveFails
  BY <1>4 DEF ConfigUnchecked, CheckComplete, SaveFails
<1>5. CASE CheckFails
  <2>1. CASE UNCHANGED json  BY <1>5, <2>1 DEF CheckFails
  <2>2. ASSUME NEW added \in SUBSET DefaultKeys,
               json' = [null |-> FALSE, value |-> WithDefaults(json.value, added)]
        PROVE  ConfigTypeOK'
    <3>1. WithDefaults(json.value, added) \in Objects  BY DefaultsKeep, ConfigAssumption
    <3> QED  BY <1>5, <2>2, <3>1 DEF CheckFails
  <2> QED  BY <1>5, <2>1, <2>2 DEF CheckFails
<1>6. CASE CheckAdds
  BY <1>6, DefaultsKeep, ConfigAssumption DEF CheckAdds
<1> QED  BY <1>1, <1>2, <1>3, <1>4, <1>5, <1>6 DEF Configures

LEMMA DumpsType == ConfigTypeOK /\ Dumps => ConfigTypeOK'
<1> SUFFICES ASSUME ConfigTypeOK, Dumps PROVE ConfigTypeOK'  OBVIOUS
<1> USE DEF ConfigTypeOK, HandlesSuffice
<1>1. CASE StartupSaves \/ ShellDumps
  BY <1>1, ConfigAssumption, ObjectsHold DEF StartupSaves, ShellDumps, DumpOpen
<1>2. CASE DumpStep
  <2>1. phase' \in {phase, "count"} /\ (phase' # phase => phase = "save")  BY <1>2 DEF DumpStep
  <2>2. CASE DumpNothing  BY <1>2, <2>1, <2>2, ConfigAssumption DEF DumpNothing
  <2>3. CASE DumpWrite  BY <1>2, <2>1, <2>3, ConfigAssumption DEF DumpWrite
  <2>4. CASE DumpLeaks  BY <1>2, <2>1, <2>4, ConfigAssumption DEF DumpLeaks
  <2>5. CASE DumpClose
    <3>1. file' \in [kind : {"none", "empty", "torn", "whole"}, value : Objects]
      BY <2>5, ObjectsHold DEF DumpClose, Closed
    <3> QED  BY <1>2, <2>1, <2>5, <3>1, ConfigAssumption DEF DumpClose
  <2> QED  BY <1>2, <2>2, <2>3, <2>4, <2>5 DEF DumpStep
<1> QED  BY <1>1, <1>2 DEF Dumps

LEMMA CountsType == ConfigTypeOK /\ Counts => ConfigTypeOK'
BY DEF Counts, StartCount, CountLogs, NameLog, OpenDir, ReadEntry, ReadFails, ConfigTypeOK, HandlesSuffice

LEMMA OthersType == ConfigTypeOK /\ Elsewhere => ConfigTypeOK'
<1> SUFFICES ASSUME ConfigTypeOK, Elsewhere PROVE ConfigTypeOK'  OBVIOUS
<1> USE DEF ConfigTypeOK, HandlesSuffice
<1>1. CASE StartLog  BY <1>1, ConfigAssumption DEF StartLog
<1>2. CASE PowerLoss
  <2>1. json' \in [null : BOOLEAN, value : Objects]
    BY <1>2, ObjectsHold DEF PowerLoss, ForgetConfig
  <2>2. HandlesSuffice'  BY <1>2, ConfigAssumption DEF PowerLoss, ForgetConfig
  <2> QED  BY <1>2, <2>1, <2>2 DEF PowerLoss, ForgetConfig
<1>3. ASSUME NEW k \in Keys, NEW v \in Values, ShellSets(k, v) PROVE ConfigTypeOK'
  <2>1. [json.value EXCEPT ![k] = v] \in Objects  BY DEF Objects
  <2> QED  BY <1>3, <2>1 DEF ShellSets, SetString
<1> QED  BY <1>1, <1>2, <1>3 DEF Elsewhere
--------------------------------------------------------------------------------
LEMMA LoadedInitially == Init => Loaded
BY DEF Init, ConfigInit, Loaded

LEMMA ConfiguresLoaded == IInv /\ Configures => Loaded'
<1> SUFFICES ASSUME IInv, Configures PROVE Loaded'  OBVIOUS
<1> USE DEF IInv, ConfigTypeOK, Loaded, Keeps
<1>1. CASE ConfigMissing  BY <1>1 DEF ConfigMissing, LoadNothing
<1>2. CASE ConfigOverrun  BY <1>2 DEF ConfigOverrun, LoadOverrun
<1>3. CASE ConfigLoaded  BY <1>3 DEF ConfigLoaded, LoadParsed
<1>4. CASE ConfigUnchecked \/ CheckComplete \/ SaveFails
  BY <1>4 DEF ConfigUnchecked, CheckComplete, SaveFails
<1>5. CASE CheckFails  BY <1>5 DEF CheckFails
<1>6. CASE CheckAdds
  <2> DEFINE w == WithDefaults(json.value, DefaultKeys)
  <2>1. \A k \in Keys : json.value[k] # Absent => w[k] = json.value[k]
    BY DefaultsKeep, ConfigAssumption
  <2>2. json' = [null |-> FALSE, value |-> w] /\ phase = "check" /\ phase' = "save"
        /\ UNCHANGED <<file, dump, starved>>
    BY <1>6 DEF CheckAdds
  <2> HIDE DEF w
  <2> QED  BY <2>1, <2>2
<1> QED  BY <1>1, <1>2, <1>3, <1>4, <1>5, <1>6 DEF Configures

LEMMA DumpsLoaded == IInv /\ Dumps => Loaded'
<1> SUFFICES ASSUME IInv, Dumps PROVE Loaded'  OBVIOUS
<1> USE DEF IInv, ConfigTypeOK, Loaded, Keeps
<1>1. CASE StartupSaves \/ ShellDumps
  BY <1>1 DEF StartupSaves, ShellDumps, DumpOpen
<1>2. CASE DumpStep
  <2>1. CASE DumpNothing  BY <1>2, <2>1 DEF DumpStep, DumpNothing
  <2>2. CASE DumpWrite  BY <1>2, <2>2 DEF DumpStep, DumpWrite
  <2>3. CASE DumpLeaks  BY <1>2, <2>3 DEF DumpStep, DumpLeaks
  <2>4. CASE DumpClose  BY <1>2, <2>4 DEF DumpStep, DumpClose
  <2> QED  BY <1>2, <2>1, <2>2, <2>3, <2>4 DEF DumpStep
<1> QED  BY <1>1, <1>2 DEF Dumps

LEMMA CountsLoaded == IInv /\ Counts => Loaded'
BY DEF Counts, StartCount, CountLogs, NameLog, OpenDir, ReadEntry, ReadFails, IInv, Loaded, Keeps

LEMMA OthersLoaded == IInv /\ Elsewhere => Loaded'
<1> SUFFICES ASSUME IInv, Elsewhere PROVE Loaded'  OBVIOUS
<1> USE DEF IInv, ConfigTypeOK, Loaded, Keeps
<1>1. CASE StartLog  BY <1>1 DEF StartLog
<1>2. CASE PowerLoss  BY <1>2 DEF PowerLoss, ForgetConfig
<1>3. ASSUME NEW k \in Keys, NEW v \in Values, ShellSets(k, v) PROVE Loaded'
  BY <1>3 DEF ShellSets, SetString
<1> QED  BY <1>1, <1>2, <1>3 DEF Elsewhere

LEMMA Stutter == IInv /\ UNCHANGED vars => IInv'
BY DEF IInv, ConfigTypeOK, HandlesSuffice, Loaded, Keeps, vars

LEMMA StepKeeps == IInv /\ [Next]_vars => IInv'
BY NextCases, ConfiguresType, DumpsType, CountsType, OthersType, ConfiguresLoaded, DumpsLoaded,
   CountsLoaded, OthersLoaded, Stutter DEF IInv

LEMMA Inductive == Spec => []IInv
BY TypeInitially, LoadedInitially, StepKeeps, PTL DEF Spec, IInv
--------------------------------------------------------------------------------
LEMMA IntMax == INT_MAX \in Nat
BY DEF INT_MAX

LEMMA NoneCounted == NoLogs \in [min : 0..INT_MAX, max : 0..MaxLog, count : Nat]
BY IntMax, LogStoreAssumption DEF NoLogs

LEMMA CountInitially == Init => CountInv
<1> SUFFICES ASSUME Init PROVE CountInv  OBVIOUS
<1>1. found \in [min : 0..INT_MAX, max : 0..MaxLog, count : Nat]
  BY NoneCounted DEF Init, LogsInit
<1>2. number \in 0..(MaxLog + 1)  BY LogStoreAssumption DEF Init
<1> QED  BY <1>1, <1>2 DEF Init, LogsInit, CountInv, LogsTypeOK, Counted

\* An entry keeps the findings in their types, and bounds itself.
LEMMA EntryCounts ==
  ASSUME NEW num \in 1..MaxLog, LogsTypeOK
  PROVE  /\ CountEntry(found, num) \in [min : 0..INT_MAX, max : 0..MaxLog, count : Nat]
         /\ num <= CountEntry(found, num).max
         /\ found.max <= CountEntry(found, num).max
<1>1. num \in Nat /\ num <= MaxLog /\ MaxLog < INT_MAX /\ MaxLog \in Nat
  BY IntMax, LogStoreAssumption
<1>2. found.min \in 0..INT_MAX /\ found.max \in 0..MaxLog /\ found.count \in Nat  BY DEF LogsTypeOK
<1> DEFINE most == IF num > found.max THEN num ELSE found.max
           least == IF num <= found.max /\ num < found.min THEN num ELSE found.min
<1>3. most \in 0..MaxLog /\ num <= most /\ found.max <= most  BY <1>1, <1>2
<1>4. least \in 0..INT_MAX  BY <1>1, <1>2, IntMax
<1>5. CountEntry(found, num) = [count |-> found.count + 1, max |-> most, min |-> least]
  BY DEF CountEntry
<1> HIDE DEF most, least
<1> QED  BY <1>2, <1>3, <1>4, <1>5

LEMMA CountsKeep == CountInv /\ Counts => CountInv'
<1> SUFFICES ASSUME CountInv, Counts PROVE CountInv'  OBVIOUS
<1> USE DEF CountInv, LogsTypeOK, Counted
<1>1. CASE StartCount
  BY <1>1, NoneCounted, LogStoreAssumption DEF StartCount, OpenDir
<1>2. CASE CountLogs
  <2>1. CASE ReadEntry
    <3>0. PICK num \in entries : entries' = entries \ {num} /\ found' = CountEntry(found, num)
      BY <2>1 DEF ReadEntry
    <3> DEFINE f == CountEntry(found, num)
    <3>1. entries' = entries \ {num} /\ found' = f  BY <3>0
    <3>2. f \in [min : 0..INT_MAX, max : 0..MaxLog, count : Nat] /\ num <= f.max
          /\ found.max <= f.max
      BY EntryCounts
    <3>3. phase = "read" /\ UNCHANGED <<phase, number, logs, unread>>
      BY <1>2, <2>1 DEF CountLogs, ReadEntry
    <3> HIDE DEF f
    <3>4. found' \in [min : 0..INT_MAX, max : 0..MaxLog, count : Nat]  BY <3>1, <3>2
    <3>5. LogsTypeOK'
      <4>1. logs' \subseteq 1..MaxLog /\ entries' \subseteq logs' /\ unread' \in BOOLEAN
        BY <3>1, <3>3
      <4> QED  BY <3>4, <4>1
    <3>6. ASSUME ~unread, NEW l \in logs \ entries' PROVE l <= found'.max
      <4>1. l \in Nat /\ found.max \in Nat /\ f.max \in Nat  BY <3>2, LogStoreAssumption
      <4>2. CASE l = num  BY <3>1, <3>2, <4>2
      <4>3. CASE l # num
        <5>1. l \in logs \ entries  BY <3>1, <4>3
        <5>2. l <= found.max  BY <3>3, <3>6, <5>1
        <5> QED  BY <3>1, <3>2, <4>1, <5>2
      <4> QED  BY <4>2, <4>3
    <3> QED  BY <3>3, <3>5, <3>6
  <2>2. CASE ReadFails  BY <1>2, <2>2 DEF CountLogs, ReadFails
  <2> QED  BY <1>2, <2>1, <2>2 DEF CountLogs
<1>3. CASE NameLog
  BY <1>3, LogStoreAssumption DEF NameLog, NextLog
<1> QED  BY <1>1, <1>2, <1>3 DEF Counts

LEMMA OthersCount == CountInv /\ Elsewhere => CountInv'
<1> SUFFICES ASSUME CountInv, Elsewhere PROVE CountInv'  OBVIOUS
<1> USE DEF CountInv, LogsTypeOK, Counted
<1>1. CASE StartLog  BY <1>1 DEF StartLog, CreateLog
<1>2. CASE PowerLoss
  <2>1. found' \in [min : 0..INT_MAX, max : 0..MaxLog, count : Nat]
    BY <1>2, NoneCounted DEF PowerLoss, ForgetCount
  <2>2. number' \in 0..(MaxLog + 1)  BY <1>2, LogStoreAssumption DEF PowerLoss
  <2> QED  BY <1>2, <2>1, <2>2 DEF PowerLoss, ForgetCount
<1>3. ASSUME NEW k \in Keys, NEW v \in Values, ShellSets(k, v) PROVE CountInv'
  BY <1>3 DEF ShellSets
<1> QED  BY <1>1, <1>2, <1>3 DEF Elsewhere

\* The configuration does not touch the logs: a step of it only goes to the moment
\* before the count.
LEMMA ConfigurationKeeps == CountInv /\ (Configures \/ Dumps) => CountInv'
<1> SUFFICES ASSUME CountInv, Configures \/ Dumps PROVE CountInv'  OBVIOUS
<1>1. UNCHANGED <<logVars, number>> /\ phase' \in {phase, "config", "check", "save", "count"}
  BY DEF Configures, ConfigMissing, ConfigOverrun, ConfigLoaded, ConfigUnchecked, CheckFails,
         CheckComplete, CheckAdds, SaveFails, Dumps, StartupSaves, ShellDumps, DumpStep
<1> QED  BY <1>1 DEF CountInv, LogsTypeOK, Counted

LEMMA CountStutter == CountInv /\ UNCHANGED vars => CountInv'
BY DEF CountInv, LogsTypeOK, Counted, vars

LEMMA CountInductive == Spec => []CountInv
<1>1. CountInv /\ [Next]_vars => CountInv'
  BY NextCases, CountsKeep, OthersCount, ConfigurationKeeps, CountStutter
<1> QED  BY CountInitially, <1>1, PTL DEF Spec
--------------------------------------------------------------------------------
\* The file changes only when a dump opens or closes it.
LEMMA FileChanges ==
  ASSUME [Next]_vars, file' # file
  PROVE  \/ file = NoFile
         \/ DumpStep /\ DumpClose
BY DEF Next, vars, ConfigMissing, ConfigOverrun, ConfigLoaded, ConfigUnchecked, CheckFails,
       CheckComplete, CheckAdds, StartupSaves, SaveFails, ShellDumps, DumpOpen, DumpStep,
       DumpNothing, DumpWrite, DumpLeaks, ShellSets, SetString, StartCount,
       CountLogs, NameLog, StartLog, PowerLoss, ForgetConfig

\* The types of the configuration, for any keys and any number of handles; above
\* all, the files left open by failed dumps never exceed what littlefs can hold.
THEOREM ConfigTypeCorrect == Spec => []ConfigTypeOK
<1>1. IInv => ConfigTypeOK  BY DEF IInv
<1> QED  BY <1>1, Inductive, PTL

\* The types of a start, for any number of logs: the number of a log is always one
\* the file system could still hold, or the one after.
THEOREM TypeCorrect == Spec => []TypeOK
<1>1. IInv /\ CountInv => TypeOK  BY DEF IInv, CountInv, TypeOK
<1> QED  BY <1>1, Inductive, CountInductive, PTL

\* The log of a start gets a number no log has yet, in whatever order the directory
\* gives the logs and whichever were removed, unless reading it failed.
THEOREM FreshLogCorrect == Spec => []FreshLog
<1>1. CountInv => FreshLog
  <2> SUFFICES ASSUME CountInv, phase = "running", ~unread, number \in logs PROVE FALSE
    BY DEF FreshLog
  <2>1. number < number  BY DEF CountInv, Counted
  <2> QED  BY <2>1 DEF CountInv
<1> QED  BY <1>1, CountInductive, PTL

\* A configuration that could be read can always be read, wherever power is lost,
\* until a write that was cut short has reached the file.
THEOREM ConfigNeverTornCorrect == Spec => ConfigNeverTorn
<1>1. [Next]_vars => (file.kind = "whole" /\ ~cut' => file'.kind = "whole")
  <2> SUFFICES ASSUME [Next]_vars, file.kind = "whole", ~cut', file' # file
               PROVE  file'.kind = "whole"
    OBVIOUS
  <2>1. DumpClose  BY FileChanges
  <2>2. dump # "short"  BY <2>1 DEF DumpClose
  <2> QED  BY <2>1, <2>2 DEF DumpClose, Closed
<1> QED  BY <1>1, PTL DEF Spec, ConfigNeverTorn

\* A start never replaces a value in the file by a default, unless the memory did
\* not suffice to parse the file or the write was cut short.
THEOREM StartKeepsValuesCorrect == Spec => StartKeepsValues
<1>1. IInv /\ [Next]_vars =>
        (phase = "save" /\ file.kind = "whole" /\ ~starved =>
           \/ file'.kind = "torn"
           \/ \A k \in Keys : file.value[k] # Absent => file'.value[k] = file.value[k])
  <2> SUFFICES ASSUME IInv, [Next]_vars, phase = "save", file.kind = "whole", ~starved,
                      file' # file, file'.kind # "torn",
                      NEW k \in Keys, file.value[k] # Absent
               PROVE  file'.value[k] = file.value[k]
    OBVIOUS
  <2>1. DumpClose  BY FileChanges
  <2>2. file' = [kind |-> "whole", value |-> json.value]  BY <2>1 DEF DumpClose, Closed
  <2> QED  BY <2>2 DEF IInv, Loaded, Keeps
<1> QED  BY <1>1, Inductive, PTL DEF Spec, StartKeepsValues
================================================================================
