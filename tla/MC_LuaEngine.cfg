SPECIFICATION FairSpec
CONSTANTS
  Events = {"liftoff"}
  TimerCount = 2
  RefCount = 1
  Numbers <- NumbersDef
  HeapBlocks = 6
  MaxCallbacks = 2
  MaxFires = 2
INVARIANTS TypeOK HeapConserved
PROPERTIES  CallsServed
CHECK_DEADLOCK FALSE
