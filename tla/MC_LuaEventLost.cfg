SPECIFICATION FairSpec
CONSTANTS
  Events = {"boot", "liftoff"}
  TimerCount = 2
  RefCount = 1
  Numbers <- NumbersDef
  HeapBlocks = 4
  MaxCallbacks = 1
  MaxFires = 1
PROPERTIES EventExecuted
CHECK_DEADLOCK FALSE
