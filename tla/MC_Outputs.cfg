SPECIFICATION FairSpec
CONSTANTS
  NUM_PYROS = 2
  Work <- WorkDef
  NUM_SERVOS = 1
  Angles <- AnglesDef
  Colours <- ColoursDef
INVARIANTS TypeOK SwitchOffPending BeepLockOwned SilentWhenFree ServoPulseInRange
PROPERTIES PyroGoesOff
CHECK_DEADLOCK FALSE
