SPECIFICATION HSpec
CONSTANTS
  OffsetSamples = 3
  TimeSteps = {10, 40, 480}
  Accs <- MCAccs
  Vels <- MCVels
  Heights <- MCHeights
  MaxIgnitions = 3
INVARIANTS TypeOK MissionOrder CountersAgree
PROPERTIES MissionEventsRefined LiftoffHeld ReignitionHeld TouchdownHeld
CHECK_DEADLOCK FALSE
VIEW RelativeTime
