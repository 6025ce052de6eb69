SPECIFICATION FairSpec
CONSTANTS
  Paths = {p1}
  NoPath = NoPath
  Payloads <- MCPayloads
  NoPayload = "none"
  MaxFaults = 1
  OffsetSamples = 1
  PreBufferSize = 4
  MaxSamples = 7
  MaxRefusals = 1
CONSTRAINT OneFailure
INVARIANTS TypeOK HeaderFirst EventsInOrder ClosedLogComplete
PROPERTIES ClosedLogFinal TouchdownCloses
CHECK_DEADLOCK FALSE
