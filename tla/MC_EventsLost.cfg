SPECIFICATION Spec
CONSTANTS
  Paths = {p1}
  NoPath = NoPath
  Payloads <- MCPayloads
  NoPayload = "none"
  MaxFaults = 0
  OffsetSamples = 1
  PreBufferSize = 4
  MaxSamples = 8
  MaxRefusals = 0
INVARIANT EveryEventLogged
CHECK_DEADLOCK FALSE
