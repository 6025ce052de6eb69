SPECIFICATION Spec
CONSTANTS
  Paths = {p1}
  NoPath = NoPath
  Payloads <- MCPayloads
  NoPayload = "none"
  MaxFaults = 0
  OffsetSamples = 100
  PreBufferSize = 100
  MaxSamples = 101
  MaxRefusals = 0
INVARIANT PreBufferInBounds
CHECK_DEADLOCK FALSE
