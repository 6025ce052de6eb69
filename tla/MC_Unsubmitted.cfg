SPECIFICATION Spec
CONSTANTS
  Paths = {p1}
  NoPath = NoPath
  Payloads <- MCPayloads
  NoPayload = "none"
  MaxFaults = 0
  OffsetSamples = 2
  PreBufferSize = 4
  MaxSamples = 5
  MaxRefusals = 1
INVARIANT UnsubmittedReleased
CHECK_DEADLOCK FALSE
