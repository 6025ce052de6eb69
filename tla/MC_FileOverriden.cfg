SPECIFICATION Spec
CONSTANTS
  Paths = {p1}
  NoPath = NoPath
  Payloads <- MCPayloads
  NoPayload = 0
  MaxFaults = 0
  Blocks = {b1, b2, b3}
  NULL = NULL
  MaxCalls = 5
  MaxLosses = 0
INVARIANT FileOverriden
CHECK_DEADLOCK FALSE
