SPECIFICATION FairSpec
CONSTANTS
  Paths = {p1}
  NoPath = NoPath
  Payloads <- MCPayloads
  NoPayload = 0
  MaxFaults = 1
  Blocks = {b1, b2, b3}
  NULL = NULL
  MaxCalls = 4
  MaxLosses = 1
INVARIANTS TypeOK OneOwner WholeChunks MetadataDurable
PROPERTIES LogServiceRefined HeapDrains
CHECK_DEADLOCK FALSE
