SPECIFICATION Spec
CONSTANTS
  Chunks = {k1, k2}
  Executions = 2
  MaxAttempts = 2
  MaxRetries = 1
  Policy = "blocking_retry"
  MaxCalls = 3
  MaxFaults = 1
SYMMETRY ChunkSymmetry
INVARIANTS TypeOK CallsBounded
PROPERTY RejectedStaysOut
CHECK_DEADLOCK FALSE
