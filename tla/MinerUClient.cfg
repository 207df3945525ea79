SPECIFICATION Spec
CONSTANTS
  None = None
  MaxRetries = 5
  Batches <- MCBatches
INVARIANT PaidTwiceOnlyUnknowing
PROPERTIES CallEnds ImplementsCall
CHECK_DEADLOCK FALSE
