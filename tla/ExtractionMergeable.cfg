SPECIFICATION Spec
CONSTANTS
  c1 = c1
  c2 = c2
  p1 = p1
  r1 = r1
  r2 = r2
  Chunks <- PoolChunks
  ChunksOf <- PoolChunksOf
  RunIds <- PoolRunIds
  Concurrency = 2
  MaxUploads = 1
  None = None
INVARIANT CompletedRunIsMergeable
CHECK_DEADLOCK FALSE
