SPECIFICATION Spec
CONSTANTS
  c1 = c1
  c2 = c2
  p1 = p1
  r1 = r1
  r2 = r2
  Chunks <- RunsChunks
  ChunksOf <- RunsChunksOf
  RunIds <- RunsRunIds
  Concurrency = 2
  MaxUploads = 2
  None = None
SYMMETRY RunsSymmetry
INVARIANTS CompletedIsStored RefusedIsNotPolled
PROPERTY StoredIsNotUploaded
CHECK_DEADLOCK FALSE
