\* One volume in three versions, two runs: split, upload, merge.
CONSTANTS
  None = None
  LastPage = 3
  Total <- MCTotal
  Bytes <- MCBytes
  MaxBytes = 10
  MaxPages = 3
  PilotStart = 2
  PilotCount = 1
  MaxRuns = 2
  Archive <- MCArchive
  Blank <- MCBlank
  Unindexed <- MCUnindexed
  MINERU_MAX_PAGES = 3
SPECIFICATION MergeSpec
INVARIANTS MergedTextIsTrue ChosenMergeIsWhole GapsAreMarked
PROPERTY SplitIsPartition
