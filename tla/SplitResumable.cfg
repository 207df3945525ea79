\* One volume in three versions, two runs: split and upload.
CONSTANTS
  None = None
  LastPage = 3
  Total <- MCTotal
  Bytes <- MCBytes
  MaxBytes = 10
  MaxPages = 3
  PilotStart = 2
  PilotCount = 1
  MaxRuns = 2
SPECIFICATION SplitSpec
INVARIANT ResumableHasFiles
