\* Two volumes, two assemblies and any ingests of them.
CONSTANTS
  None = None
  Volumes = {1, 2}
  Contents <- MCContents
  RepeatMin = 2
  MaxAttempts = 2
SPECIFICATION Spec
INVARIANTS
  DatabaseReadsAsMerged
  CitationsFindPages
  IdsAreStable
  SnapshotsIngest
