SPECIFICATION Spec
CONSTANTS
  None = None
  Ids <- MCIds
  Date <- MCDate
  RankConstant = 60
  MaxHits = 2
  Requests <- MCRequests
  SupportLabels <- MCSupportLabels
  Clusterings <- MCClusterings
  FusionTopK = 3
  RerankTopK = 1
  FinalTopK = 2
  MinClusterInput = 2
  MaxJudged = 2
  MaxClosed = 1
INVARIANTS EachOnce ShortPageIsExplained FailedChannelIsTold ClaimPageIsStrongest TimelinePageIsEarliest BetterInBothComesFirst
