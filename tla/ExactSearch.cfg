SPECIFICATION SearchSpec
CONSTANTS
  v1 = v1
  v2 = v2
  p = p
  q = q
  Versions = {v1, v2}
  None = None
  Requests = {r1}
  Ids = {p, q}
  Passages <- MCPassages
  Matches <- MCMatches
  PageSize = 1
  Configured = None
INVARIANTS QuotationsMatch UndisturbedIsTrue ReportIsTrue
PROPERTIES RefusedForReason PublishesAsAlone OnlyReplaceUnpublishes RetryHeals
CHECK_DEADLOCK FALSE
