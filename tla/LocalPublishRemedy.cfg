SPECIFICATION Spec
CONSTANTS
  v1 = v1
  v2 = v2
  Versions = {v1}
  None = None
INVARIANT ReplaceIsRemedy
CHECK_DEADLOCK FALSE
