SPECIFICATION Spec
CONSTANTS
  TAS = TAS
  other = other
  Words = {TAS, other}
  None = None
  MaxLines = 3
  MaxReplies = 2
CHECK_DEADLOCK FALSE
INVARIANT ReportsMatch
