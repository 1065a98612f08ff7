SPECIFICATION FairSpec
CONSTANTS
  p1 = p1
  p2 = p2
  a1 = a1
  a2 = a2
  b1 = b1
  Listing <- TwoPhones
  Test = Test
  Started = Started
  NULL = NULL
  MaxClicks = 4
CHECK_DEADLOCK FALSE
INVARIANTS ServersTracked NoDangling LaunchKnown QuietRows
PROPERTIES RequestsHandled CloseEnds
