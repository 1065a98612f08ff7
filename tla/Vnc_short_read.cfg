SPECIFICATION Spec
CONSTANTS
  Versions = {0, 7, 8}
  Sizes <- OneColumn
  PayloadLens <- Empty
  ConfigLens <- Empty
  MaxRects = 1
  MaxMsgs = 1
  MaxGarbled = 0
  ShortReads = TRUE
  Strict = TRUE
  BigEndian = FALSE
CHECK_DEADLOCK FALSE
INVARIANT ByeIsResponse
