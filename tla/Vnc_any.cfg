SPECIFICATION Spec
CONSTANTS
  Versions = {0, 8}
  Sizes <- OneColumn
  PayloadLens <- Empty
  ConfigLens <- Overlong
  MaxRects = 2
  MaxMsgs = 1
  MaxGarbled = 1
  ShortReads = TRUE
  Strict = FALSE
  BigEndian = TRUE
CHECK_DEADLOCK FALSE
INVARIANTS OrderedOutput RequestsFit 
VIEW ClientOnly
