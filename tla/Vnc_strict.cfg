SPECIFICATION FairSpec
CONSTANTS
  Versions = {0, 7, 8}
  Sizes <- TallAndWide
  PayloadLens <- UpToOne
  ConfigLens <- Twelve
  MaxRects = 2
  MaxMsgs = 2
  MaxGarbled = 1
  ShortReads = FALSE
  Strict = TRUE
  BigEndian = FALSE
CHECK_DEADLOCK FALSE
INVARIANTS TypeOK InSync OneUpdateInFlight SizesAgree ByeIsResponse
PROPERTIES Configured ScreenKeepsFlowing
