SPECIFICATION Spec
CONSTANTS
  Addrs <- Phones
  Near <- Usb42
  Locs <- OneUrl
  FdLimit = 4
  MaxNl = 1
  MaxEvents = 0
  MaxReplies = 3
  MaxFails = 0
  MaxMoves = 3
PROPERTY AppListHasLocation
CHECK_DEADLOCK FALSE
