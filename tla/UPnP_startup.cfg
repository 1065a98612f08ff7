SPECIFICATION Spec
CONSTANTS
  Addrs <- Phones
  Near <- Usb42
  Locs <- OneUrl
  FdLimit = 4
  MaxNl = 1
  MaxEvents = 0
  MaxReplies = 1
  MaxFails = 0
  MaxMoves = 1
INVARIANT AlreadyStarted
CHECK_DEADLOCK FALSE
