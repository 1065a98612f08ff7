SPECIFICATION AppFairSpec
CONSTANTS
  Addrs <- Usb42
  Near <- Usb42
  Locs = {}
  FdLimit = 4
  MaxNl = 1
  MaxEvents = 0
  MaxReplies = 1
  MaxFails = 0
  MaxMoves = 1
  phone = phone
  other = other
  Devices = {phone, other}
  Phones = {phone}
  Ids <- TwoOfAKind
  NoDevice = NoDevice
  MaxPlugs = 1
  Net <- Tethered
INVARIANT NoDeviceForgotten
PROPERTY PluggedPhoneSearched
CHECK_DEADLOCK FALSE
