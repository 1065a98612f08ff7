SPECIFICATION FairSpec
CONSTANTS
  Addrs <- Phones
  Near <- Usb42
  Locs <- OneUrl
  FdLimit = 4
  MaxNl = 1
  MaxEvents = 2
  MaxReplies = 2
  MaxFails = 1
  MaxMoves = 3
INVARIANTS ClientsAreSockets WalkIsLive LocationsGenuine NearSearched
PROPERTIES NewAddressSearched 
CHECK_DEADLOCK FALSE
