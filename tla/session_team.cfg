CONSTANTS
  MaxPlayers = 3
  GameConfigs <- PackConfigs
  MaxSubscriptions = 3
  Lines <- NoLines
  RxBound = 1
  MaxArrivals = 3
  Resets = FALSE
  SlowPeers = FALSE
  MailBound = 1
  ReadMax = 8
  Colour = 1
SPECIFICATION SessionSpec
CHECK_DEADLOCK FALSE
INVARIANT TeamNotLost
