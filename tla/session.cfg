CONSTANTS
  MaxPlayers = 2
  GameConfigs <- PackConfigs
  MaxSubscriptions = 2
  Lines <- SomeLines
  RxBound = 2
  MaxArrivals = 2
  Resets = FALSE
  SlowPeers = FALSE
  MailBound = 1
  ReadMax = 4
  Colour = 1
SPECIFICATION SessionSpec
CHECK_DEADLOCK FALSE
PROPERTIES RoleKept TextConfined
