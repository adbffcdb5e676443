CONSTANTS
  MaxPlayers = 2
  GameConfigs <- PackConfigs
  MaxSubscriptions = 2
  Lines <- NoLines
  RxBound = 1
  MaxArrivals = 3
  Resets = TRUE
  SlowPeers = FALSE
SPECIFICATION Spec
CHECK_DEADLOCK FALSE
INVARIANT ListPointerValid
