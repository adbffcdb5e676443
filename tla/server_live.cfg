CONSTANTS
  MaxPlayers = 3
  GameConfigs <- PackConfigs
  MaxSubscriptions = 3
  Lines <- NoLines
  RxBound = 1
  MaxArrivals = 4
  Resets = TRUE
  SlowPeers = TRUE
SPECIFICATION FairSpec
CHECK_DEADLOCK FALSE
PROPERTIES EndedAreClosed ArrivalsAnswered RolesTold
