CONSTANTS
  MaxPlayers = 3
  GameConfigs <- PackConfigs
  MaxSubscriptions = 3
  Lines <- TalkOnly
  RxBound = 1
  MaxArrivals = 3
  Resets = FALSE
  SlowPeers = FALSE
SPECIFICATION Spec
CHECK_DEADLOCK FALSE
INVARIANT WolvesHearWolves
