CONSTANTS
  MaxPlayers = 2
  GameConfigs <- PackConfigs
  MaxSubscriptions = 2
  Lines <- WhisperOnly
  RxBound = 1
  MaxArrivals = 2
  Resets = FALSE
  SlowPeers = FALSE
SPECIFICATION Spec
CHECK_DEADLOCK FALSE
INVARIANT NoSigpipe
