CONSTANTS
  MaxPlayers = 3
  GameConfigs <- PackConfigs
  MaxSubscriptions = 3
  Lines <- TalkOnly
  RxBound = 1
  MaxArrivals = 4
  Resets = TRUE
  SlowPeers = FALSE
SPECIFICATION Spec
CHECK_DEADLOCK FALSE
INVARIANTS TypeOK RegistriesAgree SubscriptionsServed
PROPERTIES NoLiveClientDropped ImplementsRoster
