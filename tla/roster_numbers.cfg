CONSTANTS
  MaxPlayers = 3
  GameConfigs <- ScaledConfigs
  Sockets <- Descriptors
  LobbyLeaves = 3
SPECIFICATION BoundedSpec
INVARIANT PlayerNumbersUnique
CHECK_DEADLOCK FALSE
