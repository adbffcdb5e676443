CONSTANTS
  MaxPlayers = 3
  GameConfigs <- ScaledConfigs
  Sockets <- Descriptors
  LobbyLeaves = 3
SPECIFICATION BoundedSpec
INVARIANTS TypeOK SocketsDistinct CountsAgree PhaseCoherent RoleAccounting
PROPERTIES  ImplementsLobby
CHECK_DEADLOCK FALSE
