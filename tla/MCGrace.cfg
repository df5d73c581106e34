\* One lobby and a connection that ends.
CONSTANTS
  Players = {ann, bob}
  LobbyIds = {X}
  Capacities <- Pair
  NoLobby = NoLobby
SPECIFICATION Spec
INVARIANT Recoverable
CHECK_DEADLOCK FALSE
