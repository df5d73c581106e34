\* Lobbies of one, two or any number of players; ids collide, connections overlap.
CONSTANTS
  Players = {ann, bob, cat}
  LobbyIds = {X, Y}
  Capacities <- AnyCapacity
  NoLobby = NoLobby
SYMMETRY FullSymmetry
SPECIFICATION Spec
INVARIANTS TypeOK LobbySound Hosted ViewInSync MatchSound
CHECK_DEADLOCK FALSE
