------------------------------- MODULE MCLobby -------------------------------
(* Instances of Lobby for TLC.                                             *)
EXTENDS Lobby

FullSymmetry == Permutations(Players) \cup Permutations(LobbyIds)

AnyCapacity == {-1, 0, 2}

Pair == {2}
=============================================================================
