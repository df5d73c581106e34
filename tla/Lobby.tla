-------------------------------- MODULE Lobby --------------------------------
(***************************************************************************)
(* The lobbies of the server: src/lobby/Lobby.cpp, LobbyManager.cpp, and   *)
(* what a login and the end of a connection do to them.                    *)
(*                                                                         *)
(* All handlers run on the only thread of the io_context, so one call is   *)
(* one action.  handlePlayerDisconnect and handlePlayerReconnect lock the  *)
(* mutex of the manager and call broadcastToLobby, which locks it again.   *)
(* A std::mutex does not let its owner in: the thread waits for itself,    *)
(* `hung' is TRUE, and no handler runs any more.  The thread of the grace  *)
(* period is created after that call and hence never is.                   *)
(*                                                                         *)
(* Left out: privacy and listing, the history of a chat nobody calls, the  *)
(* text of packets, and which connection is filed for a player.            *)
(***************************************************************************)
EXTENDS Integers, SequencesExt, FiniteSets

CONSTANTS
  Players,      \* the accounts
  LobbyIds,     \* the ids generateLobbyId can draw
  Capacities,   \* the values of "max_capacity" clients send
  NoLobby       \* "no entry": a missing key, an update never sent

Record == [ownerId : Players, maxPlayers : Capacities, players : Seq(Players),
           ready : SUBSET Players, connected : SUBSET Players]

ASSUME CapacityAssumption == Capacities \subseteq Int
ASSUME NoLobbyAssumption  == NoLobby \notin Record

VARIABLES
  lobbies,            \* lobbies_: the Lobby behind each id, NoLobby if none
  playerConnections,  \* the players playerConnections_ has an entry for
  logged,             \* the players some connection that is read is logged in as
  view,               \* the last LOBBY_STATE_UPDATE of a lobby each player
                      \* was sent, kept while the player is in the lobby
  match,              \* the MATCH_FOUND_EVENT the last step sent, if any
  deserted,           \* lobbies whose last player was kicked (history)
  hung                \* TRUE once the I/O thread waits for its own mutex

vars == <<lobbies, playerConnections, logged, view, match, deserted, hung>>

Open == {id \in LobbyIds : lobbies[id] # NoLobby}

Present(lobby) == Range(lobby.players)

LobbiesOf(p) == {id \in Open : p \in Present(lobbies[id])}

Event == [id : LobbyIds \cup {NoLobby}, players : Seq(Players), to : SUBSET Players]

NoMatch == [id |-> NoLobby, players |-> << >>, to |-> {}]

Init ==
  /\ lobbies = [id \in LobbyIds |-> NoLobby]
  /\ playerConnections = {}
  /\ logged = {}
  /\ view = [id \in LobbyIds |-> [p \in Players |-> NoLobby]]
  /\ match = NoMatch
  /\ deserted = {}
  /\ hung = FALSE

-----------------------------------------------------------------------------
(* class Lobby.                                                            *)

NewLobby(p, capacity) ==
  [ownerId |-> p, maxPlayers |-> capacity, players |-> <<p>>,
   ready |-> {}, connected |-> {p}]

\* Faulty: one too many.
FullLate(lobby) == lobby.maxPlayers >= 0 /\ Len(lobby.players) > lobby.maxPlayers

\* size_t >= int: a negative capacity is converted to a huge one.
Full(lobby) == lobby.maxPlayers >= 0 /\ Len(lobby.players) >= lobby.maxPlayers

\* addPlayer, for a player it lets in.
With(lobby, p) ==
  [lobby EXCEPT !.players = Append(@, p), !.connected = @ \cup {p}]

\* Faulty: the owner stays the owner.
RemovedOwnerStays(lobby, p) ==
  [lobby EXCEPT !.players = RemoveFirst(@, p), !.ready = @ \ {p}, !.connected = @ \ {p}]

\* Faulty: the owner is reset.
RemovedOwnerReset(lobby, p) ==
  [lobby EXCEPT !.players = RemoveFirst(@, p), !.ready = @ \ {p}, !.connected = @ \ {p},
                !.ownerId = IF @ = p THEN NoLobby ELSE @]

\* removePlayer: an owner who goes is succeeded by the first player left.
Removed(lobby, p) ==
  LET rest == RemoveFirst(lobby.players, p)
  IN  [lobby EXCEPT !.players = rest,
                    !.ready = @ \ {p},
                    !.connected = @ \ {p},
                    !.ownerId = IF p = @ /\ p \in Present(lobby) /\ rest # << >>
                                THEN rest[1] ELSE @]

\* setPlayerReady
WithReadiness(lobby, p, isReady) ==
  [lobby EXCEPT !.ready = IF isReady THEN @ \cup ({p} \cap Present(lobby)) ELSE @ \ {p}]

\* Faulty: the sender's readiness is enough.
StartsEarly(lobby) == lobby.ready # {} /\ Len(lobby.players) >= 2

\* isEveryoneReady, and two players at least.
Starts(lobby) ==
  /\ Present(lobby) \subseteq lobby.ready \cap lobby.connected
  /\ Len(lobby.players) >= 2

-----------------------------------------------------------------------------
(* class LobbyManager.                                                     *)

\* Faulty: the update goes to the old players.
SeenByOld(id, lobby, registered) ==
  [p \in Players |-> IF lobbies[id] # NoLobby /\ p \in Present(lobbies[id]) \cap registered
                     THEN lobby ELSE NoLobby]

\* What the players of the lobby have seen of it after broadcastToLobby.
Seen(id, lobby, registered) ==
  [p \in Players |-> IF p \notin Present(lobby) THEN NoLobby
                     ELSE IF p \in registered THEN lobby ELSE view[id][p]]

\* A handler of a packet of p ends with `lobby' filed under id, and sent.
Publish(p, id, lobby) ==
  /\ lobbies' = [lobbies EXCEPT ![id] = lobby]
  /\ playerConnections' = playerConnections \cup {p}
  /\ view' = [view EXCEPT ![id] = Seen(id, lobby, playerConnections')]
  /\ UNCHANGED <<logged, hung>>

\* The drawn id is not compared with those in use.
CreateLobby(p, id, capacity) ==
  /\ ~hung /\ p \in logged
  /\ Publish(p, id, NewLobby(p, capacity))
  /\ deserted' = deserted \ {id}
  /\ match' = NoMatch

JoinLobby(p, id) ==
  /\ ~hung /\ p \in logged
  /\ lobbies[id] # NoLobby
  /\ ~Full(lobbies[id])
  /\ p \notin Present(lobbies[id])
  /\ Publish(p, id, With(lobbies[id], p))
  /\ match' = NoMatch
  /\ UNCHANGED deserted

\* A list request, or any request the manager refuses or ignores, refreshes
\* the connection of its sender and nothing else.
OtherRequest(p) ==
  /\ ~hung /\ p \in logged
  /\ playerConnections' = playerConnections \cup {p}
  /\ match' = NoMatch
  /\ UNCHANGED <<lobbies, logged, view, deserted, hung>>

\* The last player to leave takes the lobby along.
LeaveLobby(p, id) ==
  LET rest == Removed(lobbies[id], p)
      last == p \in Present(lobbies[id]) /\ rest.players = << >>
  IN  /\ ~hung /\ p \in logged
      /\ lobbies[id] # NoLobby
      /\ IF last
         THEN /\ lobbies' = [lobbies EXCEPT ![id] = NoLobby]
              /\ view' = [view EXCEPT ![id] = [q \in Players |-> NoLobby]]
              /\ playerConnections' = playerConnections \cup {p}
              /\ deserted' = deserted \ {id}
              /\ UNCHANGED <<logged, hung>>
         ELSE /\ Publish(p, id, rest)
              /\ UNCHANGED deserted
      /\ match' = NoMatch

\* Anybody may send this for any lobby; only a player's own readiness is
\* changed by it, but the start is evaluated again in any case.
PlayerReady(p, id, isReady) ==
  LET lobby == WithReadiness(lobbies[id], p, isReady)
  IN  /\ ~hung /\ p \in logged
      /\ lobbies[id] # NoLobby
      /\ Publish(p, id, lobby)
      /\ match' = IF Starts(lobby)
                  THEN [id |-> id, players |-> lobby.players,
                        to |-> Present(lobby) \cap playerConnections']
                  ELSE NoMatch
      /\ UNCHANGED deserted

\* The owner may kick itself, and then leaves the lobby behind, maybe empty.
KickPlayer(p, id, target) ==
  LET rest == Removed(lobbies[id], target)
  IN  /\ ~hung /\ p \in logged
      /\ lobbies[id] # NoLobby
      /\ lobbies[id].ownerId = p
      /\ target \in Present(lobbies[id])
      /\ Publish(p, id, rest)
      /\ deserted' = IF rest.players = << >> THEN deserted \cup {id} ELSE deserted
      /\ match' = NoMatch

-----------------------------------------------------------------------------
(* Connections.                                                            *)

\* The loop over lobbies_ gets to one that p is in, marks p there, and the
\* broadcast locks the mutex its caller holds.  Of several lobbies, either
\* may come first.
Relock(p, isConnected, seen) ==
  \E id \in LobbiesOf(p) :
    LET lobby == [lobbies[id] EXCEPT !.connected = IF isConnected THEN @ \cup {p} ELSE @ \ {p}]
    IN  /\ lobbies' = [lobbies EXCEPT ![id] = lobby]
        /\ view' = IF seen THEN [view EXCEPT ![id][p] = lobby] ELSE view
        /\ hung' = TRUE

\* A login of p, on a new connection or on one that was logged in as others.
PlayerReconnect(p, former) ==
  /\ ~hung
  /\ former \subseteq logged /\ Cardinality(former) <= 1
  /\ logged' = (logged \ former) \cup {p}
  /\ playerConnections' = playerConnections \cup {p}
  /\ IF LobbiesOf(p) = {}
     THEN UNCHANGED <<lobbies, view, hung>>
     ELSE Relock(p, TRUE, TRUE)
  /\ match' = NoMatch
  /\ UNCHANGED deserted

\* A read or a write failed on a connection of p.  `goesOn' says that p stays
\* logged, on the same connection until the end of its reads, or on another;
\* the handler may also run late, for a player who is no longer logged.
PlayerDisconnect(p, goesOn) ==
  /\ ~hung
  /\ goesOn => p \in logged
  /\ logged' = IF goesOn THEN logged ELSE logged \ {p}
  /\ playerConnections' = playerConnections \ {p}
  /\ IF LobbiesOf(p) = {}
     THEN UNCHANGED <<lobbies, view, hung>>
     ELSE Relock(p, FALSE, FALSE)
  /\ match' = NoMatch
  /\ UNCHANGED deserted

handlePacket(p) ==
  \/ OtherRequest(p)
  \/ \E id \in LobbyIds :
       \/ \E capacity \in Capacities : CreateLobby(p, id, capacity)
       \/ JoinLobby(p, id)
       \/ LeaveLobby(p, id)
       \/ \E isReady \in BOOLEAN : PlayerReady(p, id, isReady)
       \/ \E target \in Players : KickPlayer(p, id, target)

Next ==
  \E p \in Players :
    \/ handlePacket(p)
    \/ \E former \in SUBSET logged : PlayerReconnect(p, former)
    \/ \E goesOn \in BOOLEAN : PlayerDisconnect(p, goesOn)

Spec == Init /\ [][Next]_vars

-----------------------------------------------------------------------------
(* Properties.                                                             *)

\* The variables keep their types.
TypeOK ==
  /\ lobbies \in [LobbyIds -> Record \cup {NoLobby}]
  /\ playerConnections \subseteq Players
  /\ logged \subseteq Players
  /\ view \in [LobbyIds -> [Players -> Record \cup {NoLobby}]]
  /\ match \in Event
  /\ deserted \subseteq LobbyIds
  /\ hung \in BOOLEAN

\* In whatever order players come, go, are kicked and succeed each other:
\* nobody is in a lobby twice or ready without being in it, and a lobby
\* holds no more players than asked for, which a negative number does not
\* limit and zero limits to the owner.
Sound(lobby) ==
  /\ IsInjective(lobby.players)
  /\ lobby.ready \cup lobby.connected \subseteq Present(lobby)
  /\ lobby.maxPlayers > 0 => Len(lobby.players) <= lobby.maxPlayers
  /\ lobby.maxPlayers = 0 => Len(lobby.players) <= 1

LobbySound == \A id \in Open : Sound(lobbies[id])

\* The host ("ownerId") is the player who has been in the lobby longest, and
\* no lobby is left empty: but for lobbies whose last player kicked itself,
\* which are kept, with a host who is no longer in them.
Led(lobby) == lobby.players # << >> /\ lobby.ownerId = lobby.players[1]

Hosted == \A id \in Open \ deserted : Led(lobbies[id])

\* The manager's own table of connections keeps up with the lobbies although
\* it is filled and erased elsewhere: broadcasts leave no player out, which is
\* what ViewInSync rests on.
Reachable == ~hung => \A id \in Open : Present(lobbies[id]) \subseteq playerConnections

\* The last state every player was sent of its lobby is the present one.
ViewInSync ==
  ~hung => \A id \in Open : \A p \in Present(lobbies[id]) : view[id][p] = lobbies[id]

\* A match that starts is announced to all its players, two at least, each
\* of whom was shown before that all of them are ready and connected.
MatchSound ==
  match # NoMatch =>
    /\ Len(match.players) >= 2
    /\ Range(match.players) = match.to
    /\ \A p \in match.to :
         LET seen == view[match.id][p]
         IN  /\ seen # NoLobby
             /\ seen.players = match.players
             /\ match.to \subseteq seen.ready \cap seen.connected

\* "If you reconnect in time, the server slides you right back into the
\* lobby": a player whom a lobby shows as disconnected can still log in.
Recoverable ==
  \A id \in Open : \A p \in Present(lobbies[id]) :
    p \notin lobbies[id].connected => ENABLED PlayerReconnect(p, {})

=============================================================================
