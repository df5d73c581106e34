---------------------------- MODULE Lobby_proofs -----------------------------
(* Proofs about Lobby.                                                     *)
EXTENDS Lobby, MemberLists, TLAPS

-----------------------------------------------------------------------------
(* The operations of class Lobby.                                          *)

\* Capacities can be compared with lengths.
LEMMA CapacityIsInt ==
  ASSUME NEW lobby \in Record PROVE lobby.maxPlayers \in Int
<1>1. lobby.maxPlayers \in Capacities
  BY DEF Record
<1> QED BY <1>1, CapacityAssumption

\* A new lobby holds its owner alone, connected and not ready.
LEMMA NewLobbyProperties ==
  ASSUME NEW p \in Players, NEW capacity \in Capacities
  PROVE  LET lobby == NewLobby(p, capacity)
         IN  lobby \in Record /\ Sound(lobby) /\ Led(lobby) /\ Present(lobby) = {p}
<1> DEFINE one   == <<p>>
           lobby == NewLobby(p, capacity)
<1>1. one \in Seq(Players) /\ Len(one) = 1 /\ DOMAIN one = {1} /\ one[1] = p
  OBVIOUS
<1>2. /\ lobby.players = one /\ lobby.ownerId = p
      /\ lobby.ready = {} /\ lobby.connected = {p}
      /\ lobby.maxPlayers = capacity
      /\ lobby \in Record
  BY <1>1 DEF NewLobby, Record
<1> HIDE DEF one, lobby
<1>0. capacity \in Int
  BY CapacityAssumption
<1>3. Range(one) = {p} /\ IsInjective(one)
  BY <1>1 DEF Range, IsInjective
<1>4. Sound(lobby)
  BY <1>0, <1>1, <1>2, <1>3 DEF Sound, Present
<1>5. Led(lobby)
  BY <1>1, <1>2 DEF Led
<1> QED BY <1>2, <1>3, <1>4, <1>5 DEF Present, lobby

\* A player who joins comes last, and the lobby stays sound and led.
LEMMA WithProperties ==
  ASSUME NEW lobby \in Record, Sound(lobby), ~Full(lobby),
         NEW p \in Players, p \notin Present(lobby)
  PROVE  LET more == With(lobby, p)
         IN  /\ more \in Record
             /\ Sound(more)
             /\ Present(more) = Present(lobby) \cup {p}
             /\ Led(lobby) => Led(more)
<1> DEFINE t    == Append(lobby.players, p)
           more == With(lobby, p)
<1>1. lobby.players \in Seq(Players) /\ IsInjective(lobby.players)
  BY DEF Record, Sound
<1>2. /\ t \in Seq(Players) /\ IsInjective(t)
      /\ Range(t) = Range(lobby.players) \cup {p}
      /\ Len(t) = Len(lobby.players) + 1
      /\ lobby.players # << >> => t[1] = lobby.players[1]
  BY <1>1, AppendNew DEF Present
<1>3. t # << >>
  BY <1>1, <1>2
<1> HIDE DEF t
<1>4. /\ more \in Record
      /\ more.players = t
      /\ more.ownerId = lobby.ownerId
      /\ more.ready = lobby.ready
      /\ more.connected = lobby.connected \cup {p}
      /\ more.maxPlayers = lobby.maxPlayers
  BY <1>2 DEF With, Record, t
<1> HIDE DEF more
<1>5. lobby.maxPlayers \in Int /\ Len(lobby.players) \in Nat
  BY <1>1, CapacityIsInt
<1>6. Sound(more)
  BY <1>2, <1>4, <1>5 DEF Sound, Full, Present
<1>7. Led(lobby) => Led(more)
  BY <1>2, <1>3, <1>4 DEF Led
<1> QED BY <1>2, <1>4, <1>6, <1>7 DEF Present, more

\* removePlayer: the rest keeps its order, and a host who goes is succeeded
\* by the one who has been there longest.
LEMMA RemovedProperties ==
  ASSUME NEW lobby \in Record, Sound(lobby), NEW p \in Players
  PROVE  LET rest == Removed(lobby, p)
         IN  /\ rest \in Record
             /\ Sound(rest)
             /\ Present(rest) = Present(lobby) \ {p}
             /\ Led(lobby) /\ rest.players # << >> => Led(rest)
             /\ Led(lobby) /\ p \notin Present(lobby) => rest.players # << >>
<1> DEFINE t    == RemoveFirst(lobby.players, p)
           rest == Removed(lobby, p)
           heir == IF p = lobby.ownerId /\ p \in Present(lobby) /\ t # << >>
                   THEN t[1] ELSE lobby.ownerId
<1>1. lobby.players \in Seq(Players) /\ IsInjective(lobby.players)
  BY DEF Record, Sound
<1>2. /\ t \in Seq(Players) /\ IsInjective(t)
      /\ Range(t) = Range(lobby.players) \ {p}
      /\ Len(t) <= Len(lobby.players)
      /\ (lobby.players # << >> /\ lobby.players[1] # p) =>
            t # << >> /\ t[1] = lobby.players[1]
  BY <1>1, RemoveFirstProperties
<1>3. rest = [lobby EXCEPT !.players = t, !.ready = @ \ {p}, !.connected = @ \ {p},
                           !.ownerId = heir]
  BY DEF Removed
<1> HIDE DEF t, rest
<1>4. heir \in Players
  BY <1>2 DEF Record
<1> HIDE DEF heir
<1>5. /\ rest \in Record
      /\ rest.players = t
      /\ rest.ownerId = heir
      /\ rest.ready = lobby.ready \ {p}
      /\ rest.connected = lobby.connected \ {p}
      /\ rest.maxPlayers = lobby.maxPlayers
  BY <1>2, <1>3, <1>4 DEF Record
<1>6. lobby.maxPlayers \in Int /\ Len(lobby.players) \in Nat /\ Len(t) \in Nat
  BY <1>1, <1>2, CapacityIsInt
<1>7. Sound(rest)
  BY <1>2, <1>5, <1>6 DEF Sound, Present
<1>8. ASSUME Led(lobby)
      PROVE  lobby.players[1] = lobby.ownerId /\ lobby.players # << >>
                /\ lobby.players[1] \in Present(lobby)
  BY <1>1, <1>8 DEF Led, Present, Range
<1>9. ASSUME Led(lobby), rest.players # << >> PROVE Led(rest)
  BY <1>2, <1>5, <1>8, <1>9 DEF Led, heir
<1>10. ASSUME Led(lobby), p \notin Present(lobby) PROVE rest.players # << >>
  BY <1>2, <1>5, <1>8, <1>10
<1> QED BY <1>2, <1>5, <1>7, <1>9, <1>10 DEF Present, rest

\* Toggling readiness changes nothing else.
LEMMA ReadinessProperties ==
  ASSUME NEW lobby \in Record, Sound(lobby), NEW p \in Players, NEW isReady \in BOOLEAN
  PROVE  LET same == WithReadiness(lobby, p, isReady)
         IN  /\ same \in Record
             /\ Sound(same)
             /\ same.players = lobby.players
             /\ Led(lobby) => Led(same)
<1> DEFINE same == WithReadiness(lobby, p, isReady)
           r    == IF isReady THEN lobby.ready \cup ({p} \cap Present(lobby))
                              ELSE lobby.ready \ {p}
<1>1. r \subseteq Players /\ r \subseteq lobby.ready \cup Present(lobby)
  BY DEF Record
<1>2. same = [lobby EXCEPT !.ready = r]
  BY DEF WithReadiness
<1> HIDE DEF r, same
<1>3. /\ same \in Record
      /\ same.players = lobby.players /\ same.ownerId = lobby.ownerId
      /\ same.ready = r /\ same.connected = lobby.connected
      /\ same.maxPlayers = lobby.maxPlayers
  BY <1>1, <1>2 DEF Record
<1>4. Sound(same)
  BY <1>1, <1>3 DEF Sound, Present
<1>5. Led(lobby) => Led(same)
  BY <1>3 DEF Led
<1> QED BY <1>3, <1>4, <1>5 DEF same

-----------------------------------------------------------------------------
(* The inductive invariant: the properties themselves.                     *)

IInv == TypeOK /\ LobbySound /\ Hosted /\ Reachable /\ ViewInSync /\ MatchSound

EventSound == match \in Event /\ MatchSound

\* What a handler that ends with a broadcast leaves behind.
LEMMA PublishKeeps ==
  ASSUME IInv, ~hung,
         NEW p \in Players, NEW id \in LobbyIds,
         NEW lobby \in Record, Sound(lobby),
         Present(lobby) \subseteq playerConnections \cup {p},
         Publish(p, id, lobby),
         deserted' \subseteq LobbyIds, deserted \ {id} \subseteq deserted',
         id \in deserted' \/ Led(lobby)
  PROVE  /\ playerConnections' = playerConnections \cup {p}
         /\ \A q \in Present(lobby) : view'[id][q] = lobby
         /\ EventSound' => IInv'
<1> DEFINE seen == Seen(id, lobby, playerConnections')
<1>1. /\ lobbies' = [lobbies EXCEPT ![id] = lobby]
      /\ playerConnections' = playerConnections \cup {p}
      /\ view' = [view EXCEPT ![id] = seen]
      /\ UNCHANGED <<logged, hung>>
  BY DEF Publish
<1>2. /\ lobbies \in [LobbyIds -> Record \cup {NoLobby}]
      /\ view \in [LobbyIds -> [Players -> Record \cup {NoLobby}]]
  BY DEF IInv, TypeOK
<1>3. Present(lobby) \subseteq Players
  BY DEF Present, Range, Record
<1>4. /\ seen \in [Players -> Record \cup {NoLobby}]
      /\ \A q \in Present(lobby) : seen[q] = lobby
  BY <1>1, <1>2, <1>3 DEF Seen
<1> HIDE DEF seen
<1>5. /\ lobbies' \in [LobbyIds -> Record \cup {NoLobby}]
      /\ lobbies'[id] = lobby
      /\ \A i \in LobbyIds \ {id} : lobbies'[i] = lobbies[i]
  BY <1>1, <1>2
<1>6. /\ view' \in [LobbyIds -> [Players -> Record \cup {NoLobby}]]
      /\ view'[id] = seen
      /\ \A i \in LobbyIds \ {id} : view'[i] = view[i]
  BY <1>1, <1>2, <1>4
<1>7. \A i \in Open' \ {id} : i \in Open /\ lobbies'[i] = lobbies[i] /\ view'[i] = view[i]
  BY <1>5, <1>6 DEF Open
<1>8. LobbySound'
  <2> SUFFICES ASSUME NEW i \in Open' PROVE Sound(lobbies'[i])
    BY DEF LobbySound, Sound, Present
  <2> QED BY <1>5, <1>7 DEF IInv, LobbySound
<1>9. Reachable'
  <2> SUFFICES ASSUME NEW i \in Open' PROVE Present(lobbies'[i]) \subseteq playerConnections'
    BY DEF Reachable, Present
  <2> QED BY <1>1, <1>5, <1>7 DEF IInv, Reachable
<1>10. ViewInSync'
  <2> SUFFICES ASSUME NEW i \in Open', NEW q \in Present(lobbies'[i])
               PROVE  view'[i][q] = lobbies'[i]
    BY DEF ViewInSync, Present
  <2>1. CASE i = id
    BY <2>1, <1>4, <1>5, <1>6
  <2>2. CASE i # id
    BY <2>2, <1>7 DEF IInv, ViewInSync
  <2> QED BY <2>1, <2>2
<1>11. Hosted'
  <2> SUFFICES ASSUME NEW i \in Open', i \notin deserted' PROVE Led(lobbies'[i])
    BY DEF Hosted, Led
  <2>1. CASE i = id
    BY <2>1, <1>5
  <2>2. CASE i # id
    <3>1. i \in Open \ deserted /\ lobbies'[i] = lobbies[i]
      BY <2>2, <1>7
    <3> QED BY <3>1 DEF IInv, Hosted
  <2> QED BY <2>1, <2>2
<1>12. EventSound' => TypeOK'
  <2>1. playerConnections' \subseteq Players /\ logged' \subseteq Players /\ hung' \in BOOLEAN
    BY <1>1 DEF IInv, TypeOK
  <2> QED BY <2>1, <1>5, <1>6 DEF TypeOK, EventSound
<1> QED BY <1>1, <1>4, <1>6, <1>8, <1>9, <1>10, <1>11, <1>12 DEF IInv, EventSound

\* Most steps announce no match.
LEMMA NoMatchKeeps ==
  ASSUME match' = NoMatch PROVE EventSound'
  BY DEF NoMatch, MatchSound, Event, EventSound

\* The invariant holds of a manager without lobbies.
LEMMA InitIInv == Init => IInv
<1> SUFFICES ASSUME Init PROVE IInv
  OBVIOUS
<1>1. Open = {}
  BY DEF Init, Open
<1>2. LobbySound /\ Hosted /\ Reachable /\ ViewInSync
  BY <1>1 DEF LobbySound, Hosted, Reachable, ViewInSync
<1>3. MatchSound /\ match \in Event
  BY DEF Init, MatchSound, NoMatch, Event
<1>4. TypeOK
  BY <1>3 DEF Init, TypeOK
<1> QED BY <1>2, <1>3, <1>4 DEF IInv

-----------------------------------------------------------------------------
(* One lemma per handler.                                                  *)

\* A lobby on file is sound, led unless deserted, and its players reachable.
LEMMA OpenLobby ==
  ASSUME IInv, ~hung, NEW id \in LobbyIds, lobbies[id] # NoLobby
  PROVE  /\ lobbies[id] \in Record /\ Sound(lobbies[id])
         /\ id \in deserted \/ Led(lobbies[id])
         /\ Present(lobbies[id]) \subseteq playerConnections
         /\ deserted \subseteq LobbyIds
  BY DEF IInv, TypeOK, Open, LobbySound, Hosted, Reachable

\* The owner of a new lobby was in none, and is sent its state.
LEMMA CreateLobbyIInv ==
  ASSUME IInv, NEW p \in Players, NEW id \in LobbyIds, NEW capacity \in Capacities,
         CreateLobby(p, id, capacity)
  PROVE  IInv'
<1> DEFINE lobby == NewLobby(p, capacity)
<1>1. /\ ~hung /\ Publish(p, id, lobby)
      /\ deserted' = deserted \ {id} /\ match' = NoMatch
  BY DEF CreateLobby
<1>2. lobby \in Record /\ Sound(lobby) /\ Led(lobby) /\ Present(lobby) = {p}
  BY NewLobbyProperties
<1> HIDE DEF lobby
<1>3. deserted' \subseteq LobbyIds
  BY <1>1 DEF IInv, TypeOK
<1> QED BY <1>1, <1>2, <1>3, PublishKeeps, NoMatchKeeps

\* A player joins a lobby with room for it, from none.
LEMMA JoinLobbyIInv ==
  ASSUME IInv, NEW p \in Players, NEW id \in LobbyIds, JoinLobby(p, id)
  PROVE  IInv'
<1> DEFINE lobby == With(lobbies[id], p)
<1>1. /\ ~hung /\ lobbies[id] # NoLobby /\ ~Full(lobbies[id])
      /\ p \notin Present(lobbies[id])
      /\ Publish(p, id, lobby) /\ match' = NoMatch /\ deserted' = deserted
  BY DEF JoinLobby
<1>2. /\ lobbies[id] \in Record /\ Sound(lobbies[id])
      /\ id \in deserted \/ Led(lobbies[id])
      /\ Present(lobbies[id]) \subseteq playerConnections
      /\ deserted \subseteq LobbyIds
  BY <1>1, OpenLobby
<1>3. /\ lobby \in Record /\ Sound(lobby)
      /\ Present(lobby) = Present(lobbies[id]) \cup {p}
      /\ Led(lobbies[id]) => Led(lobby)
  BY <1>1, <1>2, WithProperties
<1> HIDE DEF lobby
<1> QED BY <1>1, <1>2, <1>3, PublishKeeps, NoMatchKeeps

\* Any other request only files the connection of its sender.
LEMMA OtherRequestIInv ==
  ASSUME IInv, NEW p \in Players, OtherRequest(p)
  PROVE  IInv'
<1>1. /\ playerConnections' = playerConnections \cup {p} /\ match' = NoMatch
      /\ UNCHANGED <<lobbies, logged, view, deserted, hung>>
  BY DEF OtherRequest
<1>2. EventSound'
  BY <1>1, NoMatchKeeps
<1>3. TypeOK'
  BY <1>1, <1>2 DEF IInv, TypeOK, EventSound
<1>4. LobbySound' /\ Hosted' /\ Reachable' /\ ViewInSync'
  BY <1>1 DEF IInv, LobbySound, Hosted, Reachable, ViewInSync, Open, Sound, Led, Present
<1> QED BY <1>2, <1>3, <1>4 DEF IInv, EventSound

\* Those who stay see the lobby without the player; an empty lobby is erased.
LEMMA LeaveLobbyIInv ==
  ASSUME IInv, NEW p \in Players, NEW id \in LobbyIds, LeaveLobby(p, id)
  PROVE  IInv'
<1> DEFINE rest == Removed(lobbies[id], p)
           last == p \in Present(lobbies[id]) /\ rest.players = << >>
<1>1. ~hung /\ lobbies[id] # NoLobby /\ match' = NoMatch
  BY DEF LeaveLobby
<1>2. /\ lobbies[id] \in Record /\ Sound(lobbies[id])
      /\ id \in deserted \/ Led(lobbies[id])
      /\ Present(lobbies[id]) \subseteq playerConnections
      /\ deserted \subseteq LobbyIds
  BY <1>1, OpenLobby
<1>3. /\ rest \in Record /\ Sound(rest)
      /\ Present(rest) = Present(lobbies[id]) \ {p}
      /\ Led(lobbies[id]) /\ rest.players # << >> => Led(rest)
      /\ Led(lobbies[id]) /\ p \notin Present(lobbies[id]) => rest.players # << >>
  BY <1>2, RemovedProperties
<1>4. EventSound'
  BY <1>1, NoMatchKeeps
<1>5. CASE last
  <2> DEFINE none == [q \in Players |-> NoLobby]
  <2>1. /\ lobbies' = [lobbies EXCEPT ![id] = NoLobby]
        /\ view' = [view EXCEPT ![id] = none]
        /\ playerConnections' = playerConnections \cup {p}
        /\ deserted' = deserted \ {id}
        /\ UNCHANGED <<logged, hung>>
    BY <1>5 DEF LeaveLobby
  <2>2. TypeOK'
    <3>1. none \in [Players -> Record \cup {NoLobby}]
      OBVIOUS
    <3> HIDE DEF none
    <3> QED BY <2>1, <3>1, <1>4 DEF IInv, TypeOK, EventSound
  <2>3. \A i \in Open' : i \in Open /\ i # id /\ lobbies'[i] = lobbies[i] /\ view'[i] = view[i]
    BY <2>1 DEF Open, IInv, TypeOK
  <2>4. LobbySound' /\ Hosted'
    <3>1. \A i \in Open' : Sound(lobbies'[i])
      BY <2>3 DEF IInv, LobbySound
    <3>2. \A i \in Open' \ deserted' : Led(lobbies'[i])
      BY <2>1, <2>3 DEF IInv, Hosted
    <3> QED BY <3>1, <3>2 DEF LobbySound, Hosted, Sound, Led, Present
  <2>5. Reachable' /\ ViewInSync'
    <3>1. \A i \in Open' : Present(lobbies'[i]) \subseteq playerConnections'
      BY <1>1, <2>1, <2>3 DEF IInv, Reachable
    <3>2. \A i \in Open' : \A q \in Present(lobbies'[i]) : view'[i][q] = lobbies'[i]
      BY <1>1, <2>3 DEF IInv, ViewInSync
    <3> QED BY <3>1, <3>2 DEF Reachable, ViewInSync, Present
  <2> QED BY <2>2, <2>4, <2>5, <1>4 DEF IInv, EventSound
<1>6. CASE ~last
  <2>1. Publish(p, id, rest) /\ deserted' = deserted
    BY <1>6 DEF LeaveLobby
  <2>2. id \in deserted \/ Led(rest)
    BY <1>2, <1>3, <1>6
  <2> HIDE DEF rest
  <2> QED BY <1>1, <1>2, <1>3, <1>4, <2>1, <2>2, PublishKeeps
<1> QED BY <1>5, <1>6

\* Readiness is broadcast before the match is.
LEMMA PlayerReadyIInv ==
  ASSUME IInv, NEW p \in Players, NEW id \in LobbyIds, NEW isReady \in BOOLEAN,
         PlayerReady(p, id, isReady)
  PROVE  IInv'
<1> DEFINE lobby == WithReadiness(lobbies[id], p, isReady)
           event == [id |-> id, players |-> lobby.players,
                     to |-> Present(lobby) \cap playerConnections']
<1>1. /\ ~hung /\ lobbies[id] # NoLobby
      /\ Publish(p, id, lobby) /\ deserted' = deserted
      /\ match' = IF Starts(lobby) THEN event ELSE NoMatch
  BY DEF PlayerReady
<1>2. /\ lobbies[id] \in Record /\ Sound(lobbies[id])
      /\ id \in deserted \/ Led(lobbies[id])
      /\ Present(lobbies[id]) \subseteq playerConnections
      /\ deserted \subseteq LobbyIds
  BY <1>1, OpenLobby
<1>3. /\ lobby \in Record /\ Sound(lobby)
      /\ Present(lobby) = Present(lobbies[id])
      /\ Led(lobbies[id]) => Led(lobby)
  BY <1>2, ReadinessProperties DEF Present
<1> HIDE DEF lobby
<1>4. /\ playerConnections' = playerConnections \cup {p}
      /\ \A q \in Present(lobby) : view'[id][q] = lobby
      /\ EventSound' => IInv'
  BY <1>1, <1>2, <1>3, PublishKeeps
<1>5. CASE Starts(lobby)
  <2>1. /\ match'.id = id /\ match'.players = lobby.players /\ match'.to = Present(lobby)
        /\ match' \in Event
    <3>1. Present(lobby) \cap playerConnections' = Present(lobby)
      BY <1>2, <1>3, <1>4
    <3>2. lobby.players \in Seq(Players) /\ Present(lobby) \subseteq Players
      BY <1>3 DEF Record, Present, Range
    <3>3. match' = [id |-> id, players |-> lobby.players, to |-> Present(lobby)]
      BY <1>1, <1>5, <3>1
    <3> QED BY <3>2, <3>3 DEF Event
  <2>2. Len(lobby.players) >= 2 /\ Present(lobby) \subseteq lobby.ready \cap lobby.connected
    BY <1>5 DEF Starts
  <2>3. lobby # NoLobby
    BY <1>3, NoLobbyAssumption
  <2>4. MatchSound'
    BY <1>4, <2>1, <2>2, <2>3 DEF MatchSound, Present
  <2> QED BY <1>4, <2>1, <2>4 DEF EventSound
<1>6. CASE ~Starts(lobby)
  BY <1>1, <1>4, <1>6, NoMatchKeeps
<1> QED BY <1>5, <1>6

\* A host may kick everybody, itself included.
LEMMA KickPlayerIInv ==
  ASSUME IInv, NEW p \in Players, NEW id \in LobbyIds, NEW target \in Players,
         KickPlayer(p, id, target)
  PROVE  IInv'
<1> DEFINE rest == Removed(lobbies[id], target)
<1>1. /\ ~hung /\ lobbies[id] # NoLobby
      /\ Publish(p, id, rest) /\ match' = NoMatch
      /\ deserted' = IF rest.players = << >> THEN deserted \cup {id} ELSE deserted
  BY DEF KickPlayer
<1>2. /\ lobbies[id] \in Record /\ Sound(lobbies[id])
      /\ id \in deserted \/ Led(lobbies[id])
      /\ Present(lobbies[id]) \subseteq playerConnections
      /\ deserted \subseteq LobbyIds
  BY <1>1, OpenLobby
<1>3. /\ rest \in Record /\ Sound(rest)
      /\ Present(rest) = Present(lobbies[id]) \ {target}
      /\ Led(lobbies[id]) /\ rest.players # << >> => Led(rest)
  BY <1>2, RemovedProperties
<1> HIDE DEF rest
<1>4. id \in deserted' \/ Led(rest)
  BY <1>1, <1>2, <1>3
<1>5. deserted' \subseteq LobbyIds /\ deserted \subseteq deserted'
  BY <1>1, <1>2
<1> QED BY <1>1, <1>2, <1>3, <1>4, <1>5, PublishKeeps, NoMatchKeeps

\* A handler that blocks on its own mutex leaves the lobbies well formed.
LEMMA RelockKeeps ==
  ASSUME IInv, NEW p \in Players, NEW isConnected \in BOOLEAN, NEW seen \in BOOLEAN,
         Relock(p, isConnected, seen),
         playerConnections' \subseteq Players, logged' \subseteq Players,
         deserted' = deserted, match' = NoMatch
  PROVE  IInv'
<1>1. PICK id \in LobbiesOf(p) :
        LET lobby == [lobbies[id] EXCEPT !.connected =
                        IF isConnected THEN @ \cup {p} ELSE @ \ {p}]
        IN  /\ lobbies' = [lobbies EXCEPT ![id] = lobby]
            /\ view' = IF seen THEN [view EXCEPT ![id][p] = lobby] ELSE view
            /\ hung' = TRUE
  BY DEF Relock
<1> DEFINE old   == lobbies[id]
           c     == IF isConnected THEN old.connected \cup {p} ELSE old.connected \ {p}
           lobby == [old EXCEPT !.connected = c]
<1>2. /\ lobbies' = [lobbies EXCEPT ![id] = lobby]
      /\ view' = IF seen THEN [view EXCEPT ![id][p] = lobby] ELSE view
      /\ hung' = TRUE
  BY <1>1
<1>3. id \in Open /\ id \in LobbyIds /\ old # NoLobby /\ p \in Present(old)
  BY DEF LobbiesOf, Open
<1>4. old \in Record /\ Sound(old)
  BY <1>3 DEF IInv, TypeOK, LobbySound
<1> HIDE DEF old
<1>5. c \subseteq Players /\ c \subseteq Present(old) \cup old.connected
  BY <1>3, <1>4 DEF Record
<1> HIDE DEF c
<1>6. /\ lobby \in Record
      /\ lobby.players = old.players /\ lobby.ownerId = old.ownerId
      /\ lobby.ready = old.ready /\ lobby.connected = c
      /\ lobby.maxPlayers = old.maxPlayers
  BY <1>4, <1>5 DEF Record
<1> HIDE DEF lobby
<1>7. Sound(lobby)
  BY <1>4, <1>5, <1>6 DEF Sound, Present
<1>8. /\ lobbies' \in [LobbyIds -> Record \cup {NoLobby}]
      /\ lobbies'[id] = lobby
      /\ \A i \in LobbyIds \ {id} : lobbies'[i] = lobbies[i]
  BY <1>2, <1>3, <1>6 DEF IInv, TypeOK
<1>9. view' \in [LobbyIds -> [Players -> Record \cup {NoLobby}]]
  BY <1>2, <1>3, <1>6 DEF IInv, TypeOK
<1>10. \A i \in Open' : i \in Open /\ (i # id => lobbies'[i] = lobbies[i])
  BY <1>3, <1>8 DEF Open
<1>11. LobbySound'
  <2>1. \A i \in Open' : Sound(lobbies'[i])
    BY <1>7, <1>8, <1>10 DEF IInv, LobbySound
  <2> QED BY <2>1 DEF LobbySound, Sound, Present
<1>12. Hosted'
  <2> SUFFICES ASSUME NEW i \in Open' \ deserted PROVE Led(lobbies'[i])
    BY DEF Hosted, Led
  <2>1. Led(lobbies[i])
    BY <1>10 DEF IInv, Hosted
  <2> QED BY <2>1, <1>6, <1>8, <1>10 DEF Led, old
<1>13. EventSound'
  BY NoMatchKeeps
<1>14. TypeOK'
  BY <1>2, <1>8, <1>9, <1>13 DEF IInv, TypeOK, EventSound
<1>15. Reachable' /\ ViewInSync'
  BY <1>2 DEF Reachable, ViewInSync
<1> QED BY <1>11, <1>12, <1>13, <1>14, <1>15 DEF IInv, EventSound

\* The connection of a player in no lobby comes and goes without a trace.
LEMMA OutsiderKeeps ==
  ASSUME IInv, NEW p \in Players, LobbiesOf(p) = {},
         playerConnections' \subseteq Players, playerConnections \ {p} \subseteq playerConnections',
         logged' \subseteq Players,
         UNCHANGED <<lobbies, view, hung, deserted>>, match' = NoMatch
  PROVE  IInv'
<1>1. EventSound'
  BY NoMatchKeeps
<1>2. TypeOK'
  BY <1>1 DEF IInv, TypeOK, EventSound
<1>3. LobbySound' /\ Hosted' /\ ViewInSync'
  BY DEF IInv, LobbySound, Hosted, ViewInSync, Open, Sound, Led, Present
<1>4. \A id \in Open : p \notin Present(lobbies[id])
  BY DEF LobbiesOf
<1>5. Reachable'
  BY <1>4 DEF IInv, Reachable, Open, Present
<1> QED BY <1>1, <1>2, <1>3, <1>5 DEF IInv, EventSound

\* A login of a player in a lobby takes the mutex twice.
LEMMA PlayerReconnectIInv ==
  ASSUME IInv, NEW p \in Players, NEW former \in SUBSET logged, PlayerReconnect(p, former)
  PROVE  IInv'
<1>1. /\ logged' = (logged \ former) \cup {p}
      /\ playerConnections' = playerConnections \cup {p}
      /\ match' = NoMatch /\ deserted' = deserted
  BY DEF PlayerReconnect
<1>2. playerConnections' \subseteq Players /\ logged' \subseteq Players
  BY <1>1 DEF IInv, TypeOK
<1>3. CASE LobbiesOf(p) = {}
  <2>1. UNCHANGED <<lobbies, view, hung>>
    BY <1>3 DEF PlayerReconnect
  <2> QED BY <1>1, <1>2, <1>3, <2>1, OutsiderKeeps
<1>4. CASE LobbiesOf(p) # {}
  <2>1. Relock(p, TRUE, TRUE)
    BY <1>4 DEF PlayerReconnect
  <2> QED BY <1>1, <1>2, <2>1, RelockKeeps
<1> QED BY <1>3, <1>4

\* So does the disconnect of one.
LEMMA PlayerDisconnectIInv ==
  ASSUME IInv, NEW p \in Players, NEW goesOn \in BOOLEAN, PlayerDisconnect(p, goesOn)
  PROVE  IInv'
<1>1. /\ logged' = IF goesOn THEN logged ELSE logged \ {p}
      /\ playerConnections' = playerConnections \ {p}
      /\ match' = NoMatch /\ deserted' = deserted
  BY DEF PlayerDisconnect
<1>2. playerConnections' \subseteq Players /\ logged' \subseteq Players
  BY <1>1 DEF IInv, TypeOK
<1>3. CASE LobbiesOf(p) = {}
  <2>1. UNCHANGED <<lobbies, view, hung>>
    BY <1>3 DEF PlayerDisconnect
  <2> QED BY <1>1, <1>2, <1>3, <2>1, OutsiderKeeps
<1>4. CASE LobbiesOf(p) # {}
  <2>1. Relock(p, FALSE, FALSE)
    BY <1>4 DEF PlayerDisconnect
  <2> QED BY <1>1, <1>2, <2>1, RelockKeeps
<1> QED BY <1>3, <1>4

\* The invariant depends on the variables of the module only.
LEMMA StutterIInv == IInv /\ UNCHANGED vars => IInv'
  BY DEF vars, IInv, TypeOK, LobbySound, Hosted, Reachable, ViewInSync, MatchSound, Open,
         Sound, Led, Present

-----------------------------------------------------------------------------
\* The invariant holds for any players and ids, whatever capacities clients
\* ask for, whatever ids collide and however connections overlap.
THEOREM Invariance == Spec => []IInv
<1>1. IInv /\ [Next]_vars => IInv'
  <2> SUFFICES ASSUME IInv, [Next]_vars PROVE IInv'
    OBVIOUS
  <2>1. CASE UNCHANGED vars
    BY <2>1, StutterIInv
  <2>2. ASSUME NEW p \in Players, handlePacket(p) PROVE IInv'
    <3>1. CASE OtherRequest(p)
      BY <3>1, OtherRequestIInv
    <3>2. ASSUME NEW id \in LobbyIds,
                 \/ \E capacity \in Capacities : CreateLobby(p, id, capacity)
                 \/ JoinLobby(p, id)
                 \/ LeaveLobby(p, id)
                 \/ \E isReady \in BOOLEAN : PlayerReady(p, id, isReady)
                 \/ \E target \in Players : KickPlayer(p, id, target)
          PROVE  IInv'
      BY <3>2, CreateLobbyIInv, JoinLobbyIInv, LeaveLobbyIInv, PlayerReadyIInv, KickPlayerIInv
    <3> QED BY <2>2, <3>1, <3>2 DEF handlePacket
  <2>3. ASSUME NEW p \in Players, NEW former \in SUBSET logged, PlayerReconnect(p, former)
        PROVE  IInv'
    BY <2>3, PlayerReconnectIInv
  <2>4. ASSUME NEW p \in Players, NEW goesOn \in BOOLEAN, PlayerDisconnect(p, goesOn)
        PROVE  IInv'
    BY <2>4, PlayerDisconnectIInv
  <2> QED BY <2>1, <2>2, <2>3, <2>4 DEF Next
<1> QED BY <1>1, InitIInv, PTL DEF Spec

\* The variables of the lobby manager keep their types.
THEOREM TypeCorrect == Spec => []TypeOK
<1>1. IInv => TypeOK
  BY DEF IInv
<1> QED BY <1>1, Invariance, PTL

\* No sequence of handlers puts a player into a lobby twice or beyond its
\* capacity, or leaves readiness behind a player who is gone.
THEOREM LobbySoundHolds == Spec => []LobbySound
<1>1. IInv => LobbySound
  BY DEF IInv
<1> QED BY <1>1, Invariance, PTL

\* The host is the player who has been in the lobby longest, unless the last
\* player kicked itself out.
THEOREM HostedHolds == Spec => []Hosted
<1>1. IInv => Hosted
  BY DEF IInv
<1> QED BY <1>1, Invariance, PTL

\* While the I/O thread runs, the manager can reach every player of a lobby.
THEOREM ReachableHolds == Spec => []Reachable
<1>1. IInv => Reachable
  BY DEF IInv
<1> QED BY <1>1, Invariance, PTL

\* While the I/O thread runs, all players of a lobby were sent its present
\* state.
THEOREM ViewInSyncHolds == Spec => []ViewInSync
<1>1. IInv => ViewInSync
  BY DEF IInv
<1> QED BY <1>1, Invariance, PTL

\* A match only starts with everybody told, ready and connected.
THEOREM MatchSoundHolds == Spec => []MatchSound
<1>1. IInv => MatchSound
  BY DEF IInv
<1> QED BY <1>1, Invariance, PTL

=============================================================================
