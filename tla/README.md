# ArenaNet: specifications, model checking and proofs

ArenaNet is a game backend in C++: a TCP server that keeps sessions, lobbies,
parties and a matchmaking queue in memory, with PostgreSQL for permanent data and
Redis for presence and tokens, a C# SDK and two sample clients. This directory holds
TLA+ specifications of its logic, TLC configurations that model-check them, and
theorems about them checked by TLAPS.

```
tlc -config MCPartyManager.cfg MCPartyManager     # likewise for the other .cfg files
tlapm PartyManager_proofs.tla                     # likewise for the other *_proofs.tla
```

## 1. Inventory

### Threads

| thread | what it runs |
|---|---|
| I/O thread | the only caller of `ioContext.run()` (`main.cpp:110`): every packet handler, every disconnect handler, every completion of a read or a write. Handlers are atomic with respect to each other. |
| matchmaker thread | `Matchmaker::matchLoop`: reads the clock, calls `Queue::getMatch`, notifies players, sleeps 500 ms when there was nothing to do. |
| grace threads | one detached thread of 30 s for each lobby a disconnected player is in (`LobbyManager.cpp:250`); never created, since the I/O thread blocks four lines before. |
| signal handler | stops the matchmaker, the database and the event loop (`main.cpp:28`). |

### Components

| component | state | operations | what makes it correct |
|---|---|---|---|
| **Party manager** `party/` | `parties_`, `playerToParty_` under one mutex | create, invite, accept, leave, disconnect; `getPartyOfPlayer` for the matchmaker | the two maps agree; one party per player; a live leader, chosen in the order of joining; clients see the present state |
| **Queue** `matchmaking/Queue` | `entries_` under a mutex | `addEntry`, `removePlayer`, `getMatch` | a player is in one entry; a match has the size its teams asked for and tolerates their ratings; first come, first served; nobody starves |
| **Matchmaker** `matchmaking/Matchmaker` | the queue, the local variables of the thread | join and leave queue, disconnect, the thread | what is taken out of the queue is announced to exactly its members; everybody gets an answer |
| **Session table** `network/SessionManager.h` | `connections_` by player | register, unregister, get | the connection found is live and carries this player |
| **Authentication** `authentication/` | users in the database; tokens are checked by signature alone, and stored in Redis for nobody | register, login with password or token | who is logged in is registered, present, and back in the lobby |
| **Connection** `network/Connection` | write queue, `isWriting_`, read buffer | send, read loop, write loop, disconnect | packets leave whole and in order; one disconnect per connection |
| **Lobbies** `lobby/` | `lobbies_`, `playerConnections_`; players, readiness, connectedness, owner per lobby | create, join, leave, ready, kick, list, disconnect, reconnect, grace thread | the owner is a player; a match starts only when all are ready and connected; the grace period is kept |
| **Friends** `friend/` | rows (a, b) of the table `friends` | request, accept, reject, remove, list | a friendship is mutual and was asked for |
| **Match results** `match/` | `matches`, `match_players`; `users` for the ratings | report a result, history | a match is recorded whole or not at all, and once; ratings follow from results |
| **Chat**, **leaderboard** | none | relay to a lobby; read-only queries | |
| **Redis and PostgreSQL clients** | connections | one statement or transaction per call | a failure, logged and ignored, leaves what can be told apart from a lie |
| **SDK** `sdk/ArenaNet.SDK` | one response handler per packet type, the socket | requests awaiting a response, time-outs, events | every request is completed, and a response completes one call, not made before the request it answers |

### Interactions

`routePacket` (`main.cpp:36`) gives each packet to one manager by its number. The
matchmaker reads parties through `getPartyOfPlayer` and copies the members. Managers
find connections through the session table, the lobby manager through a table of its
own. A login sets the player of the connection, marks it online, registers it and lets
the lobby manager reconnect it. The disconnect handler (`main.cpp:88`) takes the player
out of the queue, the session table, presence, lobbies and its party, in this order,
each step under the lock of its own component only.

### What is hard here

Handlers run between any two steps of the matchmaker thread; its notifications use no lock. Parties
change while they are queued. Connections of one player overlap, one connection may log in twice,
and the end of a connection is noticed late. Random ids may collide. The lobby manager locks its
mutex twice on disconnect and on login. The write queue is used by several threads. Failures of
Redis and of the database are logged and ignored; the server may crash between two statements of a
report. The SDK matches responses to requests by type alone, while timers, callers and the receive
thread share the handlers. The hazards, each with its line and the properties that bear on it, are
listed in `PROJECT.json`.

## 2. Modules

```
 PartyManager ---------------- PartyManager_proofs      Queue ----- Search --- MCQueue
   |      \  MCPartyManager          |                   |             \
   |                                 |                  Matchmaker --- Matchmaker_proofs
   |        +------------------------|-----------------/   \  MCMatchmaker
 ArenaNet --+ (INSTANCE)             |
   |   \  MCArenaNet                 |
 ArenaNet_proofs --------------------+

 Lobby ------- Lobby_proofs          MemberLists: lemmas on lists of players,
      \  MCLobby                     used by PartyManager_proofs and Lobby_proofs

 Sessions ---- Sessions_proofs
      \  MCSessions                 INSTANCE PartyManager: sessions as parties see them

 Connection -- MCConnection          INSTANCE Channel: what is promised of its packets
   |
  Wire ------- Wire_proofs           INSTANCE Client: the SDK over the connection
      \  MCWire

 Accounts --- Friends --\
      \------ Results --- Database -- Database_proofs
                              \  MCDatabase
```

**PartyManager** models `party/PartyManager.cpp`, what it sees of the session table, and
its part of the disconnect handler. One handler call is one action. `parties` and
`playerToParty` are the two maps; a party is a record with the fields of `struct Party`.
`sessions` is the set of players the session table has a connection for and `logged` the
set of players whose id some connection carries that is still read. They differ after a failed write,
which runs the disconnect handler while the read loop goes on handling packets
(`Connection.cpp:105-108`, `goesOn`), when connections of one player overlap (`Relogins`), and when
a connection logs in as a second player (`Switches`). The two constants are the sets of players whose
connections may do that; failed writes, repeated and late disconnects happen to everybody. `MembersOnline` and
`ViewInSync` are of the other players, whoever is beside them: the handlers keep one player's connection
apart from what the connections of others do. `view` is
the last `PARTY_STATE_UPDATE` a player was sent. `generatePartyId` returns any id; the
history variable `collided` remembers that a party was given one in use. A null party
that is dereferenced ends the run (`up = FALSE`).

**Queue** models `matchmaking/Queue.cpp` as operators over a sorted sequence of entries:
the oversize test, the timeout test, the tolerance that grows by whole periods (with
the rounding of C++), the greedy scan with its running count, and the early returns, in
the order of the code. Entries carry the seconds waited. **Search** is the search by itself: it
builds every sorted queue up to a bound, entry by entry, and each one it reaches is searched.

**Matchmaker** models `matchmaking/Matchmaker.cpp`: the handlers, and the thread as
`ReadClock`, `FindMatch` (the critical section of `getMatch`) and one `Notify` per
player. The queue is a set of entries, and `FindMatch` sorts it in any order that agrees
with the waiting times, since `std::sort` promises no order among equals. `lag` is the age
of `now`, which was read before the mutex was obtained, so a search may see negative
waiting times; `delay` is the time a handler spent on the database after it read the
clock. Joining is two steps, for `addEntry` releases the mutex before the response is sent
(lines 93 to 98): `JoinQueue` adds the entry, `replying` is the player who is yet to be told, and
`Reply` sends it; the I/O thread runs no other handler in between (`Idle`), the matchmaker thread may.
Nothing asks whether a player is in the session table, as in the code. `waiting` is the set of players
who asked for a match and neither left nor were sent an event since; `missed` are those of them
the thread had an event for and no connection.

**ArenaNet** composes the two over one session table as `main.cpp` does: a request to
queue reads the party of its sender, only the leader may queue it, and the disconnect
handler runs through queue, session table and party. These calls take three locks one after the
other and are one action nevertheless: of all they change, the matchmaker thread sees the queue, and then, of
players it took out of it before, the session table, so what it does in between could as well be done
before or after. `ImplementsMatchmaker` says that it implements `Matchmaker` with the identity as
refinement mapping: what the matchmaker assumes of its callers (a team is a set of players that
includes the sender, and nobody takes out an entry but by leaving, disconnecting or the thread) is
provided, for all sets `Relogins` and `Switches`. `QueuedOnline` relates the queue to the connections:
a queued team, whatever became of its party, has no member whom no connection carries, unless the connection
of that member has logged in as somebody else (`Switches`).

**Lobby** models `lobby/`. A lobby is a record with the owner, the capacity, the vector of
players, and the sets of players whose `readyStates_` and `connectedStates_` are true;
`Full`, `With`, `Removed`, `WithReadiness` and `Starts` are the methods of class `Lobby`, and
every handler of `LobbyManager` is an action that ends with `Publish`, the update of the
map and the broadcast. `view` is the last `LOBBY_STATE_UPDATE` a player was sent of a
lobby it is in, `match` the `MATCH_FOUND_EVENT` the last step sent. `PlayerDisconnect`
and `PlayerReconnect` (the call a login makes) lock the manager's mutex and broadcast,
which locks it again. The standard leaves this undefined; a `std::mutex` over a
default pthread mutex, on Linux and macOS alike, blocks. `Relock` is the state the loop
leaves then, and `hung` ends the run. What stands behind the call (line 250 onwards) is not
reached and not modelled. `deserted` remembers the lobbies whose last player kicked itself.

**Sessions** models the identity of connections: which one the session table has for each player,
which player each carries, accounts, tokens, presence in Redis, and the disconnect handler of
`main.cpp`. A connection is `open`, `broken` (the peer is gone), `ending` (the read loop is over, a
write is not) or `closed`; what was received before the peer left is still handled, so a login may
follow the disconnect handler that a failed write ran. `Restart` loses the memory of the server, but
not Redis, the database and the tokens of clients. Three history variables name what the code does
not undo: `stale`, players whose presence a failed call or a restart left wrong; `leftBehind`,
players whose registered connection has logged in as somebody else; `dropped`, players whom the end
of another connection, or an early one of their own, unregistered. The properties except these, each
where it matters, and nothing else. `ImplementsSessions` says that the abstract sessions of
`PartyManager` (`sessions`, `logged`) are what this module provides.

**Connection** models `network/Connection.cpp`. `send` is broken into its accesses of
`isWriting_` and `writeQueue_`, which no mutex protects; a completion handler of the I/O thread is
one action. The operating system takes a packet in two pieces. `ends` says whether the disconnect
handler has run. **Channel** is what a connection promises of its packets: whole, once, in the
order of sending, all of them while the network is there. The peer may close (`Break`), which the system
hears of, or vanish (`Vanish`), which it cannot know until it repeats in vain what nobody acknowledges
(`unanswered`) and gives up (`GiveUp`). One sending thread implements it
(`ImplementsChannel`), two do not (`write_race`).

**Client** models `sdk/ArenaNet.SDK/ArenaNetClient.cs`: `_responseHandlers` with one access per
action, shared by the callers, the timers of the thread pool and the receive thread, against a
server that answers in order. **Wire** puts the client over a `Connection`: requests
come in through the read loop, responses leave through the write queue, and what `Client` takes for
granted of the server is shown to hold (`ImplementsClient`).

**Accounts**, **Friends** and **Results** model the tables of `database/PostgresClient.cpp` with the
handlers of `friend/` and `match/`. A friend handler is one transaction; a report of a match is one
per statement up to the commit, then one update of `users` per player whether or not the match was
recorded, and the server may crash or lose the database in between. Foreign keys and primary keys
are guards. `clock` dates the rows of `matches`, and `getMatchHistory` is the window of the code:
the `HistoryLimit` newest matches of a player (`ORDER BY ... DESC LIMIT`, 10 in the code).
`oneSided` remembers friendships that were accepted unasked or rejected later, as the statements
allow. **Database** puts them over one connection.

Operators commented "Faulty" are variants of the operator after them with a
plausible mistake; nothing uses them, and each makes a property below fail when put in
place of the correct one (the pairs are in `PROJECT.json`).

## 3. Runs

| run | instance | checks |
|---|---|---|
| `party` | 4 players, 3 ids, three players with overlapping connections and switches of account, failed writes, colliding ids | types; `Membership` whatever happens; until ids collide also `Filed` (both maps agree), `Survives` (no null party is used), `Succession` (the next oldest member leads); of the fourth player `MembersOnline` and, until ids collide, `ViewInSync` |
| `composed` | 2 players, 2 ids, overlapping connections, one of them with switches of account, failed writes, targets any/1 more, timeout 0 s | `QueuedOnline`, `ImplementsMatchmaker`; stops at the first collision |
| `queue_search` | up to 4 teams of 1 or 2, 2 ratings, targets any/2/4, `MATCH_SIZE` 3, waits 0/10/31 s, clock late by 0 or 1 s | `SearchSound`, `FirstComeFirstServed`, `NoDuelMissed` |
| `matchmaker` | 3 players, alone or in pairs, 2 ratings, 1 more wanted, timeout 1 s, clock late by at most 1 s | `QueueSound`, `MatchSound`, `PendingSound` |
| `solo_answered` | 3 players alone, 1 opponent wanted, with and without sessions, timeout 0 s | types, `NobodyForgotten`, `Answered` |
| `queue_drains` | 2 players, alone or as a pair, targets any/1 more, timeout 0 s, clock late by at most 1 s | `QueueDrains` |
| `lobby` | 3 players, 2 ids, capacities -1, 0 and 2, overlapping connections, colliding ids | types, `LobbySound`, `Hosted`; until the I/O thread blocks `ViewInSync`; `MatchSound` |
| `sessions` | 2 players, 3 connections, failing Redis, restarts | types; `PresenceFresh`, `Delivered`, `Reachable`, each but for the players its history variable names; `ImplementsSessions` |
| `wire` | 2 calls of 2 types, one of them unknown to the server, 1 sending thread | `OneWrite`, `ImplementsChannel`, `EndNoticed` of the connection; `AnsweredOnce`, `OwnAnswer`, `Completed` of the client; `ImplementsClient` |
| `database` | 3 players and every friendship; 2 matches, reports of up to 2 players and 2 results, histories of 1, a lost database, crashes | types and foreign keys, `Friendship`, `RatingFits`, `HistoryWhole` |

Two runs end in a violation: there a statement of the repository is checked against
what the code does.

| run | statement | what happens |
|---|---|---|
| `lobby_grace` | README:22, a player who is disconnected from a lobby has 30 s to reconnect to it | the end of the connection of any player of a lobby blocks the I/O thread for good |
| `write_race` | Connection.cpp:20, a header is followed by its payload | the matchmaker thread and the I/O thread both see no write in progress and start one each; their pieces mix |

Other statements of the repository's README are stronger than what the code does, and the passing
properties are worded accordingly. README:38 has wildcards fall back to the server's size "if no
specific match is available", but two early wildcards are matched with each other although they
would complete a match of three; README:30 has a party matched "against others", but a pair that
takes any size is a match by itself when `MATCH_SIZE` is 2 (both are allowed by `SearchSound`).
README:40 promises a timeout event when no match is found, but the other members of a team that
one member left are told nothing; a wildcard team larger than `MATCH_SIZE` stays queued; and a player
who is logged in but not in the session table, after a failed write of its own or the late end of an
older connection, is taken out of the queue and told nothing, since `getConnection` finds nobody
(`Answered` is of solo players who are in the table when their turn comes, `missed` are the others, and
`QueueDrains` is checked with teams that fit). README:15 has Redis track
who is online, but the late end of an old connection shows a player offline who has logged in anew
(`dropped` in `Sessions`), and a restart leaves players online who are not (`stale`).

**Bounds.** Four players are what the party properties need: a leader, two who may succeed it and a
bystander, or two parties of two; with three ids, the fourth party collides at the latest. One of
them, `ann`, is on one connection at a time. `MembersOnline` and `ViewInSync` are claimed of each
such player by itself, and the other three may do whatever a player can, behave like `ann` included,
so one is enough. In `composed` two players are a leader and a member who queues alone before or
after, and either may leave, fail and come back meanwhile; what a third adds is the matter of
`matchmaker` and `party`, and the theorems of `ArenaNet_proofs` are for any number. `composed` tells
states apart by everything but `view`, which no guard and none of its properties reads (`VIEW
ServerState`), and `party` by everything but the `view` of the three, and of everybody once ids
collided: only the types read it then. `matchmaker` leaves out `sessions`, `waiting` and `missed`
(`VIEW QueueAndThread`), which decide nothing of the queue and the thread and which none of its
properties reads; `solo_answered` tells all states apart. Two sizes of team and four entries let a
scan skip an entry that does not fit and take a later one. `Tick` stops the clock when it is
`MaxLag` ahead of the thread, and while an entry has waited `MaxWait = QueueTimeout + MaxLag + 1`
seconds, when it is overdue for any clock: longer waits look the same to the search, but for the
tolerance, which `queue_search` varies. Entries the search skips as oversized do not hold up the
clock. `NoCollision` ends the exploration of `composed` at a collision, which `party` explores. In
`queue_search`, matches of two, three and four players occur: with three or more, places are left
that not every team fits, and with four a pair may leave one free.

First come, first served is claimed while all teams have one or two players, and of pairs
only in matches of at most three. The code promises no more: with larger teams the greedy scan may take a
smaller team for an earlier entry and then pass an equal of it over, and a pair
that waited longer, hence tolerates more, may take a first fit that leaves one place free in its match of
five and stay behind while a later, alike pair, which tolerates less, completes its own (found by TLC
with `MATCH_SIZE` 5 and targets any and 4).

Two lobbies let a player be in both; three
players are an owner, a successor and one whom the capacity keeps out.

In `sessions`, two connections of one player overlap while a third switches from one player to the
other, which needs no third player; connections of one kind are interchangeable and so are players.
In `wire`, two calls overlap on one handler, and the second may meet what the first left behind: its
response, its handler, its timer. A third call repeats these encounters; `Client` alone has been run
with three. Two types are one that is answered and one that never is. In `database`, a triangle of
players holds every pair's friendship next to another's; `MaxGames` stops reports after two results,
enough for a loss that is cut short before or after a win of the same player: `Initial`, 10, is less
than one loss, so the first report may cut a loss short and a second, which fails to be recorded or
not, may add a win. A history of one match is full at the first and pushed at the second.
Friendships and reports share only the accounts, so `MCDatabase` explores each with the other tables
at rest, and leaves one id without an account for reports.

**Fairness.** `WF(Thread)`: the matchmaker thread is a plain loop and only sleeps
between iterations. `SF(Tick)`: time passes; strong, because the bounds above disable the
clock now and then. Handlers have none: no client owes the server a packet.
In `wire`, `WF(ServerRuns)`: the event loop and the network proceed while there is
anything to do, and TCP does not repeat a packet for ever; `WF(EndOfStream)`: the event loop hands over
the error of a read once the system knows of the end. It knows when the peer closes or resets
the connection, or when what it was given to send is not acknowledged. The code sets neither a
keepalive nor a deadline, so a peer that vanishes while nothing is sent to it is never noticed, and
`EndNoticed` does not claim it; `WF(Timeout)` per call:
`Task.Delay` is a timer of the runtime. No response is owed to anybody: `Completed` rests on the
timers, and `EndNoticed` and `ImplementsChannel` on the loop.
`Answered` and `QueueDrains` except players who ask again forever, each request
starting the waiting anew. **Deadlock** is checked except where the system may stop: a
crash in `party`, the blocked thread in `lobby`, a dead
connection whose calls are all completed in `wire`, and the finished search of `queue_search`.

## 4. Proofs

| theorem | module | holds for |
|---|---|---|
| `Invariance`, `TypeCorrect`, `MembershipHolds` | `PartyManager_proofs` | any players and ids, overlapping sessions and collisions included |
| `FiledHolds`, `SurvivesHolds` | `PartyManager_proofs` | the same; the properties themselves stop at the first collision |
| `MembersOnlineHolds` | `PartyManager_proofs` | players outside `Switches`, among any players and ids, with failed writes, overlapping connections and collisions |
| `SuccessionHolds` | `PartyManager_proofs` | any players and ids, overlapping sessions |
| `ViewInSyncHolds` | `PartyManager_proofs` | players outside `Relogins` and `Switches`, among any others, failed writes included |
| `SearchSoundHolds`, `NoDuelMissedHolds` | `Matchmaker_proofs` | sorted queues of any length, any teams, ratings and settings |
| `FirstComeFirstServedHolds` | `Matchmaker_proofs` | the same, for a tolerance that does not shrink (`ExpansionRate >= 0`) |
| `Invariance`, `TypeCorrect`, `QueueSoundHolds`, `PendingSoundHolds`, `MatchSoundHolds` | `Matchmaker_proofs` | any finite set of players and any configuration |
| `NobodyForgottenHolds` | `Matchmaker_proofs` | the same, when every team is one player |
| `Invariance`, `TypeCorrect`, `LobbySoundHolds`, `HostedHolds`, `ReachableHolds`, `ViewInSyncHolds`, `MatchSoundHolds` | `Lobby_proofs` | any players, ids and integer capacities, overlapping connections and collisions included |
| `RemoveFirstProperties`, `AppendNew` | `MemberLists` | lists without duplicates over any set |
| `ImplementsMatchmakerHolds` | `ArenaNet_proofs` | any players, ids and settings, all connections and collisions |
| `ArenaMembersOnline`, `QueuedOnlineHolds` | `ArenaNet_proofs` | the same, of players outside `Switches` |
| `ArenaViewInSync` | `ArenaNet_proofs` | the same, of players outside `Relogins` and `Switches` |
| `Invariance`, `TypeCorrect`, `PresenceFreshHolds`, `DeliveredHolds`, `ReachableHolds`, `ImplementsSessionsHolds` | `Sessions_proofs` | any players and connections, failed calls and restarts included |
| `Invariance`, `TypeCorrect`, `RatingFitsHolds`, `FriendshipHolds`, `HistoryWholeHolds` | `Database_proofs` | any players and matches, reports and histories of any length, any initial rating, gain and loss; friend packets and reports interleaved |
| `Invariance`, `TypeCorrect`, `OneWriteHolds`, `ConnectionIsChannel` | `Wire_proofs` | a connection with any packets, one sending thread (`Threads = {IO}`) |
| `WireInvariance`, `WireOneWrite`, `WireIsChannel`, `WireIsClient`, `AnsweredOnceHolds`, `OwnAnswerHolds` | `Wire_proofs` | a client with any number of calls over such a connection |

*Parties.* `IInv` is `TypeOK /\ Membership /\ Reliable /\ MembersOnline`. `Membership` is
inductive together with the types: an accepting player is filed nowhere, so by
`Membership` it is in no party and no member is named twice. `Reliable` adds the other
direction, which needs that no id was reused; a crash would contradict it.
`MembersOnline` is carried by every step: a player must be logged in to come into a party, and ceases to
be, unless its connection logs in as somebody else, at a disconnect only, which takes it out of its party in
the same step. The lemmas of
`MemberLists` say what erasing and appending do to the range, the length, the first
element and the injectivity of a sequence, without induction. `Succession` follows from that first
element. `ViewInSync` is inductive on top of `IInv`: whoever is sent an update is exactly who is in
the party afterwards, whoever leaves or loses its session is in none, and neither is, by `MembersOnline`, who
logs in while no connection carries it; `DepartEffect` says what
the one departure that leaving and disconnecting share does to map, leader and view.

*Lobbies.* The properties are inductive together. `PublishKeeps` carries them over a
broadcast: by `Reachable` every player of the new state has a connection and hence sees it,
so `ViewInSync` holds again, and `MatchSound` follows for a lobby whose players are all
ready. One lemma per method of class `Lobby` says that it keeps a lobby sound and led.
`RelockKeeps` and `OutsiderKeeps` are the two outcomes of a login or a disconnect.

*Search.* The count of `getMatch` is a function defined by recursion over the queue. That
such a function exists and what it satisfies (`Recursion`, `CountProperties`) is shown without an
induction scheme: the positions where a statement fails would have a first one
(`FirstPosition`, from the well-foundedness of `<`; `PositionInduction` states it for a set of positions).
So are that the count never exceeds what the base plays for, never falls, and is the number of
players in the teams taken (`GroupMatched`), which makes a completed group a match.
First come, first served is an argument of pace: of two alike entries the earlier tolerates
at least as much (`ToleranceGrows`, over the integer division of C++), and its count keeps up with that of the
later one at every position, or has at most one place left (`SoloKeepsUp`, `PairKeepsUp`), so that
it is never the later one at which the search ends (`EarlierEnds`). When the tolerance may shrink this
fails, hence the assumption on `ExpansionRate`.

*Matchmaking.* The invariant adds to `QueueSound` that the queue is finite, and to `PendingSound`
that the batch being announced was a match when it was found; `SortedIsQueue` makes what is known of
the search apply to the entries of the matchmaker in any order that agrees with their waiting.
`NobodyForgotten` goes through every step: a request adds the entry with the player, and the thread
moves it from the queue to `pending`, and from there out of `waiting` or into `missed`. In the
composition the theorems hold as well, by `ImplementsMatchmaker`.

*Composition.* A request that passes the leader check queues the members of a live
party, a set of players that includes the sender by `Membership`, hence the step is one of the matchmaker. For
`QueuedOnline` the members of that party are filed (`TeamFiled`), by `MembersOnline` logged in, and whoever
ceases to be logged in at a disconnect is taken out of the queue in that step.

*Sessions.* The properties are inductive together with the types: a login registers a connection
that carries the player, and cleaning up erases the entry of whichever player the connection
carries, which is what puts a player into `dropped`. For the refinement, a login maps to `Login`, or
to `SwitchAccount` when the connection carried somebody else whom no other one carries, and the end
of a connection to `PlayerDisconnect` of a player without a party.

*Database.* `RatingFits` follows row by row, with the products named so that the arithmetic
is linear. Behind `Friendship` is that a row was said by its first player (`RowsSaid`) and that
acceptance is mutual but for `oneSided` (`Mutual`). `HistoryWhole` needs to know what an open report has
inserted: exactly the players before `next`, none of them twice, and no row of the match
(`Inserted`); so what `Commit` adds is all of a report. That it enters the windows of all its players and
pushes out only the oldest of full ones follows from the dates: every row is dated before the clock
(`Dated`), so the new row is the newest of each history it comes into, and when a row is no longer shown
those that are shown are exactly the newer ones, as many as the limit (`HistorySize`, `PushedOut`).

*Connection.* For one sending thread `CInv` adds to the types what the call of `send` has seen:
the flag it read is still the flag when it pushes (`Sending`), because completion handlers wait
for it. A second thread breaks just this step, as `write_race` shows. `Whole` adds where everything is: the
pieces on the wire are those of the first packets sent (`Carries`), and while the peer is there the queue
is the rest of them and the write in progress is of its front (`Aligned`). So what the peer reads is a
prefix of what was sent, and each step of the connection is a step of `Channel` or a stutter.

*Wire.* `ClientInv` speaks of the client alone. A response is in one place: on its way, in
hand, or the answer of one call (`InOnePlace`). The handler of a type, if there is one, is the last
call of that type (`InOrder`), so what it is given cannot be of a later call (`NoneLater`). A call
that was alone when it was registered stays the first of its type under way (`Undisturbed`). It
is kept by every step of `Client`; `WireStep` shows that each step of the connection, the network and the
client is such a step: handling a request is `Respond` because the packet joins the sequence of what
was sent and not yet read, reading a frame is `Receive` because frames are a prefix of that sequence, and the
end of the link is `LoseLink`. Both invariants were checked by TLC first, also with three calls.

Only model-checked is what the prover has no rules for: liveness, that is `Answered`, `QueueDrains`,
`EndNoticed`, `Completed` and the fairness in `ImplementsChannel`. The two violated statements
need no proof.

## 5. What is left out

In the modules above: the text of packets, logging, the forwarding of invitations, ratings that
change between two requests (any rating of a set may be found), failed database reads (they yield
one more rating), `Matchmaker::stop`; in `ArenaNet`, lobbies: the disconnect handler is modelled for
players who are in none. Packets without a key a handler reads are undefined behaviour on a constant
payload and left out everywhere. In `Lobby`, privacy, the list of lobbies, which connection is filed
for a player, methods nothing calls (`setOwner`, `setPrivate`, the chat history), and what a player
believes of a lobby it is no longer in; a kicked player is told nothing. `view` follows one
connection per player. In `Sessions`, names, passwords and hashes, and the calls into the lobby and
party managers, which have their own modules. In `Connection`, buffers, `getRemoteAddress`, and the
server's set of connections, which only keeps them alive. In `Client`, events nobody awaits, a
second `ConnectAsync` (when the old receive thread's last act, `Disconnect`, closes the new
connection), and a header that arrives in more than one read (`ArenaNetClient.cs:84` reads once). In
`Friends`, packets without the key a handler reads (the SDK accepts with `target_id`, the handler
reads `sender_id`), which is undefined behaviour. In `Results`, durations; dates are an order.

Not modelled: the leaderboard (two queries whose order the database computes), chat (a relay
without state), logging and configuration, the sample clients (user interfaces), the lists of
lobbies and tokens in Redis (written, if at all, and never read), and the locks held when a signal
arrives (`main.cpp:30`): a shutdown is the loss of the process.

## 6. Plan

1. `Lobby` in the composition, where the blocked thread also keeps the
   party manager from hearing of a disconnect (`main.cpp:104`), and `ArenaNet` over `Sessions`.
2. **Tickets**: an abstract queue in which every request is answered or withdrawn once, and the proof
   that `Matchmaker` implements it.
3. The safety half of the liveness arguments as theorems: what decreases with every turn
   of the matchmaker thread, and with every completion handler.
