------------------------------ MODULE Sessions ------------------------------
(***************************************************************************)
(* Who is logged in where: the accounts, the connections with the player   *)
(* each carries (network/Connection.h), the session table                  *)
(* (network/SessionManager.h), presence in Redis (redis/RedisClient.cpp),  *)
(* registration and login (authentication/), and the disconnect handler    *)
(* of main.cpp.                                                            *)
(*                                                                         *)
(* All of it runs on the only thread of the io_context, so one packet, or  *)
(* one end of a read or a write, is one action.  The server may stop and   *)
(* start again between any two of them: its memory is lost, the database,  *)
(* Redis and the tokens in the hands of clients are not.                   *)
(*                                                                         *)
(* Left out: user names and passwords (an account is its player), the      *)
(* answers sent, and lobbies and parties, which have modules of their own. *)
(***************************************************************************)
EXTENDS FiniteSets

CONSTANTS
  Players,     \* the accounts that may be created, by player id
  Conns,       \* connections that may exist at the same time
  Nobody,      \* player id 0 of a connection; no entry in a table
  RedisFails   \* whether calls to Redis may fail

ASSUME NobodyAssumption == Nobody \notin Players /\ Nobody \notin Conns
ASSUME RedisAssumption  == RedisFails \in BOOLEAN

VARIABLES
  accounts,      \* the rows of the table `users'
  socket,        \* per connection: "open"; "broken", when the peer is gone;
                 \* "ending", when its read loop is over but a write is
                 \* not; "closed", when both are over
  playerId,      \* the player each connection is logged in as
  connections,   \* connections_: the connection registered for each player
  presence,      \* the players Redis holds a presence for
  tokens,        \* the players for whom a valid token is about
  stale,         \* players whose presence was last left unset or not reset,
                 \* by a failing call or a restart (history)
  leftBehind,    \* players whose registered connection changed its player
                 \* (history)
  dropped        \* players unregistered while some connection carries them
                 \* (history)

serverVars == <<socket, playerId, connections>>

vars == <<accounts, socket, playerId, connections, presence, tokens,
          stale, leftBehind, dropped>>

\* The connections whose read loop goes on: packets of theirs are handled,
\* even after the peer is gone, if they were received before.
Reading == {c \in Conns : socket[c] \in {"open", "broken"}}

Carries(c, p) == c \in Reading /\ playerId[c] = p

Registered(p) == connections[p] # Nobody

Init ==
  /\ accounts = {}
  /\ socket = [c \in Conns |-> "closed"]
  /\ playerId = [c \in Conns |-> Nobody]
  /\ connections = [p \in Players |-> Nobody]
  /\ presence = {} /\ tokens = {}
  /\ stale = {} /\ leftBehind = {} /\ dropped = {}

-----------------------------------------------------------------------------
(* Connections.                                                            *)

\* A closed connection is gone, and may be reused here, once the session
\* table no longer keeps it.
Accept(c) ==
  /\ socket[c] = "closed"
  /\ \A p \in Players : connections[p] # c
  /\ socket' = [socket EXCEPT ![c] = "open"]
  /\ playerId' = [playerId EXCEPT ![c] = Nobody]
  /\ UNCHANGED <<accounts, connections, presence, tokens, stale, leftBehind, dropped>>

\* The peer is gone; the server has not noticed yet.
Break(c) ==
  /\ socket[c] = "open"
  /\ socket' = [socket EXCEPT ![c] = "broken"]
  /\ UNCHANGED <<accounts, playerId, connections, presence, tokens, stale, leftBehind, dropped>>

\* setPlayerPresence; an error is logged and ignored.
SetPresence(p, online) ==
  \/ /\ presence' = IF online THEN presence \cup {p} ELSE presence \ {p}
     /\ stale' = stale \ {p}
  \/ /\ RedisFails
     /\ stale' = stale \cup {p}
     /\ UNCHANGED presence

-----------------------------------------------------------------------------
(* Registration and login.                                                 *)

\* createUser refuses a name that is taken.
Register(c, p) ==
  /\ c \in Reading
  /\ p \notin accounts
  /\ accounts' = accounts \cup {p}
  /\ UNCHANGED <<serverVars, presence, tokens, stale, leftBehind, dropped>>

\* Faulty: the session table is left alone.
EnterUnregistered(c, p) ==
  /\ playerId' = [playerId EXCEPT ![c] = p]
  /\ SetPresence(p, TRUE)
  /\ UNCHANGED <<accounts, socket, connections, leftBehind, dropped>>

\* Faulty: only the first login of a player is registered.
EnterFirst(c, p) ==
  /\ playerId' = [playerId EXCEPT ![c] = p]
  /\ SetPresence(p, TRUE)
  /\ connections' = IF Registered(p) THEN connections ELSE [connections EXCEPT ![p] = c]
  /\ leftBehind' = (leftBehind \cup {q \in Players \ {p} : connections[q] = c}) \ {p}
  /\ dropped' = dropped \ {p}
  /\ UNCHANGED <<accounts, socket>>

\* The connection is given its player, the player is shown online, and the
\* connection registered, in place of an earlier one.  Nothing is undone for
\* a player the connection was logged in as before.
EnterSession(c, p) ==
  /\ playerId' = [playerId EXCEPT ![c] = p]
  /\ SetPresence(p, TRUE)
  /\ connections' = [connections EXCEPT ![p] = c]
  /\ leftBehind' = (leftBehind \cup {q \in Players : connections[q] = c}) \ {p}
  /\ dropped' = dropped \ {p}
  /\ UNCHANGED <<accounts, socket>>

\* With a password: a token is issued, and stored in Redis for nobody to
\* look at.
LoginPassword(c, p) ==
  /\ c \in Reading
  /\ p \in accounts
  /\ EnterSession(c, p)
  /\ tokens' = tokens \cup {p}

\* Faulty: what verifyToken says is ignored.
LoginAnyToken(c, p) ==
  /\ c \in Reading
  /\ EnterSession(c, IF p \in tokens THEN p ELSE Nobody)
  /\ UNCHANGED tokens

\* With a token: it is verified by its signature and date alone.
LoginToken(c, p) ==
  /\ c \in Reading
  /\ p \in tokens
  /\ EnterSession(c, p)
  /\ UNCHANGED tokens

\* A token that is never used again expires.
Expire(p) ==
  /\ p \in tokens
  /\ tokens' = tokens \ {p}
  /\ UNCHANGED <<accounts, serverVars, presence, stale, leftBehind, dropped>>

-----------------------------------------------------------------------------
(* The end of a connection.                                                *)

\* Faulty: presence is left as it is.
CleanUpSilently(c) ==
  LET p == playerId[c]
  IN  IF p = Nobody
      THEN UNCHANGED <<connections, presence, stale, dropped>>
      ELSE /\ connections' = [connections EXCEPT ![p] = Nobody]
           /\ dropped' = IF \E d \in Reading' : playerId[d] = p
                         THEN dropped \cup {p} ELSE dropped
           /\ UNCHANGED <<presence, stale>>

\* The disconnect handler: erases whatever connection is registered for the
\* player, and shows the player offline.
CleanUp(c) ==
  LET p == playerId[c]
  IN  IF p = Nobody
      THEN UNCHANGED <<connections, presence, stale, dropped>>
      ELSE /\ connections' = [connections EXCEPT ![p] = Nobody]
           /\ SetPresence(p, FALSE)
           /\ dropped' = IF \E d \in Reading' : playerId[d] = p
                         THEN dropped \cup {p} ELSE dropped

\* Faulty: only the socket is closed.
EndReadQuietly(c) ==
  /\ c \in Reading
  /\ socket' = [socket EXCEPT ![c] = "closed"]
  /\ UNCHANGED <<accounts, playerId, tokens, connections, presence, stale, leftBehind, dropped>>

\* The read loop ends, since the peer is gone or sent an oversized length.
EndRead(c) ==
  /\ c \in Reading
  /\ \E rest \in {"ending", "closed"} : socket' = [socket EXCEPT ![c] = rest]
  /\ CleanUp(c)
  /\ UNCHANGED <<accounts, playerId, tokens, leftBehind>>

\* A write fails, before the read loop ends or has handled all it received,
\* or after it.  The handler runs for whoever the connection's player is.
FailWrite(c) ==
  /\ socket[c] \in {"broken", "ending"}
  /\ socket' = [socket EXCEPT ![c] = IF @ = "ending" THEN "closed" ELSE @]
  /\ CleanUp(c)
  /\ UNCHANGED <<accounts, playerId, tokens, leftBehind>>

\* The server crashes, or is stopped by a signal, and is started again.
Restart ==
  /\ socket' = [c \in Conns |-> "closed"]
  /\ playerId' = [c \in Conns |-> Nobody]
  /\ connections' = [p \in Players |-> Nobody]
  /\ stale' = stale \cup presence
  /\ leftBehind' = {} /\ dropped' = {}
  /\ UNCHANGED <<accounts, presence, tokens>>

Next ==
  \/ \E c \in Conns :
       \/ Accept(c)
       \/ Break(c)
       \/ \E p \in Players : Register(c, p) \/ LoginPassword(c, p) \/ LoginToken(c, p)
       \/ EndRead(c)
       \/ FailWrite(c)
  \/ \E p \in Players : Expire(p)
  \/ Restart

Spec == Init /\ [][Next]_vars

-----------------------------------------------------------------------------
(* Properties.                                                             *)

\* The variables keep their types, and only accounts log in or hold tokens.
TypeOK ==
  /\ accounts \subseteq Players
  /\ socket \in [Conns -> {"open", "broken", "ending", "closed"}]
  /\ playerId \in [Conns -> accounts \cup {Nobody}]
  /\ connections \in [Players -> Conns \cup {Nobody}]
  /\ presence \subseteq accounts
  /\ tokens \subseteq accounts
  /\ stale \cup leftBehind \cup dropped \subseteq Players

\* The two stores that say who is online, Redis and the session table, agree
\* on every player, except where a call to Redis failed or the server was
\* restarted since the player last came or went: presence has no expiry.
PresenceFresh ==
  \A p \in Players \ stale : p \in presence <=> Registered(p)

\* What is sent to a player goes to a connection that carries this player
\* and whose end will still be noticed; unless the connection has logged in
\* as somebody else since, when it goes there, or nowhere.
Delivered ==
  \A p \in Players : Registered(p) /\ p \notin leftBehind => Carries(connections[p], p)

\* A player that some connection carries can be reached, unless another
\* connection of the player ended late, or a failed write came before the
\* end of the read loop, and took the new session along.
Reachable ==
  \A p \in Players \ dropped : (\E c \in Conns : Carries(c, p)) => Registered(p)

\* Seen from the modules that know connections only by the players they
\* carry, sessions come and go as those modules assume: the party manager of
\* a server nobody forms a party on.  A restart is the exception: it is the
\* initial state of those modules.
NoParty == "none"

PM == INSTANCE PartyManager WITH
        PartyIds      <- {},
        Relogins      <- Players,
        Switches      <- Players,
        parties       <- [id \in {} |-> NoParty],
        playerToParty <- [p \in Players |-> NoParty],
        view          <- [p \in Players |-> NoParty],
        sessions      <- {p \in Players : Registered(p)},
        logged        <- {p \in Players : \E c \in Conns : Carries(c, p)},
        up            <- TRUE,
        collided      <- FALSE

ImplementsSessions == PM!Init /\ [][PM!Next \/ Restart]_(PM!vars)

=============================================================================
