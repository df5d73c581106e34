------------------------------ MODULE ArenaNet ------------------------------
(***************************************************************************)
(* The party manager and the matchmaker over one session table, put        *)
(* together the way src/main.cpp does: a request to queue reads the party  *)
(* of its sender, and the end of a connection takes the player out of the  *)
(* queue, then out of the session table, then out of its party.  These are *)
(* one step here: of all that they change, the matchmaker thread reads the *)
(* queue and then, for a player it took out of it, the session table, so   *)
(* what it does in between it may as well do before or after.              *)
(***************************************************************************)
EXTENDS PartyManager

CONSTANTS MatchSize, QueueTimeout, BaseTolerance, ExpansionPeriod,
          ExpansionRate, AnySize, Ratings, Opponents, Nobody, MaxLag

VARIABLES entries, replying, waiting, missed, pc, lag, batch, pending

\* Any players may come to be queued together.
MM == INSTANCE Matchmaker WITH Teams <- (SUBSET Players) \ {{}}

allVars == <<vars, entries, replying, waiting, missed, pc, lag, batch, pending>>

queueVars == <<entries, replying, waiting, missed>>

threadVars == <<pc, lag, batch, pending>>

ArenaInit == Init /\ MM!Init

-----------------------------------------------------------------------------

\* PartyManager::getPartyOfPlayer.
getPartyOfPlayer(p) == IF InParty(p) THEN PartyOf(p) ELSE NoParty

\* Matchmaker::handleJoinQueue: the members of the party are copied; a
\* member that does not lead it gets an error and nothing changes.
JoinQueue(p, opponents, rating, delay) ==
  LET party == getPartyOfPlayer(p)
      team  == IF party = NoParty THEN {p} ELSE Range(party.members)
  IN  /\ up /\ MM!Idle /\ p \in logged
      /\ party # NoParty => party.leaderId = p
      /\ MM!Enqueue(p, team, opponents, rating, delay)
      /\ UNCHANGED <<vars, threadVars>>

Reply ==
  /\ up
  /\ MM!Reply
  /\ UNCHANGED vars

LeaveQueue(p) ==
  /\ up /\ MM!Idle /\ p \in logged
  /\ MM!Dequeue(p)
  /\ UNCHANGED <<vars, threadVars>>

\* Faulty: the queue is not told.
DisconnectQueued(p, goesOn) ==
  /\ MM!Idle
  /\ PlayerDisconnect(p, goesOn)
  /\ UNCHANGED <<queueVars, threadVars>>

\* The disconnect handler of main.cpp.
Disconnect(p, goesOn) ==
  /\ MM!Idle
  /\ MM!Dequeue(p)
  /\ PlayerDisconnect(p, goesOn)
  /\ UNCHANGED threadVars

\* Packets and logins that leave the matchmaker alone.
PartyStep(p) ==
  /\ MM!Idle
  /\ handlePacket(p) \/ handleLogin(p)
  /\ UNCHANGED <<queueVars, threadVars>>

MatchmakerStep ==
  /\ up
  /\ MM!Thread \/ MM!Tick
  /\ UNCHANGED vars

ArenaNext ==
  \/ \E p \in Players :
       \/ PartyStep(p)
       \/ \E opponents \in Opponents, rating \in Ratings, delay \in 0..MaxLag :
            JoinQueue(p, opponents, rating, delay)
       \/ LeaveQueue(p)
       \/ \E goesOn \in BOOLEAN : Disconnect(p, goesOn)
  \/ Reply
  \/ MatchmakerStep

ArenaSpec == ArenaInit /\ [][ArenaNext]_allVars

-----------------------------------------------------------------------------
(* Properties.                                                             *)

\* The server as a whole implements the matchmaker seen alone: whatever
\* became of a party by the time it queues, the request adds one entry, of
\* its sender among others, and nothing but leaving, a disconnect or the
\* thread takes it out again.
ImplementsMatchmaker == MM!Spec

\* As long as the server runs, every member of a queued team whose
\* connections stay with their player is on one that is still read, at whose
\* end the entry is taken out: no team, not even one whose party has changed
\* or is gone since, waits for such a player when it cannot come back.
QueuedOnline == up => MM!MembersOf(entries) \ Switches \subseteq logged

=============================================================================
