---------------------------- MODULE PartyManager ----------------------------
(***************************************************************************)
(* The parties of the server: src/party/PartyManager.cpp together with     *)
(* what its handlers see of the session table (network/SessionManager.h)   *)
(* and the part of the disconnect handler of main.cpp that reaches them.   *)
(*                                                                         *)
(* Every handler runs on the only thread of the io_context and holds the   *)
(* mutex of the manager, so one call of a handler is one action.           *)
(*                                                                         *)
(* Left out: the text of packets, logging, and the identity of             *)
(* connections.  A player is `logged' when some connection that is still   *)
(* read carries its id, so that packets of it are handled, and in          *)
(* `sessions' when the session table has a connection for it.  The two     *)
(* differ after a write has failed, when connections of one player overlap *)
(* (Relogins) and when a connection changes its player (Switches).         *)
(***************************************************************************)
EXTENDS Integers, SequencesExt

CONSTANTS
  Players,        \* the accounts
  PartyIds,       \* the ids generatePartyId can draw
  NoParty,        \* "no entry": a missing key, a null party, an empty update
  Relogins,       \* who may log in while another connection carries them
  Switches        \* whose connections may log in as somebody else

Party == [id : PartyIds, leaderId : Players, members : Seq(Players)]

ASSUME NoPartyAssumption  == NoParty \notin PartyIds /\ NoParty \notin Party
ASSUME CarelessAssumption == Relogins \subseteq Players /\ Switches \subseteq Players

VARIABLES
  parties,        \* parties_: the Party behind each id, NoParty if none
  playerToParty,  \* playerToParty_: the id each player is filed under
  sessions,       \* the players SessionManager has a connection for
  logged,         \* the players some connection that is read is logged in as
  view,           \* the last PARTY_STATE_UPDATE sent to each player
  up,             \* FALSE once a handler has dereferenced a null party
  collided        \* TRUE once a party was given an id in use (history)

vars == <<parties, playerToParty, sessions, logged, view, up, collided>>

Live == {id \in PartyIds : parties[id] # NoParty}

Members(id) == Range(parties[id].members)

InParty(p) == playerToParty[p] # NoParty

PartyOf(p) == parties[playerToParty[p]]

Init ==
  /\ parties = [id \in PartyIds |-> NoParty]
  /\ playerToParty = [p \in Players |-> NoParty]
  /\ sessions = {}
  /\ logged = {}
  /\ view = [p \in Players |-> NoParty]
  /\ up = TRUE
  /\ collided = FALSE

-----------------------------------------------------------------------------
(* What the handlers are made of.                                          *)

\* The ids not in use.  generatePartyId draws one of PartyIds without looking.
Fresh == {id \in PartyIds \ Live : \A p \in Players : playerToParty[p] # id}

\* Faulty: the last member is erased, whoever leaves.
ErasePopsBack(members, p) == Front(members)

\* std::find and erase on the vector of members.
Erase(members, p) == RemoveFirst(members, p)

\* Faulty: the leader is given the id of the party.
WithoutWrongId(party, p) ==
  [party EXCEPT !.members  = Erase(@, p),
                !.leaderId = IF @ = p THEN party.id ELSE @]

\* Faulty: a leader that leaves is not replaced.
WithoutSuccessor(party, p) == [party EXCEPT !.members = Erase(@, p)]

\* Faulty: the latest member succeeds.
WithoutNewest(party, p) ==
  [party EXCEPT !.members  = Erase(@, p),
                !.leaderId = IF @ = p THEN Last(Erase(party.members, p)) ELSE @]

\* The party p leaves behind, when somebody is left in it.
Without(party, p) ==
  LET rest == Erase(party.members, p)
  IN  [party EXCEPT !.members  = rest,
                    !.leaderId = IF @ = p THEN rest[1] ELSE @]

\* Faulty: the leader is skipped.
SentToFollowers(update, to, registered) ==
  [p \in Players |->
     IF p \in to \cap registered /\ p # update.leaderId THEN update ELSE view[p]]

\* The views once `update' went to those of `to' that `registered' has.
Sent(update, to, registered) ==
  [p \in Players |-> IF p \in to \cap registered THEN update ELSE view[p]]

\* Faulty: a party goes with its leader, the members stay filed under it.
DepartDisbands(p, registered, seen) ==
  LET id   == playerToParty[p]
      gone == parties[id].leaderId = p
      rest == Without(parties[id], p)
  IN  /\ playerToParty' = [playerToParty EXCEPT ![p] = NoParty]
      /\ parties' = [parties EXCEPT ![id] = IF gone THEN NoParty ELSE rest]
      /\ view' = [view EXCEPT ![p] = seen]
      /\ up' = up

\* p is taken out of its party: erased from the members, the party dropped
\* when empty, otherwise given a leader and sent to the members left.
\* `seen' is the view of p itself.
Depart(p, registered, seen) ==
  LET id   == playerToParty[p]
      rest == Without(parties[id], p)
      last == Erase(parties[id].members, p) = << >>
  IN  /\ playerToParty' = [playerToParty EXCEPT ![p] = NoParty]
      /\ parties' = [parties EXCEPT ![id] = IF last THEN NoParty ELSE rest]
      /\ view' = [Sent(rest, IF last THEN {} ELSE Range(rest.members), registered)
                    EXCEPT ![p] = seen]
      /\ up' = up

\* parties_[partyId] found no party and the null pointer is used.
Crash ==
  /\ up' = FALSE
  /\ UNCHANGED <<parties, playerToParty, view>>

-----------------------------------------------------------------------------
(* Packets.                                                                *)

CreateParty(p, id) ==
  LET party == [id |-> id, leaderId |-> p, members |-> <<p>>]
  IN  /\ up /\ p \in logged
      /\ ~InParty(p)
      /\ parties' = [parties EXCEPT ![id] = party]
      /\ playerToParty' = [playerToParty EXCEPT ![p] = id]
      /\ view' = [view EXCEPT ![p] = party]
      /\ collided' = (collided \/ id \notin Fresh)
      /\ UNCHANGED <<sessions, logged, up>>

\* An invitation only forwards a notification: what is left of it is that
\* it uses the leader of a party that may be null.
PartyInvite(p) ==
  /\ up /\ p \in logged
  /\ InParty(p)
  /\ PartyOf(p) = NoParty
  /\ Crash
  /\ UNCHANGED <<sessions, logged, collided>>

PartyAccept(p, id) ==
  LET joined == [parties[id] EXCEPT !.members = Append(@, p)]
  IN  /\ up /\ p \in logged
      /\ ~InParty(p)
      /\ parties[id] # NoParty
      /\ parties' = [parties EXCEPT ![id] = joined]
      /\ playerToParty' = [playerToParty EXCEPT ![p] = id]
      /\ view' = Sent(joined, Range(joined.members), sessions)
      /\ UNCHANGED <<sessions, logged, up, collided>>

LeaveParty(p) ==
  /\ up /\ p \in logged
  /\ InParty(p)
  /\ IF PartyOf(p) = NoParty
     THEN Crash
     ELSE Depart(p, sessions, NoParty)
  /\ UNCHANGED <<sessions, logged, collided>>

-----------------------------------------------------------------------------
(* Sessions.                                                               *)

\* A login registers the connection; the client starts with an empty view.
Login(p) ==
  /\ up
  /\ p \in logged => p \in Relogins
  /\ sessions' = sessions \cup {p}
  /\ logged' = logged \cup {p}
  /\ view' = [view EXCEPT ![p] = NoParty]
  /\ UNCHANGED <<parties, playerToParty, up, collided>>

\* A connection of p logs in as q; nothing is undone for p.
SwitchAccount(p, q) ==
  /\ up /\ p \in Switches
  /\ p \in logged /\ p # q
  /\ q \in logged => q \in Relogins
  /\ sessions' = sessions \cup {q}
  /\ logged' = (logged \ {p}) \cup {q}
  /\ view' = [view EXCEPT ![q] = NoParty]
  /\ UNCHANGED <<parties, playerToParty, up, collided>>

\* Faulty: the party manager is not told.
PlayerDisconnectUnnoticed(p, goesOn) ==
  /\ up
  /\ goesOn => p \in logged
  /\ sessions' = sessions \ {p}
  /\ logged' = IF goesOn THEN logged ELSE logged \ {p}
  /\ UNCHANGED <<parties, playerToParty, view, up, collided>>

\* The disconnect handler runs for a connection of p: the session goes
\* first, then the party.  `goesOn' says that p stays logged: on the same
\* connection, when a write failed before the end of its reads, or on a
\* second one; either is sent nothing any more.  It runs as often as reads
\* and writes fail, at last maybe for a player who is not logged.
PlayerDisconnect(p, goesOn) ==
  LET seen == IF goesOn THEN view[p] ELSE NoParty
  IN  /\ up
      /\ goesOn => p \in logged
      /\ sessions' = sessions \ {p}
      /\ logged' = IF goesOn THEN logged ELSE logged \ {p}
      /\ collided' = collided
      /\ IF ~InParty(p)
         THEN /\ view' = [view EXCEPT ![p] = seen]
              /\ UNCHANGED <<parties, playerToParty, up>>
         ELSE IF PartyOf(p) = NoParty
              THEN Crash
              ELSE Depart(p, sessions', seen)

handlePacket(p) ==
  \/ \E id \in PartyIds : CreateParty(p, id) \/ PartyAccept(p, id)
  \/ PartyInvite(p)
  \/ LeaveParty(p)

handleLogin(p) == Login(p) \/ \E q \in Players : SwitchAccount(p, q)

Next ==
  \E p \in Players :
    \/ handlePacket(p)
    \/ handleLogin(p)
    \/ \E goesOn \in BOOLEAN : PlayerDisconnect(p, goesOn)

Spec == Init /\ [][Next]_vars

-----------------------------------------------------------------------------
(* Properties.                                                             *)

\* The variables keep their types.
TypeOK ==
  /\ parties \in [PartyIds -> Party \cup {NoParty}]
  /\ playerToParty \in [Players -> PartyIds \cup {NoParty}]
  /\ sessions \subseteq Players
  /\ logged \subseteq Players
  /\ view \in [Players -> Party \cup {NoParty}]
  /\ up \in BOOLEAN
  /\ collided \in BOOLEAN

\* A live party is never empty, names nobody twice, is led by its longest
\* standing member (members[0] of the code), and every member is filed under
\* it: parties_ and playerToParty_ agree in this direction whatever ids are
\* drawn and however sessions overlap.
PartySound(id) ==
  LET party == parties[id]
  IN  /\ party.members # << >>
      /\ IsInjective(party.members)
      /\ party.leaderId = party.members[1]
      /\ \A p \in Range(party.members) : playerToParty[p] = id

Membership == \A id \in Live : PartySound(id)

\* The other direction, which the handlers rely on when they dereference
\* parties_[partyId] unchecked: unless ids collided, a filed player is a
\* member of a live party.
AllFiled == \A p \in Players : InParty(p) => /\ PartyOf(p) # NoParty
                                             /\ p \in Members(playerToParty[p])

Filed == ~collided => AllFiled

\* Unless ids collided, no handler ever uses a null party: of all that the
\* handlers do with parties_, nothing brings the server down.
Survives == ~collided => up

\* As long as the server runs, every member of a party whose connections
\* stay with their player is on one that is still read, at whose end it will
\* be taken out: it is not left behind as a member, or as a leader whom
\* nobody can replace, however connections overlap, however often and late
\* their writes fail, and whatever others do.  (A member may have no session:
\* after a failed write a player can still create or join a party.)
MembersOnline == up => \A p \in Players \ Switches : InParty(p) => p \in logged

\* Who logs in on one connection at a time, and stays with it: whatever the
\* order of joins, leaves, failed writes and disconnects, its own and those
\* of players who do not keep to that, the last update it was sent is the
\* present state of its party, unless ids collided.
ViewInSync ==
  ~collided =>
    \A p \in sessions \ (Relogins \cup Switches) :
      view[p] = IF InParty(p) THEN PartyOf(p) ELSE NoParty

\* Unless ids collide, a party changes leader only when the leader is gone,
\* and then to the member who joined next; nobody overtakes an older member.
Successor(old, new) ==
  \/ new.leaderId = old.leaderId
  \/ /\ old.leaderId \notin Range(new.members)
     /\ new.leaderId = old.members[2]

Succession ==
  [][~collided' => \A id \in Live \cap Live' : Successor(parties[id], parties'[id])]_vars

=============================================================================
