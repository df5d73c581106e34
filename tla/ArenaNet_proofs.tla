-------------------------- MODULE ArenaNet_proofs ---------------------------
(* The composed server implements the matchmaker seen alone.               *)
EXTENDS ArenaNet, PartyManager_proofs

mmVars == <<entries, sessions, replying, waiting, missed, pc, lag, batch, pending>>

\* Seen by the party manager, every step of the server is one of its own or
\* leaves it alone.
LEMMA PartyManagerStep == [ArenaNext]_allVars => [Next]_vars
<1> SUFFICES ASSUME ArenaNext PROVE [Next]_vars
  BY DEF allVars
<1>1. ASSUME NEW p \in Players, PartyStep(p) PROVE [Next]_vars
  BY <1>1 DEF PartyStep, Next
<1>2. ASSUME NEW p \in Players, NEW o, NEW r, NEW d, JoinQueue(p, o, r, d) PROVE [Next]_vars
  BY <1>2 DEF JoinQueue
<1>3. ASSUME NEW p \in Players, LeaveQueue(p) PROVE [Next]_vars
  BY <1>3 DEF LeaveQueue
<1>4. ASSUME NEW p \in Players, NEW goesOn \in BOOLEAN, Disconnect(p, goesOn)
      PROVE  [Next]_vars
  BY <1>4 DEF Disconnect, Next
<1>5. ASSUME MatchmakerStep \/ Reply PROVE [Next]_vars
  BY <1>5 DEF MatchmakerStep, Reply
<1> QED BY <1>1, <1>2, <1>3, <1>4, <1>5 DEF ArenaNext

\* The invariant of the party manager holds of the composition, whatever the queue does.
THEOREM ArenaInvariance == ArenaSpec => []IInv
<1>1. ArenaInit => Init
  BY DEF ArenaInit
<1> QED BY <1>1, InitIInv, NextIInv, PartyManagerStep, PTL DEF ArenaSpec

\* While a match is searched and announced, and however its teams come to be
\* queued, every member of a party whose connections stay with their player is
\* on one that is still read.
THEOREM ArenaMembersOnline == ArenaSpec => []MembersOnline
<1>1. IInv => MembersOnline
  BY DEF IInv
<1> QED BY <1>1, ArenaInvariance, PTL

\* Neither the queue nor the matchmaker thread lets a member miss a change of
\* its party.
THEOREM ArenaViewInSync == ArenaSpec => []ViewInSync
<1>1. ArenaInit => ViewInSync
  BY DEF ArenaInit, Init, ViewInSync
<1>2. IInv /\ ViewInSync /\ [ArenaNext]_allVars => ViewInSync'
  BY PartyManagerStep, NextInSync
<1> QED BY <1>1, <1>2, ArenaInvariance, PTL DEF ArenaSpec

-----------------------------------------------------------------------------

\* The players a request queues are its sender and others, each filed under
\* the party of the sender.
LEMMA TeamFiled ==
  ASSUME IInv, NEW p \in Players,
         getPartyOfPlayer(p) # NoParty => getPartyOfPlayer(p).leaderId = p
  PROVE  LET party == getPartyOfPlayer(p)
             team  == IF party = NoParty THEN {p} ELSE Range(party.members)
         IN  /\ p \in team /\ team \subseteq Players
             /\ \A q \in team : q = p \/ InParty(q)
<1>1. CASE getPartyOfPlayer(p) = NoParty
  BY <1>1
<1>2. CASE getPartyOfPlayer(p) # NoParty
  <2> DEFINE id == playerToParty[p]
  <2>1. getPartyOfPlayer(p) = parties[id] /\ id \in PartyIds /\ id \in Live
    BY <1>2 DEF getPartyOfPlayer, InParty, PartyOf, IInv, TypeOK, Live
  <2>2. PartySound(id) /\ parties[id] \in Party
    BY <2>1 DEF IInv, Membership, TypeOK, Live
  <2>3. parties[id].members \in Seq(Players)
    BY <2>2 DEF Party
  <2>4. p \in Range(parties[id].members)
    <3>1. parties[id].members # << >> /\ parties[id].members[1] = p
      BY <1>2, <2>1, <2>2 DEF PartySound
    <3> QED BY <2>3, <3>1 DEF Range
  <2>5. Range(parties[id].members) \subseteq Players
    BY <2>3 DEF Range
  <2>6. \A q \in Range(parties[id].members) : InParty(q)
    BY <2>1, <2>2, NoPartyAssumption DEF PartySound, InParty
  <2> QED BY <1>2, <2>1, <2>4, <2>5, <2>6
<1> QED BY <1>1, <1>2

\* A request that passes the leader check is one of the matchmaker.
LEMMA JoinQueueRefines ==
  ASSUME IInv, NEW p \in Players, NEW o \in Opponents, NEW r \in Ratings,
         NEW d \in 0..MaxLag, JoinQueue(p, o, r, d)
  PROVE  MM!Next
<1> DEFINE party == getPartyOfPlayer(p)
           team  == IF party = NoParty THEN {p} ELSE Range(party.members)
<1>1. /\ MM!Idle
      /\ party # NoParty => party.leaderId = p
      /\ MM!Enqueue(p, team, o, r, d)
      /\ UNCHANGED <<sessions, pc, lag, batch, pending>>
  BY DEF JoinQueue, vars, threadVars
<1>2. p \in team /\ team \subseteq Players
  BY <1>1, TeamFiled
<1> HIDE DEF team
<1>3. MM!JoinQueue(p, team, o, r, d)
  BY <1>1, <1>2 DEF MM!JoinQueue, MM!threadVars
<1>4. team \in (SUBSET Players) \ {{}}
  BY <1>2
<1> QED BY <1>3, <1>4 DEF MM!Asks, MM!Next

\* Of a step of the parties the matchmaker sees the session, if anything.
LEMMA PartyStepRefines ==
  ASSUME NEW p \in Players, PartyStep(p)
  PROVE  [MM!Next]_mmVars
<1>1. MM!Idle /\ UNCHANGED <<entries, replying, waiting, missed, pc, lag, batch, pending>>
  BY DEF PartyStep, queueVars, threadVars
<1>2. CASE Login(p)
  <2>1. MM!Login(p)
    BY <1>1, <1>2 DEF Login, MM!Login, MM!threadVars
  <2> QED BY <2>1 DEF MM!Next
<1>3. ASSUME NEW q \in Players, SwitchAccount(p, q) PROVE MM!Next
  <2>1. MM!Login(q)
    BY <1>1, <1>3 DEF SwitchAccount, MM!Login, MM!threadVars
  <2> QED BY <2>1 DEF MM!Next
<1>4. CASE handlePacket(p)
  <2>1. UNCHANGED sessions
    BY <1>4 DEF handlePacket, CreateParty, PartyAccept, PartyInvite, LeaveParty
  <2> QED BY <1>1, <2>1 DEF mmVars
<1> QED BY <1>2, <1>3, <1>4 DEF PartyStep, handleLogin

\* Every step is one of the matchmaker or leaves it alone.
LEMMA MatchmakerRefines ==
  ASSUME IInv, [ArenaNext]_allVars
  PROVE  [MM!Next]_mmVars
<1> SUFFICES ASSUME ArenaNext PROVE [MM!Next]_mmVars
  BY DEF allVars, vars, mmVars
<1>1. ASSUME NEW p \in Players, LeaveQueue(p) PROVE MM!Next
  <2>1. MM!LeaveQueue(p)
    BY <1>1 DEF LeaveQueue, vars, threadVars, MM!LeaveQueue, MM!threadVars
  <2> QED BY <2>1 DEF MM!Next
<1>2. ASSUME NEW p \in Players, NEW goesOn \in BOOLEAN, Disconnect(p, goesOn)
      PROVE  MM!Next
  <2>1. MM!PlayerDisconnect(p)
    BY <1>2 DEF Disconnect, PlayerDisconnect, threadVars,
                MM!PlayerDisconnect, MM!threadVars
  <2> QED BY <2>1 DEF MM!Next
<1>3. ASSUME MatchmakerStep \/ Reply PROVE MM!Next
  BY <1>3 DEF MatchmakerStep, Reply, MM!Next
<1> QED BY <1>1, <1>2, <1>3, JoinQueueRefines, PartyStepRefines DEF ArenaNext

\* The composed server implements the matchmaker seen alone, however
\* connections overlap, change their player or fail, and whether or not ids
\* of parties collide.
THEOREM ImplementsMatchmakerHolds == ArenaSpec => ImplementsMatchmaker
<1>1. ArenaInit => MM!Init
  BY DEF ArenaInit
<1>2. IInv /\ [ArenaNext]_allVars => [MM!Next]_mmVars
  BY MatchmakerRefines
<1>3. ArenaSpec => MM!Init /\ [][MM!Next]_mmVars
  BY <1>1, <1>2, ArenaInvariance, PTL DEF ArenaSpec
<1> QED BY <1>3 DEF ImplementsMatchmaker, MM!Spec, MM!vars, mmVars

-----------------------------------------------------------------------------
(* Queued teams.  That entries are records that name their members is what *)
(* a tick, which ages them, needs to keep.                                 *)

Named == \A e \in entries : "members" \in DOMAIN e

\* Whatever is queued names its members.
LEMMA NamedStep ==
  ASSUME Named, [ArenaNext]_allVars
  PROVE  Named'
<1> SUFFICES ASSUME ArenaNext PROVE Named'
  BY DEF Named, allVars
<1>1. ASSUME entries' \subseteq entries PROVE Named'
  BY <1>1 DEF Named
<1>2. ASSUME NEW p \in Players, NEW o \in Opponents, NEW r \in Ratings,
             NEW d \in 0..MaxLag, JoinQueue(p, o, r, d)
      PROVE  Named'
  <2>1. PICK new : "members" \in DOMAIN new /\ entries' = MM!Added(entries, new)
    BY <1>2 DEF JoinQueue, MM!Enqueue
  <2> QED BY <2>1 DEF Named, MM!Added, MM!Removed
<1>3. ASSUME NEW p \in Players,
             LeaveQueue(p) \/ \E goesOn \in BOOLEAN : Disconnect(p, goesOn)
      PROVE  Named'
  BY <1>1, <1>3 DEF LeaveQueue, Disconnect, MM!Dequeue, MM!Removed
<1>4. ASSUME NEW p \in Players, PartyStep(p) PROVE Named'
  BY <1>1, <1>4 DEF PartyStep, queueVars
<1>5. ASSUME MM!Thread \/ MM!Reply PROVE Named'
  BY <1>1, <1>5 DEF MM!Thread, MM!Reply, MM!ReadClock, MM!FindMatch, MM!Notify
<1>6. ASSUME MM!Tick PROVE Named'
  BY <1>6 DEF MM!Tick, Named
<1> QED BY <1>2, <1>3, <1>4, <1>5, <1>6 DEF ArenaNext, MatchmakerStep, Reply

\* The members of a party that queues are on connections that are read, and
\* the end of the last connection of one of them takes the entry out.
LEMMA QueuedOnlineStep ==
  ASSUME IInv, Named, QueuedOnline, [ArenaNext]_allVars
  PROVE  QueuedOnline'
<1> SUFFICES ASSUME ArenaNext, up' PROVE MM!MembersOf(entries') \ Switches \subseteq logged'
  BY DEF QueuedOnline, MM!MembersOf, allVars, vars
<1>1. ASSUME NEW p \in Players, NEW o \in Opponents, NEW r \in Ratings,
             NEW d \in 0..MaxLag, JoinQueue(p, o, r, d)
      PROVE  MM!MembersOf(entries') \ Switches \subseteq logged'
  <2> DEFINE party == getPartyOfPlayer(p)
             team  == IF party = NoParty THEN {p} ELSE Range(party.members)
  <2>1. /\ up /\ p \in logged /\ logged' = logged
        /\ party # NoParty => party.leaderId = p
        /\ MM!Enqueue(p, team, o, r, d)
    BY <1>1 DEF JoinQueue, vars
  <2>2. \A q \in team : (q = p \/ InParty(q)) /\ q \in Players
    BY <2>1, TeamFiled
  <2>3. team \ Switches \subseteq logged
    BY <2>1, <2>2 DEF IInv, MembersOnline
  <2> HIDE DEF team
  <2>4. PICK new : new.members = team /\ entries' = MM!Added(entries, new)
    BY <2>1 DEF MM!Enqueue
  <2>5. entries' \subseteq entries \cup {new}
    BY <2>4 DEF MM!Added, MM!Removed
  <2> QED BY <2>1, <2>3, <2>4, <2>5 DEF QueuedOnline, MM!MembersOf
<1>2. ASSUME NEW p \in Players, LeaveQueue(p)
      PROVE  MM!MembersOf(entries') \ Switches \subseteq logged'
  <2>1. up /\ logged' = logged /\ entries' \subseteq entries
    BY <1>2 DEF LeaveQueue, MM!Dequeue, MM!Removed, vars
  <2> QED BY <2>1 DEF QueuedOnline, MM!MembersOf
<1>3. ASSUME NEW p \in Players, NEW goesOn \in BOOLEAN, Disconnect(p, goesOn)
      PROVE  MM!MembersOf(entries') \ Switches \subseteq logged'
  <2>1. /\ up /\ logged \ {p} \subseteq logged'
        /\ entries' = {e \in entries : e.members \cap {p} = {}}
    BY <1>3 DEF Disconnect, PlayerDisconnect, MM!Dequeue, MM!Removed
  <2>2. MM!MembersOf(entries') \subseteq MM!MembersOf(entries) \ {p}
    BY <2>1 DEF MM!MembersOf
  <2> QED BY <2>1, <2>2 DEF QueuedOnline
<1>4. ASSUME NEW p \in Players, PartyStep(p)
      PROVE  MM!MembersOf(entries') \ Switches \subseteq logged'
  <2>1. up /\ logged \ Switches \subseteq logged' /\ entries' = entries
    BY <1>4 DEF PartyStep, queueVars, handlePacket, handleLogin, CreateParty, PartyAccept,
                PartyInvite, LeaveParty, Login, SwitchAccount
  <2> QED BY <2>1 DEF QueuedOnline, MM!MembersOf
<1>5. ASSUME MatchmakerStep \/ Reply PROVE MM!MembersOf(entries') \ Switches \subseteq logged'
  <2>1. up /\ logged' = logged
    BY <1>5 DEF MatchmakerStep, Reply, vars
  <2>2. CASE entries' \subseteq entries
    BY <2>1, <2>2 DEF QueuedOnline, MM!MembersOf
  <2>3. CASE MM!Tick
    <3> DEFINE Older(e) == [e EXCEPT !.waited = IF @ < MM!MaxWait THEN @ + 1 ELSE @]
    <3>1. entries' = {Older(e) : e \in entries}
      BY <2>3 DEF MM!Tick
    <3>2. \A e \in entries : Older(e).members = e.members
      BY DEF Named
    <3> HIDE DEF Older
    <3>3. MM!MembersOf(entries') = MM!MembersOf(entries)
      BY <3>1, <3>2 DEF MM!MembersOf
    <3> QED BY <2>1, <3>3 DEF QueuedOnline
  <2> QED BY <1>5, <2>2, <2>3 DEF MatchmakerStep, Reply, MM!Thread, MM!Reply,
             MM!ReadClock, MM!FindMatch, MM!Notify
<1> QED BY <1>1, <1>2, <1>3, <1>4, <1>5 DEF ArenaNext

\* No team stays queued beyond the end of the last connection of a member
\* whose connections stay with it, whatever became of the party it was queued
\* as, of the sessions and of the ids of parties.
THEOREM QueuedOnlineHolds == ArenaSpec => []QueuedOnline
<1>1. ArenaInit => Named /\ QueuedOnline
  BY DEF ArenaInit, MM!Init, Named, QueuedOnline, MM!MembersOf
<1>2. IInv /\ Named /\ QueuedOnline /\ [ArenaNext]_allVars => Named' /\ QueuedOnline'
  BY NamedStep, QueuedOnlineStep
<1> QED BY <1>1, <1>2, ArenaInvariance, PTL DEF ArenaSpec

=============================================================================
