------------------------ MODULE PartyManager_proofs -------------------------
(* Proofs about PartyManager.                                              *)
EXTENDS PartyManager, MemberLists, TLAPS

-----------------------------------------------------------------------------
(* The vector operations of the handlers on a party without duplicates.    *)

\* std::find and erase on the members of a party.
LEMMA EraseProperties ==
  ASSUME NEW s \in Seq(Players), IsInjective(s), NEW p
  PROVE  /\ Erase(s, p) \in Seq(Players)
         /\ IsInjective(Erase(s, p))
         /\ Range(Erase(s, p)) = Range(s) \ {p}
         /\ (s # << >> /\ s[1] # p) => /\ Erase(s, p) # << >>
                                       /\ Erase(s, p)[1] = s[1]
         /\ (Erase(s, p) # << >> /\ s[1] = p) => Erase(s, p)[1] = s[2]
  BY RemoveFirstProperties DEF Erase

\* The party p leaves behind is led by its longest standing member.
LEMMA WithoutProperties ==
  ASSUME NEW party \in Party, NEW p \in Players,
         IsInjective(party.members), party.members # << >>,
         party.leaderId = party.members[1],
         Erase(party.members, p) # << >>
  PROVE  LET rest == Without(party, p)
         IN  /\ rest \in Party
             /\ rest.id = party.id
             /\ rest.members = Erase(party.members, p)
             /\ IsInjective(rest.members)
             /\ Range(rest.members) = Range(party.members) \ {p}
             /\ rest.leaderId = rest.members[1]
             /\ rest.leaderId = IF party.leaderId = p THEN party.members[2]
                                ELSE party.leaderId
<1> DEFINE t == Erase(party.members, p)
           r == Without(party, p)
<1>1. party.members \in Seq(Players)
  BY DEF Party
<1>2. /\ t \in Seq(Players) /\ IsInjective(t)
      /\ Range(t) = Range(party.members) \ {p}
      /\ party.members[1] # p => t[1] = party.members[1]
      /\ party.members[1] = p => t[1] = party.members[2]
  BY <1>1, EraseProperties
<1>3. t[1] \in Players
  BY <1>2
<1>4. /\ r \in Party
      /\ r.id = party.id
      /\ r.members = t
      /\ r.leaderId = IF party.leaderId = p THEN t[1] ELSE party.leaderId
  <2> HIDE DEF t
  <2>1. r = [party EXCEPT !.members = t,
                          !.leaderId = IF @ = p THEN t[1] ELSE @]
    BY DEF Without, t
  <2> HIDE DEF r
  <2> QED BY <2>1, <1>2, <1>3 DEF Party
<1>5. r.leaderId = t[1]
  BY <1>2, <1>4
<1> QED BY <1>2, <1>4, <1>5

-----------------------------------------------------------------------------
(* The inductive invariant.  Membership alone is inductive with the types; *)
(* that a filed player is in its party needs ids that did not collide.     *)

Reliable == ~collided => AllFiled /\ up

IInv == TypeOK /\ Membership /\ Reliable /\ MembersOnline

\* The step shared by leaving and disconnecting.
LEMMA DepartKeeps ==
  ASSUME TypeOK, Membership,
         NEW p \in Players, InParty(p), PartyOf(p) # NoParty,
         NEW registered, NEW seen \in Party \cup {NoParty},
         Depart(p, registered, seen)
  PROVE  /\ parties' \in [PartyIds -> Party \cup {NoParty}]
         /\ playerToParty' \in [Players -> PartyIds \cup {NoParty}]
         /\ view' \in [Players -> Party \cup {NoParty}]
         /\ up' = up
         /\ playerToParty' = [playerToParty EXCEPT ![p] = NoParty]
         /\ Membership'
         /\ AllFiled => AllFiled'
<1> DEFINE id   == playerToParty[p]
           old  == parties[id]
           t    == Erase(old.members, p)
           rest == Without(old, p)
           last == t = << >>
<1>1. id \in PartyIds /\ old \in Party /\ id \in Live
  BY DEF TypeOK, InParty, PartyOf, Live
<1>2. PartySound(id)
  BY <1>1 DEF Membership
<1>3. /\ old.members \in Seq(Players)
      /\ old.members # << >>
      /\ IsInjective(old.members)
      /\ old.leaderId = old.members[1]
      /\ \A q \in Range(old.members) : playerToParty[q] = id
  BY <1>1, <1>2 DEF PartySound, Party
<1>4. t \in Seq(Players) /\ Range(t) = Range(old.members) \ {p}
  BY <1>3, EraseProperties
<1>5. ~last => /\ rest \in Party
               /\ rest.members = t
               /\ IsInjective(t)
               /\ rest.leaderId = t[1]
  BY <1>1, <1>3, WithoutProperties
<1>6. last => Range(t) = {}
  BY <1>4 DEF Range
<1>7. /\ playerToParty' = [playerToParty EXCEPT ![p] = NoParty]
      /\ parties' = [parties EXCEPT ![id] = IF last THEN NoParty ELSE rest]
      /\ view' = [Sent(rest, IF last THEN {} ELSE Range(rest.members), registered)
                    EXCEPT ![p] = seen]
      /\ up' = up
  BY DEF Depart
<1> HIDE DEF t, rest, old, id
<1>8. parties' \in [PartyIds -> Party \cup {NoParty}]
  BY <1>1, <1>5, <1>7 DEF TypeOK
<1>9. playerToParty' \in [Players -> PartyIds \cup {NoParty}]
  BY <1>7 DEF TypeOK
<1>10. view' \in [Players -> Party \cup {NoParty}]
  <2>1. Sent(rest, IF last THEN {} ELSE Range(rest.members), registered)
          \in [Players -> Party \cup {NoParty}]
    BY <1>5 DEF Sent, TypeOK
  <2> QED BY <2>1, <1>7
<1>11. /\ parties'[id] = IF last THEN NoParty ELSE rest
       /\ \A i \in PartyIds \ {id} : parties'[i] = parties[i]
       /\ playerToParty'[p] = NoParty
       /\ \A q \in Players \ {p} : playerToParty'[q] = playerToParty[q]
  BY <1>1, <1>7 DEF TypeOK
<1>12. Membership'
  <2> SUFFICES ASSUME NEW i \in Live' PROVE PartySound(i)'
    BY DEF Membership
  <2>1. i \in PartyIds /\ parties'[i] # NoParty
    BY DEF Live
  <2>2. CASE i = id
    <3>1. ~last /\ parties'[i] = rest
      BY <2>1, <2>2, <1>11
    <3>2. \A q \in Range(t) : playerToParty'[q] = i
      <4> SUFFICES ASSUME NEW q \in Range(t) PROVE playerToParty'[q] = i
        OBVIOUS
      <4>1. q \in Range(old.members) /\ q # p
        BY <1>4
      <4>2. q \in Players
        BY <1>4 DEF Range
      <4> QED BY <4>1, <4>2, <1>3, <1>11, <2>2 DEF old, id
    <3> QED BY <3>1, <3>2, <1>5 DEF PartySound
  <2>3. CASE i # id
    <3>1. parties'[i] = parties[i] /\ i \in Live
      BY <2>1, <2>3, <1>11 DEF Live
    <3>2. PartySound(i)
      BY <3>1 DEF Membership
    <3>3. \A q \in Range(parties[i].members) : q # p /\ q \in Players
      <4>1. parties[i].members \in Seq(Players)
        BY <3>1, <2>1 DEF TypeOK, Party, Live
      <4>2. \A q \in Range(parties[i].members) : playerToParty[q] = i
        BY <3>2 DEF PartySound
      <4> QED BY <4>1, <4>2, <2>3 DEF Range, id
    <3> QED BY <3>1, <3>2, <3>3, <1>11 DEF PartySound
  <2> QED BY <2>2, <2>3
<1>13. ASSUME AllFiled PROVE AllFiled'
  <2> SUFFICES ASSUME NEW q \in Players, playerToParty'[q] # NoParty
               PROVE  /\ parties'[playerToParty'[q]] # NoParty
                      /\ q \in Range(parties'[playerToParty'[q]].members)
    BY DEF AllFiled, InParty, PartyOf, Members
  <2>1. q # p /\ playerToParty'[q] = playerToParty[q]
    BY <1>11
  <2>2. /\ playerToParty[q] \in PartyIds
        /\ parties[playerToParty[q]] # NoParty
        /\ q \in Range(parties[playerToParty[q]].members)
    BY <1>13, <2>1 DEF AllFiled, InParty, PartyOf, Members, TypeOK
  <2>3. CASE playerToParty[q] = id
    <3>1. q \in Range(t)
      BY <2>1, <2>2, <2>3, <1>4 DEF old
    <3>2. ~last /\ parties'[id] = rest
      BY <3>1, <1>6, <1>11
    <3>3. rest # NoParty
      BY <3>2, <1>5, NoPartyAssumption
    <3> QED BY <2>1, <2>3, <3>1, <3>2, <3>3, <1>5
  <2>4. CASE playerToParty[q] # id
    BY <2>1, <2>2, <2>4, <1>11
  <2> QED BY <2>3, <2>4
<1> QED BY <1>7, <1>8, <1>9, <1>10, <1>12, <1>13 DEF id

\* The invariant holds of a manager without parties.
LEMMA InitIInv == Init => IInv
  BY DEF Init, IInv, TypeOK, Membership, Live, Reliable, AllFiled, MembersOnline, InParty

\* A new party holds its leader alone, under an id that may be in use.
LEMMA CreatePartyIInv ==
  ASSUME IInv, NEW p \in Players, NEW id \in PartyIds, CreateParty(p, id)
  PROVE  IInv'
<1> DEFINE party == [id |-> id, leaderId |-> p, members |-> <<p>>]
<1>1. /\ ~InParty(p) /\ p \in logged /\ up
      /\ collided' = (collided \/ id \notin Fresh)
      /\ parties' = [parties EXCEPT ![id] = party]
      /\ playerToParty' = [playerToParty EXCEPT ![p] = id]
      /\ view' = [view EXCEPT ![p] = party]
      /\ UNCHANGED <<sessions, logged, up>>
  BY DEF CreateParty
<1>2. /\ party \in Party /\ party.members = <<p>> /\ party.leaderId = p
      /\ Range(<<p>>) = {p} /\ IsInjective(<<p>>) /\ party # NoParty
  <2>1. /\ <<p>> \in Seq(Players) /\ Len(<<p>>) = 1 /\ <<p>>[1] = p
    OBVIOUS
  <2>2. Range(<<p>>) = {p} /\ IsInjective(<<p>>)
    <3> DEFINE one == <<p>>
    <3>1. one \in Seq(Players) /\ DOMAIN one = {1} /\ one[1] = p
      OBVIOUS
    <3> HIDE DEF one
    <3>2. Range(one) = {p} /\ IsInjective(one)
      BY <3>1 DEF Range, IsInjective
    <3> QED BY <3>2 DEF one
  <2>3. party \in Party
    BY <2>1 DEF Party
  <2> QED BY <2>2, <2>3, NoPartyAssumption
<1> HIDE DEF party
<1>3. TypeOK'
  BY <1>1, <1>2 DEF IInv, TypeOK
<1>4. /\ parties'[id] = party
      /\ \A i \in PartyIds \ {id} : parties'[i] = parties[i]
      /\ playerToParty'[p] = id /\ id # NoParty
      /\ \A q \in Players \ {p} : playerToParty'[q] = playerToParty[q]
  BY <1>1, NoPartyAssumption DEF IInv, TypeOK
<1>5. Membership'
  <2> SUFFICES ASSUME NEW i \in Live' PROVE PartySound(i)'
    BY DEF Membership
  <2>1. CASE i = id
    BY <2>1, <1>2, <1>4 DEF PartySound
  <2>2. CASE i # id
    <3>1. i \in PartyIds /\ parties'[i] = parties[i] /\ i \in Live
      BY <2>2, <1>4 DEF Live
    <3>2. PartySound(i)
      BY <3>1 DEF IInv, Membership
    <3>3. i # NoParty
      BY <3>1, NoPartyAssumption
    <3>4. \A q \in Range(parties[i].members) : q # p /\ q \in Players
      <4>1. parties[i].members \in Seq(Players)
        BY <3>1 DEF IInv, TypeOK, Party, Live
      <4> QED BY <4>1, <3>2, <3>3, <1>1 DEF PartySound, Range, InParty
    <3> QED BY <3>1, <3>2, <3>4, <1>4 DEF PartySound
  <2> QED BY <2>1, <2>2
<1>6. Reliable'
  <2> SUFFICES ASSUME ~collided' PROVE AllFiled' /\ up'
    BY DEF Reliable
  <2>1. AllFiled /\ \A q \in Players : playerToParty[q] # id
    BY <1>1 DEF IInv, Reliable, Fresh
  <2> SUFFICES ASSUME NEW q \in Players, playerToParty'[q] # NoParty
               PROVE  /\ parties'[playerToParty'[q]] # NoParty
                      /\ q \in Range(parties'[playerToParty'[q]].members)
    BY <1>1 DEF AllFiled, InParty, PartyOf, Members
  <2>2. CASE q = p
    BY <2>2, <1>2, <1>4
  <2>3. CASE q # p
    <3>1. playerToParty'[q] = playerToParty[q] /\ playerToParty[q] \in PartyIds \ {id}
      BY <2>1, <2>3, <1>4 DEF IInv, TypeOK
    <3> QED BY <3>1, <2>1, <1>4 DEF AllFiled, InParty, PartyOf, Members
  <2> QED BY <2>2, <2>3
<1>7. MembersOnline'
  BY <1>1, <1>4 DEF IInv, MembersOnline, InParty
<1> QED BY <1>3, <1>5, <1>6, <1>7 DEF IInv

\* A player who accepts was filed nowhere, and joins last.
LEMMA PartyAcceptIInv ==
  ASSUME IInv, NEW p \in Players, NEW id \in PartyIds, PartyAccept(p, id)
  PROVE  IInv'
<1> DEFINE old    == parties[id]
           joined == [old EXCEPT !.members = Append(@, p)]
<1>1. /\ ~InParty(p) /\ p \in logged /\ up /\ old # NoParty
      /\ parties' = [parties EXCEPT ![id] = joined]
      /\ playerToParty' = [playerToParty EXCEPT ![p] = id]
      /\ view' = Sent(joined, Range(joined.members), sessions)
      /\ UNCHANGED <<sessions, logged, up, collided>>
  BY DEF PartyAccept
<1>2. old \in Party /\ id \in Live /\ PartySound(id)
  BY <1>1 DEF IInv, TypeOK, Live, Membership
<1>3. /\ old.members \in Seq(Players) /\ old.members # << >>
      /\ IsInjective(old.members) /\ old.leaderId = old.members[1]
      /\ \A q \in Range(old.members) : playerToParty[q] = id
  BY <1>2 DEF PartySound, Party
<1>4. id # NoParty /\ p \notin Range(old.members)
  BY <1>1, <1>3, NoPartyAssumption DEF InParty
<1>5. /\ joined \in Party /\ joined # NoParty
      /\ joined.leaderId = old.leaderId
      /\ joined.members \in Seq(Players) /\ joined.members # << >>
      /\ IsInjective(joined.members)
      /\ joined.leaderId = joined.members[1]
      /\ Range(joined.members) = Range(old.members) \cup {p}
  <2>1. /\ Append(old.members, p) \in Seq(Players)
        /\ IsInjective(Append(old.members, p))
        /\ Append(old.members, p)[1] = old.members[1]
        /\ Range(Append(old.members, p)) = Range(old.members) \cup {p}
    BY <1>3, <1>4, AppendNew
  <2>2. Append(old.members, p) # << >>
    BY <1>3
  <2>3. joined \in Party /\ joined.members = Append(old.members, p) /\ joined.leaderId = old.leaderId
    BY <1>2, <2>1 DEF Party
  <2> QED BY <2>1, <2>2, <2>3, <1>3, NoPartyAssumption
<1> HIDE DEF joined, old
<1>6. Sent(joined, Range(joined.members), sessions) \in [Players -> Party \cup {NoParty}]
  BY <1>5 DEF Sent, IInv, TypeOK
<1>7. TypeOK'
  BY <1>1, <1>5, <1>6 DEF IInv, TypeOK
<1>8. /\ parties'[id] = joined
      /\ \A i \in PartyIds \ {id} : parties'[i] = parties[i]
      /\ playerToParty'[p] = id
      /\ \A q \in Players \ {p} : playerToParty'[q] = playerToParty[q]
  BY <1>1 DEF IInv, TypeOK
<1>9. Membership'
  <2> SUFFICES ASSUME NEW i \in Live' PROVE PartySound(i)'
    BY DEF Membership
  <2>1. CASE i = id
    <3>1. \A q \in Range(joined.members) : playerToParty'[q] = id
      <4> SUFFICES ASSUME NEW q \in Range(joined.members) PROVE playerToParty'[q] = id
        OBVIOUS
      <4>1. q \in Players
        BY <1>5 DEF Range
      <4> QED BY <4>1, <1>3, <1>5, <1>8
    <3> QED BY <2>1, <3>1, <1>5, <1>8 DEF PartySound
  <2>2. CASE i # id
    <3>1. i \in PartyIds /\ parties'[i] = parties[i] /\ i \in Live
      BY <2>2, <1>8 DEF Live
    <3>2. PartySound(i) /\ i # NoParty
      BY <3>1, NoPartyAssumption DEF IInv, Membership
    <3>3. \A q \in Range(parties[i].members) : q # p /\ q \in Players
      <4>1. parties[i].members \in Seq(Players)
        BY <3>1 DEF IInv, TypeOK, Party, Live
      <4> QED BY <4>1, <3>2, <1>1 DEF PartySound, Range, InParty
    <3> QED BY <3>1, <3>2, <3>3, <1>8 DEF PartySound
  <2> QED BY <2>1, <2>2
<1>10. Reliable'
  <2> SUFFICES ASSUME ~collided' PROVE AllFiled' /\ up'
    BY DEF Reliable
  <2>1. AllFiled
    BY <1>1 DEF IInv, Reliable
  <2> SUFFICES ASSUME NEW q \in Players, playerToParty'[q] # NoParty
               PROVE  /\ parties'[playerToParty'[q]] # NoParty
                      /\ q \in Range(parties'[playerToParty'[q]].members)
    BY <1>1 DEF AllFiled, InParty, PartyOf, Members
  <2>2. CASE q = p
    BY <2>2, <1>5, <1>8
  <2>3. CASE q # p
    <3>1. /\ playerToParty'[q] = playerToParty[q] /\ playerToParty[q] \in PartyIds
          /\ parties[playerToParty[q]] # NoParty
          /\ q \in Range(parties[playerToParty[q]].members)
      BY <2>1, <2>3, <1>8 DEF IInv, TypeOK, AllFiled, InParty, PartyOf, Members
    <3>2. CASE playerToParty[q] = id
      BY <3>1, <3>2, <1>5, <1>8 DEF old
    <3>3. CASE playerToParty[q] # id
      BY <3>1, <3>3, <1>8
    <3> QED BY <3>2, <3>3
  <2> QED BY <2>2, <2>3
<1>11. MembersOnline'
  BY <1>1, <1>8 DEF IInv, MembersOnline, InParty
<1> QED BY <1>7, <1>9, <1>10, <1>11 DEF IInv

\* A handler that meets a null party changes nothing but up.
LEMMA CrashKeeps ==
  ASSUME IInv, NEW p \in Players, InParty(p), PartyOf(p) = NoParty, Crash,
         UNCHANGED collided
  PROVE  /\ UNCHANGED <<parties, playerToParty, view>>
         /\ up' = FALSE
         /\ collided
         /\ Membership'
         /\ Reliable'
<1>1. UNCHANGED <<parties, playerToParty, view>> /\ up' = FALSE
  BY DEF Crash
<1>2. collided
  BY DEF IInv, Reliable, AllFiled
<1>3. Membership'
  BY <1>1 DEF IInv, Membership, Live, PartySound
<1>4. Reliable'
  BY <1>2 DEF Reliable
<1> QED BY <1>1, <1>2, <1>3, <1>4

\* Inviting from a null party ends the run and changes no map.
LEMMA PartyInviteIInv ==
  ASSUME IInv, NEW p \in Players, PartyInvite(p)
  PROVE  IInv'
<1>1. InParty(p) /\ PartyOf(p) = NoParty /\ Crash /\ UNCHANGED <<sessions, logged, collided>>
  BY DEF PartyInvite
<1>2. UNCHANGED <<parties, playerToParty, view>> /\ up' = FALSE /\ Membership' /\ Reliable'
  BY <1>1, CrashKeeps
<1>3. TypeOK' /\ MembersOnline'
  BY <1>1, <1>2 DEF IInv, TypeOK, MembersOnline, InParty
<1> QED BY <1>2, <1>3 DEF IInv

\* A member who leaves is erased, and the next in line leads.
LEMMA LeavePartyIInv ==
  ASSUME IInv, NEW p \in Players, LeaveParty(p)
  PROVE  IInv'
<1>1. InParty(p) /\ up /\ UNCHANGED <<sessions, logged, collided>>
  BY DEF LeaveParty
<1>2. CASE PartyOf(p) = NoParty
  <2>1. Crash
    BY <1>2 DEF LeaveParty
  <2>2. UNCHANGED <<parties, playerToParty, view>> /\ up' = FALSE /\ Membership' /\ Reliable'
    BY <1>1, <1>2, <2>1, CrashKeeps
  <2>3. TypeOK' /\ MembersOnline'
    BY <1>1, <2>2 DEF IInv, TypeOK, MembersOnline, InParty
  <2> QED BY <2>2, <2>3 DEF IInv
<1>3. CASE PartyOf(p) # NoParty
  <2>1. Depart(p, sessions, NoParty)
    BY <1>3 DEF LeaveParty
  <2>2. /\ parties' \in [PartyIds -> Party \cup {NoParty}]
        /\ playerToParty' \in [Players -> PartyIds \cup {NoParty}]
        /\ view' \in [Players -> Party \cup {NoParty}]
        /\ up' = up
        /\ playerToParty' = [playerToParty EXCEPT ![p] = NoParty]
        /\ Membership'
        /\ AllFiled => AllFiled'
    BY <1>1, <1>3, <2>1, DepartKeeps DEF IInv
  <2>3. TypeOK' /\ Reliable'
    BY <1>1, <2>2 DEF IInv, TypeOK, Reliable
  <2>4. MembersOnline'
    BY <1>1, <2>2 DEF IInv, TypeOK, MembersOnline, InParty
  <2> QED BY <2>2, <2>3, <2>4 DEF IInv
<1> QED BY <1>2, <1>3

\* A disconnect ends the session and leaves the party.
LEMMA PlayerDisconnectIInv ==
  ASSUME IInv, NEW p \in Players, NEW goesOn \in BOOLEAN,
         PlayerDisconnect(p, goesOn)
  PROVE  IInv'
<1> DEFINE seen == IF goesOn THEN view[p] ELSE NoParty
<1>1. /\ up
      /\ goesOn => p \in logged
      /\ sessions' = sessions \ {p}
      /\ logged' = IF goesOn THEN logged ELSE logged \ {p}
      /\ collided' = collided
  BY DEF PlayerDisconnect
<1>2. seen \in Party \cup {NoParty}
  BY DEF IInv, TypeOK
<1>3. CASE ~InParty(p)
  <2>1. view' = [view EXCEPT ![p] = seen] /\ UNCHANGED <<parties, playerToParty, up, collided>>
    BY <1>3 DEF PlayerDisconnect
  <2>2. TypeOK'
    BY <1>1, <1>2, <2>1 DEF IInv, TypeOK
  <2>3. Membership' /\ Reliable'
    BY <1>1, <2>1 DEF IInv, Membership, Live, PartySound, Reliable, AllFiled, InParty, PartyOf, Members
  <2>4. MembersOnline'
    BY <1>1, <1>3, <2>1 DEF IInv, MembersOnline, InParty
  <2> QED BY <2>2, <2>3, <2>4 DEF IInv
<1>4. CASE InParty(p) /\ PartyOf(p) = NoParty
  <2>1. Crash
    BY <1>4 DEF PlayerDisconnect
  <2>2. UNCHANGED <<parties, playerToParty, view>> /\ up' = FALSE /\ Membership' /\ Reliable'
    BY <1>1, <1>4, <2>1, CrashKeeps
  <2>3. TypeOK'
    BY <1>1, <2>2 DEF IInv, TypeOK
  <2>4. MembersOnline'
    BY <1>1, <2>2 DEF IInv, MembersOnline
  <2> QED BY <2>2, <2>3, <2>4 DEF IInv
<1>5. CASE InParty(p) /\ PartyOf(p) # NoParty
  <2>1. Depart(p, sessions', seen)
    BY <1>5 DEF PlayerDisconnect
  <2>2. /\ parties' \in [PartyIds -> Party \cup {NoParty}]
        /\ playerToParty' \in [Players -> PartyIds \cup {NoParty}]
        /\ view' \in [Players -> Party \cup {NoParty}]
        /\ up' = up
        /\ playerToParty' = [playerToParty EXCEPT ![p] = NoParty]
        /\ Membership'
        /\ AllFiled => AllFiled'
    BY <1>2, <1>5, <2>1, DepartKeeps DEF IInv
  <2>3. TypeOK' /\ Reliable'
    BY <1>1, <2>2 DEF IInv, TypeOK, Reliable
  <2>4. MembersOnline'
    BY <1>1, <2>2 DEF IInv, TypeOK, MembersOnline, InParty
  <2> QED BY <2>2, <2>3, <2>4 DEF IInv
<1> QED BY <1>3, <1>4, <1>5

\* A session that starts or is renewed concerns no party.
LEMMA SessionIInv ==
  ASSUME IInv, NEW p \in Players, NEW q \in Players, Login(p) \/ SwitchAccount(p, q)
  PROVE  IInv'
<1>1. UNCHANGED <<parties, playerToParty, up, collided>>
  BY DEF Login, SwitchAccount
<1>2. TypeOK'
  BY DEF IInv, TypeOK, Login, SwitchAccount
<1>3. Membership' /\ Reliable'
  BY <1>1 DEF IInv, Membership, Live, PartySound, Reliable, AllFiled, InParty, PartyOf, Members
<1>4. MembersOnline'
  BY <1>1 DEF IInv, MembersOnline, InParty, Login, SwitchAccount
<1> QED BY <1>2, <1>3, <1>4 DEF IInv

\* The invariant depends on the variables of the module only.
LEMMA StutterIInv == IInv /\ UNCHANGED vars => IInv'
  BY DEF vars, IInv, TypeOK, Membership, Live, PartySound, Reliable, AllFiled,
         MembersOnline, InParty, PartyOf, Members

\* Every step keeps the invariant.
LEMMA NextIInv == IInv /\ [Next]_vars => IInv'
<1> SUFFICES ASSUME IInv, Next PROVE IInv'
  BY StutterIInv
<1>1. PICK p \in Players :
        \/ handlePacket(p)
        \/ handleLogin(p)
        \/ \E goesOn \in BOOLEAN : PlayerDisconnect(p, goesOn)
  BY DEF Next
<1> QED BY <1>1, CreatePartyIInv, PartyAcceptIInv, PartyInviteIInv, LeavePartyIInv,
           SessionIInv, PlayerDisconnectIInv DEF handlePacket, handleLogin

\* The server keeps the inductive invariant, whatever ids are drawn and
\* however sessions overlap.
THEOREM Invariance == Spec => []IInv
  BY InitIInv, NextIInv, PTL DEF Spec

\* The variables of the party manager keep their types.
THEOREM TypeCorrect == Spec => []TypeOK
<1>1. IInv => TypeOK
  BY DEF IInv
<1> QED BY <1>1, Invariance, PTL

\* No live party is ever empty, names a player twice, has a leader other than
\* its longest standing member or a member filed elsewhere, for any set of
\* players and ids, collisions and overlapping sessions included.
THEOREM MembershipHolds == Spec => []Membership
<1>1. IInv => Membership
  BY DEF IInv
<1> QED BY <1>1, Invariance, PTL

\* As long as no party was given an id in use, every filed player is a member
\* of a live party.
THEOREM FiledHolds == Spec => []Filed
<1>1. IInv => Filed
  BY DEF IInv, Reliable, Filed
<1> QED BY <1>1, Invariance, PTL

\* As long as no party was given an id in use, no handler dereferences a null
\* party.
THEOREM SurvivesHolds == Spec => []Survives
<1>1. IInv => Survives
  BY DEF IInv, Reliable, Survives
<1> QED BY <1>1, Invariance, PTL

\* Every member of a party whose connections stay with their player is on one
\* that is still read, however connections overlap and writes fail, whatever
\* the connections of others do, and even if ids collide.
THEOREM MembersOnlineHolds == Spec => []MembersOnline
<1>1. IInv => MembersOnline
  BY DEF IInv
<1> QED BY <1>1, Invariance, PTL

-----------------------------------------------------------------------------
(* Who succeeds, and what members see.                                     *)

\* What a departure does to the party, to its leader and to what is seen.
LEMMA DepartEffect ==
  ASSUME TypeOK, Membership,
         NEW p \in Players, InParty(p), PartyOf(p) # NoParty,
         NEW registered, NEW seen, Depart(p, registered, seen)
  PROVE  LET id   == playerToParty[p]
             old  == parties[id]
             rest == Without(old, p)
             last == Erase(old.members, p) = << >>
         IN  /\ id \in Live
             /\ Range(Erase(old.members, p)) = Range(old.members) \ {p}
             /\ \A i \in PartyIds \ {id} : parties'[i] = parties[i]
             /\ last  => parties'[id] = NoParty
             /\ ~last => /\ parties'[id] = rest
                         /\ Range(rest.members) = Range(old.members) \ {p}
                         /\ Successor(old, rest)
             /\ playerToParty'[p] = NoParty
             /\ \A q \in Players \ {p} : playerToParty'[q] = playerToParty[q]
             /\ view'[p] = seen
             /\ \A q \in Players \ {p} :
                  view'[q] = IF q \in Range(Erase(old.members, p)) \cap registered
                             THEN rest ELSE view[q]
<1> DEFINE id   == playerToParty[p]
           old  == parties[id]
           t    == Erase(old.members, p)
           rest == Without(old, p)
           last == t = << >>
<1>1. id \in PartyIds /\ old \in Party /\ id \in Live /\ PartySound(id)
  BY DEF TypeOK, InParty, PartyOf, Live, Membership
<1>2. /\ old.members \in Seq(Players) /\ old.members # << >> /\ IsInjective(old.members)
      /\ old.leaderId = old.members[1]
  BY <1>1 DEF PartySound, Party
<1>3. t \in Seq(Players) /\ Range(t) = Range(old.members) \ {p}
  BY <1>2, EraseProperties
<1>4. ~last => /\ rest.members = t
               /\ rest.leaderId = IF old.leaderId = p THEN old.members[2] ELSE old.leaderId
  BY <1>1, <1>2, WithoutProperties
<1>5. ~last => Successor(old, rest)
  BY <1>3, <1>4 DEF Successor
<1>6. /\ playerToParty' = [playerToParty EXCEPT ![p] = NoParty]
      /\ parties' = [parties EXCEPT ![id] = IF last THEN NoParty ELSE rest]
      /\ view' = [Sent(rest, IF last THEN {} ELSE Range(rest.members), registered)
                    EXCEPT ![p] = seen]
  BY DEF Depart
<1>7. last => Range(t) = {}
  BY DEF Range
<1> HIDE DEF t, rest, id
<1>8. /\ playerToParty'[p] = NoParty
      /\ \A q \in Players \ {p} : playerToParty'[q] = playerToParty[q]
      /\ parties'[id] = IF last THEN NoParty ELSE rest
      /\ \A i \in PartyIds \ {id} : parties'[i] = parties[i]
  BY <1>1, <1>6 DEF TypeOK
<1>9. /\ view'[p] = seen
      /\ \A q \in Players \ {p} :
           view'[q] = IF q \in Range(t) \cap registered THEN rest ELSE view[q]
  <2>1. CASE last
    BY <1>6, <1>7, <2>1 DEF Sent
  <2>2. CASE ~last
    BY <1>4, <1>6, <2>2 DEF Sent
  <2> QED BY <2>1, <2>2
<1> QED BY <1>1, <1>3, <1>4, <1>5, <1>8, <1>9 DEF t, rest, id

\* A departure passes the lead on to the next member, in its own party only.
LEMMA DepartSuccession ==
  ASSUME TypeOK, Membership,
         NEW p \in Players, InParty(p), PartyOf(p) # NoParty,
         NEW registered, NEW seen, Depart(p, registered, seen),
         NEW i \in Live \cap Live'
  PROVE  Successor(parties[i], parties'[i])
<1> DEFINE id   == playerToParty[p]
           rest == Without(parties[id], p)
<1>1. /\ \A j \in PartyIds \ {id} : parties'[j] = parties[j]
      /\ \/ parties'[id] = NoParty
         \/ parties'[id] = rest /\ Successor(parties[id], rest)
  BY DepartEffect
<1>2. i \in PartyIds /\ parties'[i] # NoParty
  BY DEF Live
<1>3. CASE i = id
  BY <1>1, <1>2, <1>3
<1>4. CASE i # id
  BY <1>1, <1>2, <1>4 DEF Successor
<1> QED BY <1>3, <1>4

\* Every step passes the lead on in order.
LEMMA NextSuccession ==
  ASSUME IInv, Next, ~collided', NEW i \in Live \cap Live'
  PROVE  Successor(parties[i], parties'[i])
<1>1. TypeOK /\ Membership /\ i \in PartyIds
  BY DEF IInv, Live
<1>2. PICK p \in Players :
        \/ handlePacket(p)
        \/ handleLogin(p)
        \/ \E goesOn \in BOOLEAN : PlayerDisconnect(p, goesOn)
  BY DEF Next
<1>3. ASSUME UNCHANGED parties PROVE Successor(parties[i], parties'[i])
  BY <1>3 DEF Successor
<1>4. ASSUME NEW id \in PartyIds, CreateParty(p, id) PROVE Successor(parties[i], parties'[i])
  <2>1. id \notin Live
    BY <1>4 DEF CreateParty, Fresh
  <2>2. parties'[i] = parties[i]
    BY <1>1, <1>4, <2>1 DEF CreateParty, TypeOK
  <2> QED BY <2>2 DEF Successor
<1>5. ASSUME NEW id \in PartyIds, PartyAccept(p, id) PROVE Successor(parties[i], parties'[i])
  <2>1. parties[i] \in Party /\ parties[id] \in Party
    BY <1>1, <1>5 DEF PartyAccept, TypeOK, Live
  <2>2. parties' = [parties EXCEPT ![id] = [parties[id] EXCEPT !.members = Append(@, p)]]
    BY <1>5 DEF PartyAccept
  <2>3. parties'[i].leaderId = parties[i].leaderId
    BY <1>1, <2>1, <2>2 DEF TypeOK, Party
  <2> QED BY <2>3 DEF Successor
<1>6. ASSUME PartyInvite(p) PROVE UNCHANGED parties
  BY <1>6 DEF PartyInvite, Crash
<1>7. ASSUME LeaveParty(p) PROVE Successor(parties[i], parties'[i])
  BY <1>1, <1>3, <1>7, DepartSuccession DEF LeaveParty, Crash
<1>8. ASSUME handleLogin(p) PROVE UNCHANGED parties
  BY <1>8 DEF handleLogin, Login, SwitchAccount
<1>9. ASSUME NEW goesOn \in BOOLEAN, PlayerDisconnect(p, goesOn)
      PROVE  Successor(parties[i], parties'[i])
  BY <1>1, <1>3, <1>9, DepartSuccession DEF PlayerDisconnect, Crash
<1> QED BY <1>2, <1>3, <1>4, <1>5, <1>6, <1>7, <1>8, <1>9 DEF handlePacket

\* The lead passes in the order of joining, for any players and ids, however
\* sessions overlap, until a party is given an id in use.
THEOREM SuccessionHolds == Spec => Succession
<1>1. IInv /\ [Next]_vars =>
        [~collided' => \A id \in Live \cap Live' : Successor(parties[id], parties'[id])]_vars
  BY NextSuccession
<1> QED BY <1>1, Invariance, PTL DEF Spec, Succession

Careless == Relogins \cup Switches

\* What the members who stay see after a departure is the party they are in.
LEMMA DepartInSync ==
  ASSUME IInv, AllFiled, NEW p \in Players, InParty(p),
         NEW registered \in SUBSET sessions, NEW seen, Depart(p, registered, seen),
         \A q \in sessions \ Careless :
           view[q] = IF InParty(q) THEN PartyOf(q) ELSE NoParty
  PROVE  \A q \in registered \ (Careless \cup {p}) :
           view'[q] = IF playerToParty'[q] # NoParty THEN parties'[playerToParty'[q]]
                      ELSE NoParty
<1> DEFINE id   == playerToParty[p]
           old  == parties[id]
           rest == Without(old, p)
           t    == Erase(old.members, p)
<1>1. PartyOf(p) # NoParty
  BY DEF AllFiled
<1>2. /\ id \in Live
      /\ Range(t) = Range(old.members) \ {p}
      /\ \A i \in PartyIds \ {id} : parties'[i] = parties[i]
      /\ t # << >> => parties'[id] = rest
      /\ \A q \in Players \ {p} : playerToParty'[q] = playerToParty[q]
      /\ \A q \in Players \ {p} :
           view'[q] = IF q \in Range(t) \cap registered THEN rest ELSE view[q]
  BY <1>1, DepartEffect DEF IInv
<1> SUFFICES ASSUME NEW q \in registered \ (Careless \cup {p})
             PROVE  view'[q] = IF playerToParty'[q] # NoParty
                               THEN parties'[playerToParty'[q]] ELSE NoParty
  OBVIOUS
<1>3. q \in Players \ {p} /\ q \in sessions \ Careless
  BY DEF IInv, TypeOK
<1>4. CASE q \in Range(old.members)
  <2>1. q \in Range(t) \cap registered
    BY <1>2, <1>3, <1>4
  <2>2. t # << >>
    BY <2>1 DEF Range
  <2>3. playerToParty[q] = id /\ id # NoParty
    BY <1>2, <1>4, NoPartyAssumption DEF IInv, Membership, PartySound, Live
  <2> HIDE DEF t, rest, id
  <2> QED BY <1>2, <1>3, <2>1, <2>2, <2>3
<1>5. CASE q \notin Range(old.members)
  <2>1. playerToParty[q] # id
    BY <1>2, <1>3, <1>5, NoPartyAssumption DEF AllFiled, InParty, Members, Live
  <2>2. view'[q] = view[q] /\ playerToParty'[q] = playerToParty[q]
    BY <1>2, <1>3, <1>5
  <2>3. playerToParty[q] # NoParty => playerToParty[q] \in PartyIds
    BY <1>3 DEF IInv, TypeOK
  <2> HIDE DEF t, rest, id
  <2> QED BY <1>2, <1>3, <2>1, <2>2, <2>3 DEF InParty, PartyOf
<1> QED BY <1>4, <1>5

\* Who joins a party sees it, and so do those who are in it.
LEMMA JoinInSync ==
  ASSUME IInv, ViewInSync, ~collided', NEW p \in Players, NEW id \in PartyIds,
         CreateParty(p, id) \/ PartyAccept(p, id)
  PROVE  ViewInSync'
<1>1. /\ ~collided /\ AllFiled
      /\ \A q \in sessions \ Careless :
           view[q] = IF InParty(q) THEN PartyOf(q) ELSE NoParty
      /\ sessions \subseteq Players /\ sessions' = sessions
      /\ playerToParty' = [playerToParty EXCEPT ![p] = id]
      /\ id # NoParty
  BY NoPartyAssumption DEF CreateParty, PartyAccept, IInv, TypeOK, Reliable, ViewInSync, Careless
<1> SUFFICES ASSUME NEW q \in sessions \ Careless
             PROVE  view'[q] = IF playerToParty'[q] # NoParty
                               THEN parties'[playerToParty'[q]] ELSE NoParty
  BY <1>1 DEF ViewInSync, InParty, PartyOf, Careless
<1>2. /\ q \in Players
      /\ playerToParty'[q] = IF q = p THEN id ELSE playerToParty[q]
      /\ playerToParty[q] # NoParty => playerToParty[q] \in PartyIds
  BY <1>1 DEF IInv, TypeOK
<1>3. CASE CreateParty(p, id)
  <2> DEFINE party == [id |-> id, leaderId |-> p, members |-> <<p>>]
  <2>1. /\ \A r \in Players : playerToParty[r] # id
        /\ parties' = [parties EXCEPT ![id] = party]
        /\ view' = [view EXCEPT ![p] = party]
    BY <1>3 DEF CreateParty, Fresh
  <2> HIDE DEF party
  <2>2. parties'[id] = party /\ \A i \in PartyIds \ {id} : parties'[i] = parties[i]
    BY <2>1 DEF IInv, TypeOK
  <2>3. view'[q] = IF q = p THEN party ELSE view[q]
    BY <1>2, <2>1 DEF IInv, TypeOK
  <2> QED BY <1>1, <1>2, <2>1, <2>2, <2>3 DEF InParty, PartyOf
<1>4. CASE PartyAccept(p, id)
  <2> DEFINE old    == parties[id]
             joined == [old EXCEPT !.members = Append(@, p)]
  <2>1. /\ old # NoParty
        /\ parties' = [parties EXCEPT ![id] = joined]
        /\ view' = Sent(joined, Range(joined.members), sessions)
    BY <1>4 DEF PartyAccept
  <2>2. old \in Party /\ id \in Live /\ PartySound(id) /\ ~InParty(p)
    BY <1>4, <2>1 DEF IInv, TypeOK, Live, Membership, PartyAccept
  <2>3. Range(joined.members) = Range(old.members) \cup {p}
    <3>1. old.members \in Seq(Players) /\ IsInjective(old.members)
          /\ p \notin Range(old.members)
      BY <1>1, <2>2 DEF PartySound, Party, InParty
    <3>2. Range(Append(old.members, p)) = Range(old.members) \cup {p}
      BY <3>1, AppendNew
    <3>3. joined.members = Append(old.members, p)
      BY <2>2 DEF Party
    <3> QED BY <3>2, <3>3
  <2> HIDE DEF joined
  <2>4. parties'[id] = joined /\ \A i \in PartyIds \ {id} : parties'[i] = parties[i]
    BY <2>1 DEF IInv, TypeOK
  <2>5. view'[q] = IF q \in Range(old.members) \cup {p} THEN joined ELSE view[q]
    BY <1>2, <2>1, <2>3 DEF Sent
  <2>6. CASE q \in Range(old.members) \cup {p}
    <3>1. playerToParty'[q] = id
      BY <1>2, <2>2, <2>6 DEF PartySound
    <3> QED BY <1>1, <2>4, <2>5, <2>6, <3>1
  <2>7. CASE q \notin Range(old.members) \cup {p}
    <3>1. playerToParty[q] # id
      BY <1>1, <1>2, <2>2, <2>7 DEF AllFiled, InParty, Members
    <3>2. view'[q] = view[q] /\ playerToParty'[q] = playerToParty[q]
      BY <1>2, <2>5, <2>7
    <3> QED BY <1>1, <1>2, <2>4, <3>1, <3>2 DEF InParty, PartyOf
  <2> QED BY <2>6, <2>7
<1> QED BY <1>3, <1>4

\* Who leaves or disconnects, and who logs in, sees no party and is in none.
LEMMA LeaveInSync ==
  ASSUME IInv, ViewInSync, ~collided', NEW p \in Players,
         \/ LeaveParty(p)
         \/ handleLogin(p)
         \/ \E goesOn \in BOOLEAN : PlayerDisconnect(p, goesOn)
  PROVE  ViewInSync'
<1>1. /\ ~collided /\ AllFiled /\ up
      /\ \A q \in sessions \ Careless :
           view[q] = IF InParty(q) THEN PartyOf(q) ELSE NoParty
      /\ sessions \subseteq Players /\ p \in Players
      /\ MembersOnline
  BY DEF LeaveParty, handleLogin, Login, SwitchAccount, PlayerDisconnect, IInv, TypeOK,
         Reliable, ViewInSync, Careless
<1>2. InParty(p) => PartyOf(p) # NoParty
  BY <1>1 DEF AllFiled
<1>3. CASE LeaveParty(p)
  <2>1. Depart(p, sessions, NoParty) /\ InParty(p) /\ sessions' = sessions
    BY <1>2, <1>3 DEF LeaveParty
  <2>2. \A q \in sessions \ (Careless \cup {p}) :
           view'[q] = IF playerToParty'[q] # NoParty THEN parties'[playerToParty'[q]]
                      ELSE NoParty
    BY <1>1, <2>1, DepartInSync
  <2>3. view'[p] = NoParty /\ playerToParty'[p] = NoParty
    BY <1>2, <2>1, DepartEffect DEF IInv
  <2> QED BY <2>1, <2>2, <2>3 DEF ViewInSync, InParty, PartyOf, Careless
<1>4. CASE handleLogin(p)
  <2>1. PICK q \in Players :
          /\ sessions' = sessions \cup {q} /\ view' = [view EXCEPT ![q] = NoParty]
          /\ q \in logged => q \in Relogins
          /\ UNCHANGED <<parties, playerToParty>>
    BY <1>4 DEF handleLogin, Login, SwitchAccount
  <2>2. q \notin Careless => ~InParty(q)
    BY <1>1, <2>1 DEF MembersOnline, Careless
  <2>3. view'[q] = NoParty /\ \A r \in Players \ {q} : view'[r] = view[r]
    BY <2>1 DEF IInv, TypeOK
  <2>4. ASSUME NEW r \in sessions' \ Careless
        PROVE  view'[r] = IF InParty(r) THEN PartyOf(r) ELSE NoParty
    BY <1>1, <2>1, <2>2, <2>3, <2>4
  <2> QED BY <2>1, <2>4 DEF ViewInSync, InParty, PartyOf, Careless
<1>5. ASSUME NEW goesOn \in BOOLEAN, PlayerDisconnect(p, goesOn) PROVE ViewInSync'
  <2> DEFINE seen == IF goesOn THEN view[p] ELSE NoParty
  <2>1. sessions' = sessions \ {p}
    BY <1>5 DEF PlayerDisconnect
  <2>2. CASE ~InParty(p)
    <3>1. view' = [view EXCEPT ![p] = seen] /\ UNCHANGED <<parties, playerToParty>>
      BY <1>5, <2>1, <2>2 DEF PlayerDisconnect
    <3>2. \A r \in Players \ {p} : view'[r] = view[r]
      BY <3>1 DEF IInv, TypeOK
    <3> QED BY <1>1, <2>1, <3>1, <3>2 DEF ViewInSync, InParty, PartyOf, Careless
  <2>3. CASE InParty(p)
    <3>1. Depart(p, sessions', seen)
      BY <1>2, <1>5, <2>1, <2>3 DEF PlayerDisconnect
    <3>2. \A q \in sessions' \ (Careless \cup {p}) :
             view'[q] = IF playerToParty'[q] # NoParty THEN parties'[playerToParty'[q]]
                        ELSE NoParty
      <4> HIDE DEF seen
      <4> QED BY <1>1, <2>1, <2>3, <3>1, DepartInSync
    <3> QED BY <2>1, <3>2 DEF ViewInSync, InParty, PartyOf, Careless
  <2> QED BY <2>2, <2>3
<1> QED BY <1>3, <1>4, <1>5

\* Every step keeps the members informed.
LEMMA NextInSync ==
  ASSUME IInv, ViewInSync, [Next]_vars
  PROVE  ViewInSync'
<1>1. ASSUME UNCHANGED vars PROVE ViewInSync'
  BY <1>1 DEF vars, ViewInSync, InParty, PartyOf
<1>2. ASSUME collided' PROVE ViewInSync'
  BY <1>2 DEF ViewInSync
<1>3. ASSUME NEW p \in Players, PartyInvite(p) PROVE collided'
  BY <1>3 DEF PartyInvite, IInv, Reliable, AllFiled
<1> QED BY <1>1, <1>2, <1>3, JoinInSync, LeaveInSync DEF Next, handlePacket

\* A player who logs in anew only after the reads of its connection ended, and
\* on no connection as somebody else: whatever the order of joins, leaves,
\* failed writes and disconnects, and whatever the connections of others do,
\* the last update it was sent is the present state of its party, until a
\* party is given an id in use.
THEOREM ViewInSyncHolds == Spec => []ViewInSync
<1>1. Init => ViewInSync
  BY DEF Init, ViewInSync
<1>2. IInv /\ ViewInSync /\ [Next]_vars => ViewInSync'
  BY NextInSync
<1> QED BY <1>1, <1>2, Invariance, PTL DEF Spec

=============================================================================
