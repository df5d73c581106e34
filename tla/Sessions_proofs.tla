--------------------------- MODULE Sessions_proofs --------------------------
(***************************************************************************)
(* Proofs about Sessions, for any players and connections: its invariants  *)
(* are inductive together with the types.                                  *)
(***************************************************************************)
EXTENDS Sessions, TLAPS

IInv == TypeOK /\ PresenceFresh /\ Delivered /\ Reachable

\* Nobody is registered, online or carried by a connection.
THEOREM InitIInv == Init => IInv
BY NobodyAssumption
   DEF Init, IInv, TypeOK, PresenceFresh, Delivered, Reachable, Registered, Carries, Reading

-----------------------------------------------------------------------------
(* Connections.                                                            *)

\* A new connection carries nobody, and the session table has none of its
\* name.
LEMMA AcceptKeeps ==
  ASSUME IInv, NEW c \in Conns, Accept(c)
  PROVE  IInv'
<1>1. TypeOK'
  BY DEF IInv, TypeOK, Accept
<1>2. PresenceFresh'
  BY DEF IInv, PresenceFresh, Accept, Registered
<1>3. Delivered'
  BY DEF IInv, TypeOK, Delivered, Accept, Registered, Carries, Reading
<1>4. Reachable'
  BY NobodyAssumption DEF IInv, TypeOK, Reachable, Accept, Registered, Carries, Reading
<1> QED BY <1>1, <1>2, <1>3, <1>4 DEF IInv

\* That the peer is gone changes nothing yet.
LEMMA BreakKeeps ==
  ASSUME IInv, NEW c \in Conns, Break(c)
  PROVE  IInv'
<1>1. TypeOK'
  BY DEF IInv, TypeOK, Break
<1>2. Reading' = Reading
  BY DEF IInv, TypeOK, Break, Reading
<1>3. PresenceFresh' /\ Delivered' /\ Reachable'
  BY <1>2 DEF IInv, PresenceFresh, Delivered, Reachable, Break, Registered, Carries
<1> QED BY <1>1, <1>3 DEF IInv

\* Neither a new account nor a lost token concerns anybody who is online.
LEMMA AccountKeeps ==
  ASSUME IInv, NEW p \in Players,
         Expire(p) \/ \E c \in Conns : Register(c, p)
  PROVE  IInv'
<1>1. TypeOK'
  BY DEF IInv, TypeOK, Expire, Register, serverVars
<1>2. UNCHANGED <<serverVars, presence, stale, leftBehind, dropped>>
  BY DEF Expire, Register
<1>3. PresenceFresh' /\ Delivered' /\ Reachable'
  BY <1>2 DEF IInv, PresenceFresh, Delivered, Reachable, Registered, Carries, Reading, serverVars
<1> QED BY <1>1, <1>3 DEF IInv

-----------------------------------------------------------------------------
(* Login.                                                                  *)

\* The player logged in is registered and online; whoever the connection
\* carried before is left behind.
LEMMA LoginKeeps ==
  ASSUME IInv, NEW c \in Conns, NEW p \in Players, c \in Reading, p \in accounts,
         EnterSession(c, p), tokens' \in {tokens, tokens \cup {p}}
  PROVE  IInv'
<1>1. /\ playerId' = [playerId EXCEPT ![c] = p]
      /\ connections' = [connections EXCEPT ![p] = c]
      /\ leftBehind' = (leftBehind \cup {q \in Players : connections[q] = c}) \ {p}
      /\ dropped' = dropped \ {p}
      /\ UNCHANGED <<accounts, socket>>
      /\ Reading' = Reading
      /\ SetPresence(p, TRUE)
  BY DEF EnterSession, Reading
<1>2. /\ presence' \subseteq accounts
      /\ stale' \subseteq Players
      /\ p \in presence' \/ p \in stale'
      /\ \A q \in Players \ {p} : /\ q \in presence' <=> q \in presence
                                  /\ q \in stale' <=> q \in stale
  BY <1>1 DEF SetPresence, IInv, TypeOK
<1>3. TypeOK'
  BY <1>1, <1>2 DEF IInv, TypeOK
<1>4. PresenceFresh'
  BY <1>1, <1>2, NobodyAssumption DEF IInv, TypeOK, PresenceFresh, Registered
<1>5. Delivered'
  BY <1>1 DEF IInv, TypeOK, Delivered, Registered, Carries
<1>6. Reachable'
  BY <1>1, NobodyAssumption DEF IInv, TypeOK, Reachable, Registered, Carries
<1> QED BY <1>3, <1>4, <1>5, <1>6 DEF IInv

-----------------------------------------------------------------------------
(* The end of a connection.                                                *)

\* The disconnect handler, after which the connection may or may not go on
\* reading: the player it carries is out of the session table and offline,
\* and if another connection carries it, it is dropped.
LEMMA CleanUpKeeps ==
  ASSUME IInv, NEW c \in Conns, CleanUp(c),
         socket' \in [Conns -> {"open", "broken", "ending", "closed"}],
         Reading \ {c} \subseteq Reading', Reading' \subseteq Reading,
         UNCHANGED <<accounts, playerId, tokens, leftBehind>>
  PROVE  IInv'
<1>1. CASE playerId[c] = Nobody
  <2>1. UNCHANGED <<connections, presence, stale, dropped>>
    BY <1>1 DEF CleanUp
  <2>2. TypeOK' /\ PresenceFresh' /\ Reachable'
    BY <2>1 DEF IInv, TypeOK, PresenceFresh, Reachable, Registered, Carries
  <2>3. Delivered'
    BY <1>1, <2>1, NobodyAssumption DEF IInv, TypeOK, Delivered, Registered, Carries
  <2> QED BY <2>2, <2>3 DEF IInv
<1>2. CASE playerId[c] # Nobody
  <2> DEFINE p == playerId[c]
  <2>1. /\ p \in accounts /\ p \in Players
        /\ connections' = [connections EXCEPT ![p] = Nobody]
        /\ SetPresence(p, FALSE)
        /\ dropped' = IF \E d \in Reading' : playerId[d] = p
                      THEN dropped \cup {p} ELSE dropped
    BY <1>2 DEF CleanUp, IInv, TypeOK
  <2>2. /\ presence' \subseteq accounts
        /\ stale' \subseteq Players
        /\ p \notin presence' \/ p \in stale'
        /\ \A q \in Players \ {p} : /\ q \in presence' <=> q \in presence
                                    /\ q \in stale' <=> q \in stale
    BY <2>1 DEF SetPresence, IInv, TypeOK
  <2>3. TypeOK'
    BY <2>1, <2>2 DEF IInv, TypeOK
  <2>4. PresenceFresh'
    BY <2>1, <2>2 DEF IInv, TypeOK, PresenceFresh, Registered
  <2>5. Delivered'
    BY <2>1 DEF IInv, TypeOK, Delivered, Registered, Carries
  <2>6. Reachable'
    BY <2>1 DEF IInv, TypeOK, Reachable, Registered, Carries
  <2> QED BY <2>3, <2>4, <2>5, <2>6 DEF IInv
<1> QED BY <1>1, <1>2

\* Both ways in which an end is noticed.
LEMMA EndKeeps ==
  ASSUME IInv, NEW c \in Conns, EndRead(c) \/ FailWrite(c)
  PROVE  IInv'
<1>1. socket \in [Conns -> {"open", "broken", "ending", "closed"}]
  BY DEF IInv, TypeOK
<1>2. CASE EndRead(c)
  <2>1. PICK rest \in {"ending", "closed"} : socket' = [socket EXCEPT ![c] = rest]
    BY <1>2 DEF EndRead
  <2>2. /\ socket' \in [Conns -> {"open", "broken", "ending", "closed"}]
        /\ Reading \ {c} \subseteq Reading' /\ Reading' \subseteq Reading
    BY <1>1, <2>1 DEF Reading
  <2> QED BY <1>2, <2>2, CleanUpKeeps DEF EndRead
<1>3. CASE FailWrite(c)
  <2>1. socket' = [socket EXCEPT ![c] = IF @ = "ending" THEN "closed" ELSE @]
    BY <1>3 DEF FailWrite
  <2>2. /\ socket' \in [Conns -> {"open", "broken", "ending", "closed"}]
        /\ Reading \ {c} \subseteq Reading' /\ Reading' \subseteq Reading
    BY <1>1, <2>1 DEF Reading
  <2> QED BY <1>3, <2>2, CleanUpKeeps DEF FailWrite
<1> QED BY <1>2, <1>3

\* A restart leaves nobody registered or carried; whoever was online stays
\* so in Redis.
LEMMA RestartKeeps ==
  ASSUME IInv, Restart
  PROVE  IInv'
<1>1. TypeOK'
  BY DEF IInv, TypeOK, Restart
<1>2. Reading' = {} /\ \A p \in Players : ~Registered(p)'
  BY NobodyAssumption DEF Restart, Reading, Registered
<1>3. PresenceFresh' /\ Delivered' /\ Reachable'
  BY <1>2 DEF PresenceFresh, Delivered, Reachable, Carries, Restart
<1> QED BY <1>1, <1>3 DEF IInv

-----------------------------------------------------------------------------
(* The theorems.                                                           *)

\* IInv is an invariant.
THEOREM Invariance == Spec => []IInv
<1>1. IInv /\ [Next]_vars => IInv'
  <2> SUFFICES ASSUME IInv, [Next]_vars PROVE IInv'
    OBVIOUS
  <2>1. CASE UNCHANGED vars
    BY <2>1 DEF vars, IInv, TypeOK, PresenceFresh, Delivered, Reachable, Registered, Carries, Reading
  <2>2. ASSUME NEW c \in Conns, Accept(c) PROVE IInv'
    BY <2>2, AcceptKeeps
  <2>3. ASSUME NEW c \in Conns, Break(c) PROVE IInv'
    BY <2>3, BreakKeeps
  <2>4. ASSUME NEW c \in Conns, NEW p \in Players, Register(c, p) PROVE IInv'
    BY <2>4, AccountKeeps
  <2>5. ASSUME NEW c \in Conns, NEW p \in Players, LoginPassword(c, p) \/ LoginToken(c, p)
        PROVE  IInv'
    <3>1. /\ c \in Reading /\ p \in accounts
          /\ EnterSession(c, p) /\ tokens' \in {tokens, tokens \cup {p}}
      BY <2>5 DEF LoginPassword, LoginToken, IInv, TypeOK
    <3> QED BY <3>1, LoginKeeps
  <2>6. ASSUME NEW c \in Conns, EndRead(c) \/ FailWrite(c) PROVE IInv'
    BY <2>6, EndKeeps
  <2>7. ASSUME NEW p \in Players, Expire(p) PROVE IInv'
    BY <2>7, AccountKeeps
  <2>8. CASE Restart
    BY <2>8, RestartKeeps
  <2> QED BY <2>1, <2>2, <2>3, <2>4, <2>5, <2>6, <2>7, <2>8 DEF Next
<1> QED BY InitIInv, <1>1, PTL DEF Spec

\* The variables keep their types, and only accounts log in.
THEOREM TypeCorrect == Spec => []TypeOK
<1>1. IInv => TypeOK
  BY DEF IInv
<1> QED BY Invariance, <1>1, PTL

\* Presence agrees with the session table on every player but those a failed
\* call or a restart left out of date.
THEOREM PresenceFreshHolds == Spec => []PresenceFresh
<1>1. IInv => PresenceFresh
  BY DEF IInv
<1> QED BY Invariance, <1>1, PTL

\* The connection registered for a player carries this player, unless it has
\* logged in as somebody else since.
THEOREM DeliveredHolds == Spec => []Delivered
<1>1. IInv => Delivered
  BY DEF IInv
<1> QED BY Invariance, <1>1, PTL

\* A player whom a connection carries can be reached, unless the end of
\* another connection took its session along.
THEOREM ReachableHolds == Spec => []Reachable
<1>1. IInv => Reachable
  BY DEF IInv
<1> QED BY Invariance, <1>1, PTL

-----------------------------------------------------------------------------
(* The sessions that the party manager assumes: whoever is registered, and *)
(* whoever some connection carries.                                        *)

Sess == {p \in Players : Registered(p)}

Logged == {p \in Players : \E c \in Conns : Carries(c, p)}

\* The state of a party manager without parties stays as it is.
LEMMA NoPartyKeeps ==
  ASSUME NEW p \in Players
  PROVE  /\ ~PM!InParty(p)
         /\ [q \in Players |-> NoParty] = [[q \in Players |-> NoParty] EXCEPT ![p] = NoParty]
BY DEF PM!InParty

\* A login is one of another connection, or a change of account of the only
\* connection of a player.
LEMMA LoginMaps ==
  ASSUME IInv, NEW c \in Conns, NEW p \in Players, c \in Reading, p \in accounts,
         EnterSession(c, p)
  PROVE  PM!Next
<1> DEFINE q == playerId[c]
<1>1. /\ playerId' = [playerId EXCEPT ![c] = p] /\ playerId \in [Conns -> accounts \cup {Nobody}]
      /\ connections' = [connections EXCEPT ![p] = c] /\ connections \in [Players -> Conns \cup {Nobody}]
      /\ Reading' = Reading
      /\ accounts \subseteq Players
  BY DEF EnterSession, Reading, IInv, TypeOK
<1>2. Sess' = Sess \cup {p}
  BY <1>1, NobodyAssumption DEF Sess, Registered
<1>3. \A r \in Players : r # p /\ r # q => (r \in Logged' <=> r \in Logged)
  BY <1>1 DEF Logged, Carries
<1>4. p \in Logged'
  BY <1>1 DEF Logged, Carries
<1>5. CASE q \in Logged' \/ q = Nobody
  <2>1. q # Nobody => q \in Logged
    BY <1>1 DEF Logged, Carries
  <2>2. Logged' = Logged \cup {p}
    BY <1>3, <1>4, <1>5, <2>1, NobodyAssumption DEF Logged
  <2>3. PM!Login(p)
    BY <1>2, <2>2, NoPartyKeeps DEF PM!Login, Sess, Logged
  <2> QED BY <2>3 DEF PM!Next, PM!handleLogin
<1>6. CASE q \notin Logged' /\ q # Nobody
  <2>1. q \in Players /\ q \in Logged /\ q # p
    BY <1>1, <1>4, <1>6 DEF Logged, Carries
  <2>2. Logged' = (Logged \ {q}) \cup {p}
    BY <1>3, <1>4, <1>6, <2>1 DEF Logged
  <2>3. PM!SwitchAccount(q, p)
    BY <1>2, <2>1, <2>2, NoPartyKeeps DEF PM!SwitchAccount, Sess, Logged
  <2> QED BY <2>1, <2>3 DEF PM!Next, PM!handleLogin
<1> QED BY <1>5, <1>6

\* The disconnect handler is the party manager's, or of a connection without a
\* player.
LEMMA CleanUpMaps ==
  ASSUME IInv, NEW c \in Conns, CleanUp(c),
         Reading \ {c} \subseteq Reading', Reading' \subseteq Reading,
         UNCHANGED playerId
  PROVE  PM!Next \/ UNCHANGED <<Sess, Logged>>
<1> DEFINE p == playerId[c]
<1>1. /\ playerId \in [Conns -> accounts \cup {Nobody}] /\ accounts \subseteq Players
      /\ connections \in [Players -> Conns \cup {Nobody}]
      /\ Reading \subseteq Conns
  BY DEF IInv, TypeOK, Reading
<1>2. \A r \in Players \ {p} : r \in Logged' <=> r \in Logged
  BY <1>1 DEF Logged, Carries
<1>3. CASE p = Nobody
  <2>1. Sess' = Sess
    BY <1>3 DEF CleanUp, Sess, Registered
  <2>2. Logged' = Logged
    BY <1>2, <1>3, NobodyAssumption DEF Logged
  <2> QED BY <2>1, <2>2
<1>4. CASE p # Nobody
  <2> DEFINE goesOn == p \in Logged'
  <2>1. p \in Players
    BY <1>1, <1>4
  <2>2. Sess' = Sess \ {p}
    BY <1>1, <1>4 DEF CleanUp, Sess, Registered
  <2>3. goesOn => p \in Logged
    BY DEF Logged, Carries
  <2>4. Logged' = IF goesOn THEN Logged ELSE Logged \ {p}
    BY <1>2, <2>3 DEF Logged
  <2>5. PM!PlayerDisconnect(p, goesOn)
    BY <2>1, <2>2, <2>3, <2>4, NoPartyKeeps DEF PM!PlayerDisconnect, Sess, Logged
  <2>6. goesOn \in BOOLEAN
    OBVIOUS
  <2> QED BY <2>1, <2>5, <2>6 DEF PM!Next
<1> QED BY <1>3, <1>4

\* Every step of Sessions is one of the party manager's, changes no session,
\* or is a restart.
LEMMA StepMaps ==
  ASSUME IInv, [Next]_vars
  PROVE  [PM!Next \/ Restart]_(PM!vars)
<1> SUFFICES PM!Next \/ Restart \/ UNCHANGED <<Sess, Logged>>
  BY DEF PM!vars, Sess, Logged
<1>1. CASE UNCHANGED <<socket, playerId, connections>>
  BY <1>1 DEF Sess, Logged, Registered, Carries, Reading
<1>2. ASSUME NEW c \in Conns, Accept(c) \/ Break(c) PROVE UNCHANGED <<Sess, Logged>>
  <2>1. /\ connections' = connections
        /\ \A d \in Conns, p \in Players : Carries(d, p)' <=> Carries(d, p)
    BY <1>2, NobodyAssumption DEF Accept, Break, IInv, TypeOK, Carries, Reading
  <2> QED BY <2>1 DEF Sess, Logged, Registered
<1>3. ASSUME NEW c \in Conns, NEW p \in Players, LoginPassword(c, p) \/ LoginToken(c, p)
      PROVE  PM!Next
  <2>1. c \in Reading /\ p \in accounts /\ EnterSession(c, p)
    BY <1>3 DEF LoginPassword, LoginToken, IInv, TypeOK
  <2> QED BY <2>1, LoginMaps
<1>4. ASSUME NEW c \in Conns, EndRead(c) \/ FailWrite(c)
      PROVE  PM!Next \/ UNCHANGED <<Sess, Logged>>
  <2>1. CleanUp(c) /\ UNCHANGED playerId
    BY <1>4 DEF EndRead, FailWrite
  <2>2. Reading \ {c} \subseteq Reading' /\ Reading' \subseteq Reading
    BY <1>4 DEF EndRead, FailWrite, IInv, TypeOK, Reading
  <2> QED BY <2>1, <2>2, CleanUpMaps
<1> QED BY <1>1, <1>2, <1>3, <1>4 DEF Next, vars, Register, Expire, serverVars

\* The sessions of the server are those that the party manager assumes.
THEOREM ImplementsSessionsHolds == Spec => ImplementsSessions
<1>1. Init => PM!Init
  <2> SUFFICES ASSUME Init PROVE PM!Init
    OBVIOUS
  <2>1. \A p \in Players : ~Registered(p) /\ \A c \in Conns : ~Carries(c, p)
    BY DEF Init, Registered, Carries, Reading
  <2> QED BY <2>1 DEF PM!Init
<1>2. IInv /\ [Next]_vars => [PM!Next \/ Restart]_(PM!vars)
  BY StepMaps
<1> QED BY Invariance, <1>1, <1>2, PTL DEF Spec, ImplementsSessions

=============================================================================
