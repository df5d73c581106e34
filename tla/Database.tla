------------------------------ MODULE Database ------------------------------
(***************************************************************************)
(* Accounts, friends and match results over one connection to the          *)
(* database, as the I/O thread uses it: one packet after the other.  A     *)
(* restart of the server and the loss of the connection concern them all.  *)
(***************************************************************************)
EXTENDS Friends, Results

dbVars == <<accountVars, friendVars, resultVars>>

DbInit == AccountsInit /\ FriendsInit /\ ResultsInit

Register == Idle /\ (\E p \in Players : createUser(p)) /\ UNCHANGED <<friendVars, resultVars>>

Social == Idle /\ FriendsPacket /\ UNCHANGED resultVars

DbNext ==
  \/ Register
  \/ Social
  \/ ResultsStep /\ UNCHANGED friendVars
  \/ LoseDatabase /\ UNCHANGED <<friendVars, resultVars>>
  \/ Restart /\ UNCHANGED friendVars

DbSpec == DbInit /\ [][DbNext]_dbVars

\* The variables keep their types, and no row refers to a row that is not
\* there, neither in the tables nor in the open transaction.
DbTypeOK ==
  /\ Known \subseteq Players
  /\ users \in [Known -> [rating : Int, wins : Nat, losses : Nat]]
  /\ dbUp \in BOOLEAN
  /\ status \in [Pairs -> {NoRow, "PENDING", "ACCEPTED"}]
  /\ \A pair \in Pairs : status[pair] # NoRow => pair \in Known \X Known
  /\ said \subseteq Pairs /\ oneSided \subseteq Pairs
  /\ matches \in [MatchIds -> [winner : Known \cup {NoPlayer}, players : SUBSET Known,
                               timestamp : Nat] \cup {None}]
  /\ clock \in Nat
  /\ work \subseteq Known

=============================================================================
