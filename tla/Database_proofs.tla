--------------------------- MODULE Database_proofs --------------------------
(***************************************************************************)
(* Proofs about Database, for any players, matches, reports and ratings.   *)
(* The invariant adds to the properties what an open report has inserted   *)
(* so far.                                                                 *)
(***************************************************************************)
EXTENDS Database, FiniteSetTheorems, TLAPS

\* A row of the table `friends' is there because its first player said so.
RowsSaid == \A a, b \in Players : status[<<a, b>>] # NoRow => <<a, b>> \in said

\* Friends are friends of each other, except where remembered otherwise.
Mutual ==
  \A a, b \in Players :
    status[<<a, b>>] = "ACCEPTED" /\ <<a, b>> \notin oneSided => status[<<b, a>>] = "ACCEPTED"

Reports ==
  [at : {"idle", "match", "players", "rate"}, match : MatchIds \cup {None},
   winner : Players \cup {NoPlayer}, players : Seq(Players),
   winners : SUBSET (Players \cup {NoPlayer}), next : Nat \ {0}]

\* The open transaction has inserted a match that was not there, and each of
\* the players before the next one once.
Inserted ==
  /\ reporting.winner \in Known \cup {NoPlayer}
  /\ matches[reporting.match] = None
  /\ reporting.next <= Len(reporting.players) + 1
  /\ work = {reporting.players[i] : i \in 1..(reporting.next - 1)}
  /\ \A i, j \in 1..(reporting.next - 1) :
       reporting.players[i] = reporting.players[j] => i = j

ReportSound ==
  /\ reporting \in Reports
  /\ reporting.at # "idle" => reporting.match \in MatchIds
  /\ IF reporting.at = "players" THEN Inserted ELSE work = {}

FriendInv == RowsSaid /\ Mutual

\* The matches are finitely many, and older than the next one will be.
Dated == IsFiniteSet(Recorded) /\ \A m \in Recorded : matches[m].timestamp < clock

DbInv == DbTypeOK /\ RatingFits /\ FriendInv /\ ReportSound /\ Dated

\* The tables are empty and no report is open.
THEOREM InitDbInv == DbInit => DbInv
<1> SUFFICES ASSUME DbInit PROVE DbInv
  OBVIOUS
<1> USE DEF DbInit, AccountsInit, FriendsInit, ResultsInit
<1>1. DbTypeOK
  BY DEF DbTypeOK, Known, Pairs
<1>2. RatingFits
  BY DEF RatingFits, Known
<1>3. FriendInv
  BY NoRowAssumption DEF FriendInv, RowsSaid, Mutual, Pairs
<1>4. ReportSound
  BY DEF ReportSound, Reports, NoReport
<1>5. Dated
  <2>1. Recorded = {}
    BY DEF Recorded
  <2> QED BY <2>1, FS_EmptySet DEF Dated
<1> QED BY <1>1, <1>2, <1>3, <1>4, <1>5 DEF DbInv

-----------------------------------------------------------------------------
(* Accounts.                                                               *)

\* A new account has its initial rating and is in no table yet.
LEMMA RegisterKeeps ==
  ASSUME DbInv, Register
  PROVE  DbInv'
<1>1. PICK p \in Players : createUser(p)
  BY DEF Register
<1>2. /\ users' = [q \in Known \cup {p} |-> IF q = p THEN New ELSE users[q]]
      /\ Known' = Known \cup {p} /\ p \notin Known
      /\ UNCHANGED <<dbUp, status, said, oneSided, matches, clock, reporting, work>>
  BY <1>1 DEF createUser, Register, friendVars, resultVars, Known
<1>3. DbTypeOK'
  BY <1>2, RatingAssumption DEF DbInv, DbTypeOK, New
<1>4. RatingFits'
  <2>1. Fits(New)
    BY RatingAssumption DEF Fits, New
  <2>2. ASSUME NEW q \in Known' PROVE Fits(users'[q])
    BY <1>2, <2>1 DEF DbInv, RatingFits
  <2> QED BY <2>2 DEF RatingFits
<1>5. FriendInv'
  BY <1>2 DEF DbInv, FriendInv, RowsSaid, Mutual
<1>6. ReportSound'
  BY <1>2 DEF DbInv, ReportSound, Inserted
<1>7. Dated'
  BY <1>2 DEF DbInv, Dated, Recorded
<1> QED BY <1>3, <1>4, <1>5, <1>6, <1>7 DEF DbInv

Stats == [rating : Int, wins : Nat, losses : Nat]

\* The bounds of a rating, product by product.
LEMMA FitsIff ==
  ASSUME NEW stats \in Stats, NEW G \in Nat, NEW L \in Nat,
         G = Gain * stats.wins, L = Loss * stats.losses
  PROVE  Fits(stats) <=> /\ 0 <= stats.rating /\ stats.rating <= Initial + G
                         /\ stats.rating >= Initial + G - L
BY RatingAssumption DEF Fits, Stats

\* Another win or loss adds one gain or loss.
LEMMA Products ==
  ASSUME NEW k \in Nat, NEW n \in Nat
  PROVE  k * n \in Nat /\ k * (n + 1) = k * n + k
OBVIOUS

\* A result moves the rating within its bounds.
LEMMA RatedFits ==
  ASSUME NEW stats \in Stats, Fits(stats), NEW isWin \in BOOLEAN
  PROVE  Rated(stats, isWin) \in Stats /\ Fits(Rated(stats, isWin))
<1>1. Initial \in Nat /\ Gain \in Nat /\ Loss \in Nat
  BY RatingAssumption
<1>2. stats.rating \in Int /\ stats.wins \in Nat /\ stats.losses \in Nat
  BY DEF Stats
<1>3. PICK G \in Nat : G = Gain * stats.wins /\ Gain * (stats.wins + 1) = G + Gain
  BY <1>1, <1>2, Products
<1>4. PICK L \in Nat : L = Loss * stats.losses /\ Loss * (stats.losses + 1) = L + Loss
  BY <1>1, <1>2, Products
<1>5. 0 <= stats.rating /\ stats.rating <= Initial + G /\ stats.rating >= Initial + G - L
  BY <1>3, <1>4, FitsIff
<1>6. CASE isWin
  <2>1. PICK r \in Int, w \in Nat : r = stats.rating + Gain /\ w = stats.wins + 1
    BY <1>1, <1>2
  <2>2. Rated(stats, isWin) = [stats EXCEPT !.wins = w, !.rating = r]
    BY <1>6, <2>1 DEF Rated
  <2>3. PICK new \in Stats : /\ new = Rated(stats, isWin)
                             /\ new.rating = r /\ new.wins = w /\ new.losses = stats.losses
    <3>1. [stats EXCEPT !.wins = w, !.rating = r] \in Stats
      BY DEF Stats
    <3>2. /\ [stats EXCEPT !.wins = w, !.rating = r].rating = r
          /\ [stats EXCEPT !.wins = w, !.rating = r].wins = w
          /\ [stats EXCEPT !.wins = w, !.rating = r].losses = stats.losses
      BY DEF Stats
    <3> QED BY <2>2, <3>1, <3>2
  <2>4. Fits(new)
    <3>1. G + Gain \in Nat /\ G + Gain = Gain * new.wins /\ L = Loss * new.losses
      BY <1>1, <1>3, <1>4, <2>1, <2>3
    <3>2. 0 <= r /\ r <= Initial + (G + Gain) /\ r >= Initial + (G + Gain) - L
      BY <1>1, <1>2, <1>5, <2>1
    <3> QED BY <2>3, <3>1, <3>2, FitsIff
  <2> QED BY <2>3, <2>4
<1>7. CASE ~isWin
  <2>1. PICK r \in Int, l \in Nat : r = Less(stats.rating) /\ l = stats.losses + 1
    BY <1>1, <1>2 DEF Less
  <2>2. Rated(stats, isWin) = [stats EXCEPT !.losses = l, !.rating = r]
    BY <1>7, <2>1 DEF Rated
  <2>3. PICK new \in Stats : /\ new = Rated(stats, isWin)
                             /\ new.rating = r /\ new.wins = stats.wins /\ new.losses = l
    <3>1. [stats EXCEPT !.losses = l, !.rating = r] \in Stats
      BY DEF Stats
    <3>2. /\ [stats EXCEPT !.losses = l, !.rating = r].rating = r
          /\ [stats EXCEPT !.losses = l, !.rating = r].wins = stats.wins
          /\ [stats EXCEPT !.losses = l, !.rating = r].losses = l
      BY DEF Stats
    <3> QED BY <2>2, <3>1, <3>2
  <2>4. Fits(new)
    <3>1. L + Loss \in Nat /\ G = Gain * new.wins /\ L + Loss = Loss * new.losses
      BY <1>1, <1>3, <1>4, <2>1, <2>3
    <3>2. 0 <= r /\ r <= Initial + G /\ r >= Initial + G - (L + Loss)
      BY <1>1, <1>2, <1>5, <2>1 DEF Less
    <3> QED BY <2>3, <3>1, <3>2, FitsIff
  <2> QED BY <2>3, <2>4
<1> QED BY <1>6, <1>7

\* One more result changes one row, and keeps it within what the results allow.
LEMMA StatsKeep ==
  ASSUME DbInv, NEW p \in Players, NEW isWin \in BOOLEAN, updatePlayerStats(p, isWin)
  PROVE  Known' = Known /\ users' \in [Known -> Stats] /\ RatingFits'
<1>1. users \in [Known -> Stats] /\ RatingFits
  BY DEF DbInv, DbTypeOK, Stats
<1>2. CASE ~(dbUp /\ p \in Known)
  <2>1. users' = users
    BY <1>2 DEF updatePlayerStats
  <2> QED BY <1>1, <2>1 DEF RatingFits, Known, Fits
<1>3. CASE dbUp /\ p \in Known
  <2>1. users' = [users EXCEPT ![p] = Rated(users[p], isWin)]
    BY <1>3 DEF updatePlayerStats
  <2>2. Rated(users[p], isWin) \in Stats /\ Fits(Rated(users[p], isWin))
    BY <1>1, <1>3, RatedFits DEF RatingFits
  <2>3. users' \in [Known -> Stats] /\ Known' = Known
    BY <1>1, <2>1, <2>2 DEF Known
  <2>4. ASSUME NEW q \in Known PROVE Fits(users'[q])
    BY <1>1, <1>3, <2>1, <2>2 DEF RatingFits
  <2> QED BY <2>3, <2>4 DEF RatingFits
<1> QED BY <1>2, <1>3

-----------------------------------------------------------------------------
(* Friends.                                                                *)

\* Whatever a packet does to the table, the accounts and the matches stay.
LEMMA FriendsPacketKeeps ==
  ASSUME DbInv, Social
  PROVE  DbInv'
<1>1. /\ UNCHANGED <<users, dbUp, matches, clock, reporting, work>>
      /\ Known' = Known
  BY DEF Social, FriendsPacket, sendFriendRequest, acceptFriendRequest, rejectFriendRequest,
         removeFriend, accountVars, resultVars, Known
<1>2. RatingFits' /\ ReportSound' /\ Dated'
  BY <1>1 DEF DbInv, RatingFits, ReportSound, Inserted, Dated, Recorded
<1>3. PICK p \in Known, q \in Players :
        \/ sendFriendRequest(p, q) \/ acceptFriendRequest(p, q)
        \/ rejectFriendRequest(p, q) \/ removeFriend(p, q)
  BY DEF Social, FriendsPacket
<1>4. /\ p \in Players
      /\ status \in [Players \X Players -> {NoRow, "PENDING", "ACCEPTED"}]
      /\ \A a, b \in Players : status[<<a, b>>] # NoRow => a \in Known /\ b \in Known
      /\ said \subseteq Players \X Players /\ oneSided \subseteq Players \X Players
      /\ RowsSaid /\ Mutual
  BY DEF DbInv, DbTypeOK, FriendInv, Pairs
<1> DEFINE Fine ==
      /\ status' \in [Players \X Players -> {NoRow, "PENDING", "ACCEPTED"}]
      /\ \A a, b \in Players : status'[<<a, b>>] # NoRow => a \in Known /\ b \in Known
      /\ said' \subseteq Players \X Players /\ oneSided' \subseteq Players \X Players
      /\ RowsSaid' /\ Mutual'
<1>5. ASSUME sendFriendRequest(p, q) PROVE Fine
  BY <1>4, <1>5, NoRowAssumption DEF sendFriendRequest, Stored, RowsSaid, Mutual
<1>6. ASSUME acceptFriendRequest(p, q) PROVE Fine
  BY <1>4, <1>6, NoRowAssumption DEF acceptFriendRequest, Accepted, Stored, RowsSaid, Mutual
<1>7. ASSUME rejectFriendRequest(p, q) PROVE Fine
  BY <1>4, <1>7, NoRowAssumption DEF rejectFriendRequest, RowsSaid, Mutual
<1>8. ASSUME removeFriend(p, q) PROVE Fine
  BY <1>4, <1>8, NoRowAssumption DEF removeFriend, Pairs, RowsSaid, Mutual
<1>9. Fine
  BY <1>3, <1>5, <1>6, <1>7, <1>8
<1>10. DbTypeOK'
  BY <1>1, <1>9 DEF DbInv, DbTypeOK, Pairs
<1> QED BY <1>2, <1>9, <1>10 DEF DbInv, FriendInv

-----------------------------------------------------------------------------
(* Reports.                                                                *)

\* A step of a report that leaves accounts and matches alone has to keep the
\* report sound.
LEMMA ReportOnly ==
  ASSUME DbInv, UNCHANGED <<users, matches, clock, friendVars>>, dbUp' \in BOOLEAN,
         work' \subseteq Known, ReportSound'
  PROVE  DbInv'
BY DEF DbInv, DbTypeOK, RatingFits, FriendInv, RowsSaid, Mutual, Known, friendVars, Dated, Recorded

\* A report starts with players who have accounts, and has inserted nothing.
LEMMA ReportKeeps ==
  ASSUME DbInv, Report, UNCHANGED friendVars
  PROVE  DbInv'
<1>1. PICK m \in MatchIds, w \in Players \cup {NoPlayer}, list \in Lists :
        \E winners \in (SUBSET Range(list)) \cup {{w}} :
          reporting' = [at |-> "match", match |-> m, winner |-> w, players |-> list,
                        winners |-> winners, next |-> 1]
  BY DEF Report
<1>2. list \in Seq(Players) /\ Range(list) \subseteq Players
  BY DEF Lists, Range
<1>3. reporting' \in Reports
  BY <1>1, <1>2 DEF Reports
<1>4. work = {} /\ work' = work
  BY DEF DbInv, ReportSound, Report, Idle, NoReport
<1>5. ReportSound'
  BY <1>1, <1>3, <1>4 DEF ReportSound
<1> QED BY <1>4, <1>5, ReportOnly DEF Report, accountVars, DbInv, DbTypeOK

\* A report keeps its type from one statement to the next.
LEMMA GoToProperties ==
  ASSUME reporting \in Reports, NEW at \in {"idle", "match", "players", "rate"},
         NEW next \in Nat \ {0}, GoTo(at, next)
  PROVE  /\ reporting' \in Reports
         /\ reporting'.at = at /\ reporting'.next = next
         /\ reporting'.players = reporting.players /\ reporting'.match = reporting.match
         /\ reporting'.winner = reporting.winner
BY DEF GoTo, Reports

\* The transaction is over, and the ratings are next.
LEMMA RollbackSound ==
  ASSUME DbInv, Rollback, reporting.at # "idle"
  PROVE  ReportSound' /\ work' = {}
<1>1. work' = {} /\ GoTo("rate", 1) /\ reporting \in Reports /\ reporting.match \in MatchIds
  BY DEF DbInv, ReportSound, Rollback
<1> QED BY <1>1, GoToProperties DEF ReportSound

\* A match that is in the table, or a winner without account, ends the transaction.
LEMMA InsertMatchKeeps ==
  ASSUME DbInv, InsertMatch, UNCHANGED friendVars
  PROVE  DbInv'
<1>1. UNCHANGED <<users, dbUp, matches, clock>> /\ reporting.at = "match"
  BY DEF InsertMatch, accountVars
<1>2. CASE Rollback
  BY <1>1, <1>2, RollbackSound, ReportOnly DEF DbInv, DbTypeOK
<1>3. CASE ~Rollback
  <2>1. /\ matches[reporting.match] = None /\ reporting.winner \in Known \cup {NoPlayer}
        /\ GoTo("players", 1)
        /\ work' = work /\ work = {} /\ Known' = Known
        /\ reporting \in Reports /\ reporting.match \in MatchIds
    BY <1>1, <1>3 DEF InsertMatch, Known, DbInv, ReportSound
  <2>2. /\ reporting' \in Reports
        /\ reporting'.at = "players" /\ reporting'.next = 1
        /\ reporting'.players = reporting.players /\ reporting'.match = reporting.match
        /\ reporting'.winner = reporting.winner
    BY <2>1, GoToProperties
  <2>3. Len(reporting.players) \in Nat
    BY <2>1 DEF Reports
  <2>4. Inserted'
    BY <1>1, <2>1, <2>2, <2>3 DEF Inserted
  <2>5. ReportSound'
    BY <1>1, <2>1, <2>2, <2>4 DEF ReportSound
  <2> QED BY <1>1, <2>1, <2>5, ReportOnly DEF DbInv, DbTypeOK
<1> QED BY <1>2, <1>3

\* A player who is inserted again, or has no account, ends the transaction.
LEMMA InsertPlayerKeeps ==
  ASSUME DbInv, InsertPlayer, UNCHANGED friendVars
  PROVE  DbInv'
<1>1. /\ UNCHANGED <<users, dbUp, matches, clock>> /\ Known' = Known
      /\ reporting.at = "players" /\ reporting.next <= Len(reporting.players)
  BY DEF InsertPlayer, accountVars, Known
<1>2. CASE Rollback
  BY <1>1, <1>2, RollbackSound, ReportOnly DEF DbInv, DbTypeOK
<1>3. CASE ~Rollback
  <2> DEFINE n == reporting.next
             p == reporting.players[n]
  <2>1. /\ p \in Known \ work /\ work' = work \cup {p}
        /\ GoTo("players", n + 1)
        /\ reporting \in Reports /\ reporting.match \in MatchIds /\ Inserted
    BY <1>1, <1>3 DEF InsertPlayer, DbInv, ReportSound
  <2>2. n \in Nat \ {0} /\ reporting.players \in Seq(Players)
    BY <2>1 DEF Reports
  <2>3. /\ reporting' \in Reports /\ reporting'.at = "players" /\ reporting'.next = n + 1
        /\ reporting'.players = reporting.players /\ reporting'.match = reporting.match
        /\ reporting'.winner = reporting.winner
    BY <2>1, <2>2, GoToProperties
  <2>4. 1..((n + 1) - 1) = 1..(n - 1) \cup {n}
    BY <2>2
  <2>5. Inserted'
    <3>1. work' = {reporting.players[i] : i \in 1..((n + 1) - 1)}
      BY <2>1, <2>4 DEF Inserted
    <3>2. \A i, j \in 1..((n + 1) - 1) : reporting.players[i] = reporting.players[j] => i = j
      BY <2>1, <2>4 DEF Inserted
    <3> QED BY <1>1, <2>1, <2>2, <2>3, <3>1, <3>2 DEF Inserted
  <2>6. ReportSound'
    BY <2>1, <2>3, <2>5 DEF ReportSound
  <2> QED BY <1>1, <2>1, <2>6, ReportOnly DEF DbInv, DbTypeOK
<1> QED BY <1>2, <1>3

\* When all players of a report are inserted, they are those it names, each
\* of them once.
LEMMA AllInserted ==
  ASSUME DbInv, reporting.at = "players", reporting.next > Len(reporting.players)
  PROVE  /\ work = Range(reporting.players)
         /\ Cardinality(work) = Len(reporting.players)
         /\ matches[reporting.match] = None
         /\ reporting.match \in MatchIds
         /\ reporting.winner \in Known \cup {NoPlayer}
<1> DEFINE list == reporting.players
           n == Len(list)
<1>1. reporting \in Reports /\ reporting.match \in MatchIds /\ Inserted
  BY DEF DbInv, ReportSound
<1>2. list \in Seq(Players) /\ n \in Nat /\ reporting.next \in Nat
  BY <1>1 DEF Reports
<1>3. 1..(reporting.next - 1) = 1..n
  BY <1>1, <1>2 DEF Inserted
<1>4. work = Range(list)
  BY <1>1, <1>2, <1>3 DEF Inserted, Range
<1>5. list \in Bijection(1..n, work)
  <2>1. list \in [1..n -> work]
    BY <1>2, <1>4 DEF Range
  <2> QED BY <1>1, <1>2, <1>3, <1>4, <2>1 DEF Inserted, Bijection, Injection, Surjection, Range, IsInjective
<1>6. Cardinality(1..n) = n /\ IsFiniteSet(1..n)
  <2> HIDE DEF n
  <2>1. 1 \in Int /\ n \in Int
    BY <1>2
  <2>2. /\ IsFiniteSet(1..n)
        /\ Cardinality(1..n) = IF 1 > n THEN 0 ELSE n - 1 + 1
    BY <2>1, FS_Interval, Zenon
  <2> QED BY <1>2, <2>2
<1>7. Cardinality(work) = n
  BY <1>5, <1>6, FS_Bijection DEF ExistsBijection
<1> QED BY <1>1, <1>4, <1>7 DEF Inserted

\* A match that is committed has every player of the report.
LEMMA CommitKeeps ==
  ASSUME DbInv, Commit, UNCHANGED friendVars
  PROVE  DbInv'
<1>1. /\ UNCHANGED <<users, dbUp>> /\ Known' = Known
      /\ reporting.at = "players" /\ reporting.next > Len(reporting.players)
  BY DEF Commit, accountVars, Known
<1>2. ReportSound' /\ work' = {}
  BY <1>1, RollbackSound DEF Commit
<1> DEFINE row == [winner |-> reporting.winner, players |-> work, timestamp |-> clock]
           Rows == [winner : Known \cup {NoPlayer}, players : SUBSET Known, timestamp : Nat]
<1>3. row \in Rows /\ row.timestamp = clock /\ reporting.match \in MatchIds /\ clock \in Nat
  BY <1>1, AllInserted DEF DbInv, DbTypeOK
<1>4. \/ matches' = [matches EXCEPT ![reporting.match] = row] /\ clock' = clock + 1
      \/ UNCHANGED <<matches, clock>>
  BY DEF Commit
<1> HIDE DEF row
<1>5. matches' \in [MatchIds -> Rows \cup {None}] /\ clock' \in Nat
  BY <1>3, <1>4 DEF DbInv, DbTypeOK
<1>6. Dated'
  <2>1. CASE UNCHANGED <<matches, clock>>
    BY <2>1 DEF DbInv, Dated, Recorded
  <2>2. CASE matches' = [matches EXCEPT ![reporting.match] = row] /\ clock' = clock + 1
    <3>1. Recorded' \subseteq Recorded \cup {reporting.match}
      BY <1>3, <2>2 DEF Recorded, DbInv, DbTypeOK
    <3>2. IsFiniteSet(Recorded')
      BY <3>1, FS_AddElement, FS_Subset DEF DbInv, Dated
    <3>3. \A m \in Recorded : matches[m].timestamp \in Nat /\ matches[m].timestamp < clock
      BY DEF DbInv, DbTypeOK, Dated, Recorded
    <3>4. \A m \in Recorded' : m # reporting.match => matches'[m] = matches[m] /\ m \in Recorded
      BY <1>3, <2>2, <3>1 DEF DbInv, DbTypeOK
    <3>5. matches'[reporting.match] = row
      BY <1>3, <2>2 DEF DbInv, DbTypeOK
    <3>6. ASSUME NEW m \in Recorded' PROVE matches'[m].timestamp < clock'
      BY <1>3, <2>2, <3>3, <3>4, <3>5
    <3> QED BY <3>2, <3>6 DEF Dated
  <2> QED BY <1>4, <2>1, <2>2
<1> QED BY <1>1, <1>2, <1>5, <1>6
        DEF DbInv, DbTypeOK, RatingFits, FriendInv, RowsSaid, Mutual, friendVars

\* Ratings are updated player by player, outside of the transaction.
LEMMA RateKeeps ==
  ASSUME DbInv, Rate, UNCHANGED friendVars
  PROVE  DbInv'
<1>1. /\ UNCHANGED <<dbUp, matches, clock, work, status, said, oneSided>>
      /\ reporting.at = "rate" /\ work = {} /\ reporting \in Reports
      /\ reporting.match \in MatchIds
  BY DEF Rate, friendVars, DbInv, ReportSound
<1>2. CASE reporting.next > Len(reporting.players)
  <2>1. users' = users /\ reporting' = NoReport
    BY <1>2 DEF Rate
  <2>2. ReportSound'
    BY <1>1, <2>1 DEF ReportSound, NoReport, Reports
  <2> QED BY <1>1, <2>1, <2>2, ReportOnly DEF friendVars, DbInv, DbTypeOK
<1>3. CASE ~(reporting.next > Len(reporting.players))
  <2> DEFINE p == reporting.players[reporting.next]
  <2>1. p \in Players /\ reporting.next \in Nat \ {0}
    BY <1>1, <1>3 DEF Reports
  <2>2. /\ updatePlayerStats(p, p \in reporting.winners)
        /\ GoTo("rate", reporting.next + 1)
    BY <1>1, <1>3 DEF Rate
  <2>3. /\ Known' = Known /\ RatingFits'
        /\ users' \in [Known -> [rating : Int, wins : Nat, losses : Nat]]
    <3>1. (p \in reporting.winners) \in BOOLEAN
      OBVIOUS
    <3> QED BY <2>1, <2>2, <3>1, StatsKeep DEF Stats
  <2>4. ReportSound'
    BY <1>1, <2>1, <2>2, GoToProperties DEF ReportSound
  <2> QED BY <1>1, <2>3, <2>4 DEF DbInv, DbTypeOK, FriendInv, RowsSaid, Mutual, Dated, Recorded
<1> QED BY <1>2, <1>3

\* Neither a lost database nor a restart leaves anything half done.
LEMMA FaultKeeps ==
  ASSUME DbInv, (LoseDatabase /\ UNCHANGED resultVars) \/ Restart, UNCHANGED friendVars
  PROVE  DbInv'
<1>1. CASE LoseDatabase /\ UNCHANGED resultVars
  <2>1. ReportSound'
    BY <1>1 DEF LoseDatabase, resultVars, DbInv, ReportSound, Inserted, Known
  <2> QED BY <1>1, <2>1, ReportOnly DEF LoseDatabase, resultVars, DbInv, DbTypeOK
<1>2. CASE Restart
  <2>1. ReportSound'
    BY <1>2 DEF Restart, ReportSound, NoReport, Reports
  <2> QED BY <1>2, <2>1, ReportOnly DEF Restart
<1> QED BY <1>1, <1>2

-----------------------------------------------------------------------------
(* The theorems.                                                           *)

\* DbInv is an invariant.
THEOREM Invariance == DbSpec => []DbInv
<1>1. DbInv /\ [DbNext]_dbVars => DbInv'
  <2> SUFFICES ASSUME DbInv, [DbNext]_dbVars PROVE DbInv'
    OBVIOUS
  <2>1. CASE UNCHANGED dbVars
    BY <2>1 DEF dbVars, accountVars, friendVars, resultVars, DbInv, DbTypeOK, RatingFits,
                FriendInv, RowsSaid, Mutual, ReportSound, Inserted, Known, Dated, Recorded
  <2>2. CASE ResultsStep /\ UNCHANGED friendVars
    BY <2>2, ReportKeeps, InsertMatchKeeps, InsertPlayerKeeps, CommitKeeps, RateKeeps
       DEF ResultsStep
  <2>3. CASE LoseDatabase /\ UNCHANGED <<friendVars, resultVars>>
    BY <2>3, FaultKeeps
  <2>4. CASE Restart /\ UNCHANGED friendVars
    BY <2>4, FaultKeeps
  <2> QED BY <2>1, <2>2, <2>3, <2>4, RegisterKeeps, FriendsPacketKeeps DEF DbNext
<1> QED BY InitDbInv, <1>1, PTL DEF DbSpec

\* The variables keep their types, and no row refers to a missing one.
THEOREM TypeCorrect == DbSpec => []DbTypeOK
<1>1. DbInv => DbTypeOK
  BY DEF DbInv
<1> QED BY Invariance, <1>1, PTL

\* Ratings stay within what the results of the player allow.
THEOREM RatingFitsHolds == DbSpec => []RatingFits
<1>1. DbInv => RatingFits
  BY DEF DbInv
<1> QED BY Invariance, <1>1, PTL

\* Nobody is listed without having said so, and friends are friends of each
\* other, except where one accepted unasked or rejected later.
THEOREM FriendshipHolds == DbSpec => []Friendship
<1>1. DbInv => Friendship
  <2> SUFFICES ASSUME DbInv, NEW p \in Known, NEW f \in getFriendsList(p)
               PROVE  IF f.status = "INCOMING_REQUEST" THEN <<f.id, p>> \in said
                      ELSE /\ <<p, f.id>> \in said
                           /\ f.status = "ACCEPTED" /\ <<p, f.id>> \notin oneSided =>
                                [id |-> p, status |-> "ACCEPTED"] \in getFriendsList(f.id)
    BY DEF Friendship
  <2>1. /\ Known \subseteq Players /\ p \in Players
        /\ \A a, b \in Players : status[<<a, b>>] \in {NoRow, "PENDING", "ACCEPTED"}
        /\ RowsSaid /\ Mutual
    BY DEF DbInv, DbTypeOK, FriendInv, Pairs
  <2>2. CASE \E q \in Known : status[<<p, q>>] # NoRow /\ f = [id |-> q, status |-> status[<<p, q>>]]
    <3>1. PICK q \in Known : status[<<p, q>>] # NoRow /\ f = [id |-> q, status |-> status[<<p, q>>]]
      BY <2>2
    <3>2. f.id = q /\ f.status = status[<<p, q>>] /\ f.status # "INCOMING_REQUEST" /\ q \in Players
      BY <2>1, <3>1
    <3>3. <<p, q>> \in said
      BY <2>1, <3>1, <3>2 DEF RowsSaid
    <3>4. f.status = "ACCEPTED" /\ <<p, q>> \notin oneSided => status[<<q, p>>] = "ACCEPTED"
      BY <2>1, <3>2 DEF Mutual
    <3>5. status[<<q, p>>] = "ACCEPTED" => [id |-> p, status |-> "ACCEPTED"] \in getFriendsList(q)
      BY NoRowAssumption DEF getFriendsList
    <3> QED BY <3>2, <3>3, <3>4, <3>5
  <2>3. CASE \E q \in Known : status[<<q, p>>] = "PENDING" /\ f = [id |-> q, status |-> "INCOMING_REQUEST"]
    <3>1. PICK q \in Known : status[<<q, p>>] = "PENDING" /\ f = [id |-> q, status |-> "INCOMING_REQUEST"]
      BY <2>3
    <3>2. <<q, p>> \in said
      BY <2>1, <3>1, NoRowAssumption DEF RowsSaid
    <3> QED BY <3>1, <3>2
  <2> QED BY <2>2, <2>3 DEF getFriendsList
<1> QED BY Invariance, <1>1, PTL

-----------------------------------------------------------------------------
(* Histories.                                                              *)

\* What of the past of p is in its history, by the ids of the matches.
Shown(p) == {m \in Played(p) : Cardinality(Newer(p, m)) < HistoryLimit}

\* The matches of a player are finitely many.
LEMMA PlayedProperties ==
  ASSUME DbInv, NEW p, NEW m \in Recorded
  PROVE  /\ IsFiniteSet(Newer(p, m)) /\ Cardinality(Newer(p, m)) \in Nat
         /\ matches[m].timestamp \in Nat
<1>1. Newer(p, m) \subseteq Recorded
  BY DEF Newer, Played
<1>2. IsFiniteSet(Newer(p, m))
  BY <1>1, FS_Subset DEF DbInv, Dated
<1> QED BY <1>2, FS_CardinalityType DEF DbInv, DbTypeOK, Recorded

\* A history holds as many entries as matches are shown.
LEMMA HistorySize ==
  ASSUME NEW S, IsFiniteSet(S), NEW rows
  PROVE  Cardinality({[id |-> m, match |-> rows[m]] : m \in S}) = Cardinality(S)
<1> DEFINE f == [m \in S |-> [id |-> m, match |-> rows[m]]]
           H == {[id |-> m, match |-> rows[m]] : m \in S}
<1>1. H = {f[m] : m \in S}
  OBVIOUS
<1>2. \A m, n \in S : f[m] = f[n] => m = n
  <2>1. \A m \in S : f[m].id = m
    OBVIOUS
  <2> QED BY <2>1, Zenon
<1> HIDE DEF H
<1>3. f \in Bijection(S, H)
  <2>1. DOMAIN f = S /\ f = [m \in S |-> f[m]]
    OBVIOUS
  <2> HIDE DEF f
  <2> QED BY <1>1, <1>2, <2>1 DEF Bijection, Injection, Surjection, IsInjective
<1>4. Cardinality(H) = Cardinality(S)
  BY <1>3, FS_Bijection DEF ExistsBijection
<1> QED BY <1>4 DEF H

\* A step that commits a match.
Committed(m, row) ==
  /\ m = reporting.match /\ m \in MatchIds
  /\ matches[m] = None /\ row # None
  /\ row = [winner |-> reporting.winner, players |-> Range(reporting.players),
            timestamp |-> clock]
  /\ matches' = [matches EXCEPT ![m] = row] /\ matches'[m] = row
  /\ Recorded' = Recorded \cup {m} /\ m \notin Recorded
  /\ \A x \in Recorded : matches'[x] = matches[x]
  /\ Cardinality(Range(reporting.players)) = Len(reporting.players)

\* Histories change with a commit only.
LEMMA ChangeIsCommit ==
  ASSUME DbInv, DbInv', [DbNext]_dbVars, matches' # matches
  PROVE  \E m, row : Committed(m, row)
<1>1. Commit /\ dbUp
  BY DEF DbNext, dbVars, resultVars, Register, Social, ResultsStep, Report, InsertMatch,
         InsertPlayer, Commit, Rate, Restart, LoseDatabase
<1> DEFINE m == reporting.match
           row == [winner |-> reporting.winner, players |-> Range(reporting.players),
                   timestamp |-> clock]
<1>2. /\ work = Range(reporting.players)
      /\ Cardinality(work) = Len(reporting.players)
      /\ matches[m] = None /\ m \in MatchIds
  BY <1>1, AllInserted DEF Commit
<1>3. matches' = [matches EXCEPT ![m] = row] /\ matches'[m] = row
  BY <1>1, <1>2 DEF Commit, DbInv, DbTypeOK
<1>4. \A x \in MatchIds \ {m} : matches'[x] = matches[x]
  BY <1>3 DEF DbInv, DbTypeOK
<1>5. row # None
  BY <1>2, <1>3, <1>4 DEF DbInv, DbTypeOK
<1> HIDE DEF row
<1>6. Recorded' = Recorded \cup {m} /\ m \notin Recorded
  BY <1>2, <1>3, <1>4, <1>5 DEF Recorded
<1>7. \A x \in Recorded : matches'[x] = matches[x]
  BY <1>4, <1>6 DEF Recorded
<1>8. Committed(m, row)
  BY <1>2, <1>3, <1>5, <1>6, <1>7 DEF Committed, row
<1> QED BY <1>8

\* What a commit changes in the matches of p.
LEMMA CommitChanges ==
  ASSUME DbInv, DbInv', NEW m, NEW row, Committed(m, row), NEW p
  PROVE  /\ Played(p)' = IF p \in row.players THEN Played(p) \cup {m} ELSE Played(p)
         /\ m \notin Played(p)
         /\ \A x \in Played(p) : /\ matches'[x] = matches[x]
                                 /\ matches[x].timestamp < matches'[m].timestamp
                                 /\ matches[x].timestamp \in Nat
         /\ matches'[m].timestamp \in Nat
         /\ \A x \in Played(p) :
              Newer(p, x)' = IF p \in row.players THEN Newer(p, x) \cup {m} ELSE Newer(p, x)
<1>1. Played(p)' = IF p \in row.players THEN Played(p) \cup {m} ELSE Played(p)
  BY DEF Committed, Played
<1>2. m \notin Played(p) /\ \A x \in Played(p) : x \in Recorded /\ matches'[x] = matches[x]
  BY DEF Committed, Played
<1>3. matches'[m].timestamp = clock /\ clock \in Nat
  BY DEF Committed, DbInv, DbTypeOK
<1>4. \A x \in Recorded : matches[x].timestamp \in Nat /\ matches[x].timestamp < clock
  BY DEF DbInv, DbTypeOK, Dated, Recorded
<1>5. ASSUME NEW x \in Played(p)
      PROVE  Newer(p, x)' = IF p \in row.players THEN Newer(p, x) \cup {m} ELSE Newer(p, x)
  <2>1. /\ matches'[x] = matches[x] /\ matches[x].timestamp < matches'[m].timestamp
        /\ matches[x].timestamp \in Nat /\ matches'[m].timestamp \in Nat
    BY <1>2, <1>3, <1>4
  <2>2. \A y \in Played(p) : matches'[y] = matches[y]
    BY <1>2
  <2> QED BY <1>1, <2>1, <2>2 DEF Newer
<1> QED BY <1>1, <1>2, <1>3, <1>4, <1>5

\* The matches shown after a commit, when an old one is no longer, are all
\* newer, and as many as may be shown.
LEMMA PushedOut ==
  ASSUME DbInv, DbInv', NEW m, NEW row, Committed(m, row), NEW p,
         NEW gone \in Shown(p), gone \notin Shown(p)'
  PROVE  /\ Shown(p)' = Newer(p, gone)'
         /\ Cardinality(Shown(p)') = HistoryLimit
<1>1. gone \in Played(p) /\ gone \in Recorded /\ Cardinality(Newer(p, gone)) < HistoryLimit
  BY DEF Shown, Played
<1>2. /\ IsFiniteSet(Newer(p, gone)) /\ Cardinality(Newer(p, gone)) \in Nat
  BY <1>1, PlayedProperties
<1>3. HistoryLimit \in Nat
  BY HistoryAssumption
<1>4. gone \in Played(p)'
  BY <1>1, CommitChanges
<1>5. p \in row.players
  <2>1. CASE p \notin row.players
    <3>1. Newer(p, gone)' = Newer(p, gone)
      BY <1>1, <2>1, CommitChanges
    <3> QED BY <1>1, <1>4, <3>1 DEF Shown
  <2> QED BY <2>1
<1>6. Newer(p, gone)' = Newer(p, gone) \cup {m} /\ m \notin Newer(p, gone)
  BY <1>1, <1>5, CommitChanges DEF Newer
<1>7. Cardinality(Newer(p, gone)') = Cardinality(Newer(p, gone)) + 1
  BY <1>2, <1>6, FS_AddElement
<1>8. ~(Cardinality(Newer(p, gone)') < HistoryLimit)
  BY <1>4 DEF Shown
<1>9. Cardinality(Newer(p, gone)') = HistoryLimit
  BY <1>1, <1>2, <1>3, <1>7, <1>8
<1>10. \A x \in Played(p)' : x \in Recorded' /\ matches'[x].timestamp \in Nat
  BY DEF DbInv, DbTypeOK, Played, Recorded
<1>11. IsFiniteSet(Newer(p, gone)')
  BY <1>2, <1>6, FS_AddElement
<1>12. ASSUME NEW x \in Newer(p, gone)' PROVE x \in Shown(p)'
  <2>1. x \in Played(p)' /\ matches'[x].timestamp > matches'[gone].timestamp
    BY DEF Newer
  <2>2. Newer(p, x)' \subseteq Newer(p, gone)' /\ x \notin Newer(p, x)'
    BY <1>4, <1>10, <2>1 DEF Newer
  <2>3. /\ Cardinality(Newer(p, x)') \in Nat
        /\ Cardinality(Newer(p, x)') < Cardinality(Newer(p, gone)')
    <3>1. Newer(p, x)' # Newer(p, gone)'
      BY <2>2
    <3>2. IsFiniteSet(Newer(p, x)')
      BY <1>11, <2>2, FS_Subset
    <3> QED BY <1>11, <2>2, <3>1, <3>2, FS_Subset, FS_CardinalityType
  <2> QED BY <1>9, <2>1, <2>3 DEF Shown
<1>13. ASSUME NEW x \in Played(p)', x \notin Newer(p, gone)' PROVE x \notin Shown(p)'
  <2>1. ~(matches'[x].timestamp > matches'[gone].timestamp)
    BY <1>13 DEF Newer
  <2>2. Newer(p, gone)' \subseteq Newer(p, x)'
    BY <1>4, <1>10, <2>1 DEF Newer
  <2>3. IsFiniteSet(Newer(p, x)')
    <3>1. Newer(p, x)' \subseteq Recorded'
      BY DEF Newer, Played
    <3> QED BY <3>1, FS_Subset DEF DbInv, Dated
  <2>4. /\ Cardinality(Newer(p, gone)') <= Cardinality(Newer(p, x)')
        /\ Cardinality(Newer(p, x)') \in Nat
    BY <2>2, <2>3, FS_Subset, FS_CardinalityType
  <2> QED BY <1>3, <1>9, <2>4 DEF Shown
<1>14. Shown(p)' \subseteq Played(p)'
  BY DEF Shown
<1>15. Shown(p)' = Newer(p, gone)'
  BY <1>12, <1>13, <1>14
<1> QED BY <1>9, <1>15

\* A match enters the histories of all its players whole and at once, as one
\* report told it, and only as many newer ones as are sent push it out.
THEOREM HistoryWholeHolds == DbSpec => HistoryWhole
<1> DEFINE tables == <<users, dbUp, matches, clock, reporting, work>>
           Whole == EntersAll /\ \A p \in Players : EntersNew(p) /\ LeavesOldest(p)
<1>1. DbInv /\ DbInv' /\ [DbNext]_dbVars => [Whole]_tables
  <2> SUFFICES ASSUME DbInv, DbInv', [DbNext]_dbVars PROVE Whole \/ UNCHANGED tables
    OBVIOUS
  <2>1. CASE matches' = matches
    <3>1. Recorded' = Recorded /\ \A p : getMatchHistory(p)' = getMatchHistory(p)
      BY <2>1 DEF getMatchHistory, Newer, Played, Recorded
    <3> QED BY <3>1 DEF EntersAll, EntersNew, LeavesOldest
  <2>2. CASE matches' # matches
    <3>1. PICK m, row : Committed(m, row)
      BY <2>2, ChangeIsCommit
    <3> DEFINE Entry(x) == [id |-> x, match |-> matches[x]]
    <3>2. \A p : getMatchHistory(p) = {Entry(x) : x \in Shown(p)}
      BY DEF getMatchHistory, Shown
    <3>3. \A p : getMatchHistory(p)' = {[id |-> x, match |-> matches'[x]] : x \in Shown(p)'}
      BY DEF getMatchHistory, Shown
    <3>4. /\ [id |-> m, match |-> matches'[m]] = Told(m) /\ row.players = Range(reporting.players)
          /\ matches'[m] = row /\ m = reporting.match /\ Recorded' \ Recorded = {m}
          /\ Cardinality(Range(reporting.players)) = Len(reporting.players)
      BY <3>1 DEF Committed, Told
    <3>5. ASSUME NEW p PROVE p \in row.players => m \in Shown(p)'
      <4> SUFFICES ASSUME p \in row.players PROVE m \in Shown(p)'
        OBVIOUS
      <4>1. m \in Played(p)'
        BY <3>1, CommitChanges
      <4>2. Newer(p, m)' = {}
        BY <3>1, CommitChanges DEF Newer
      <4>3. Cardinality(Newer(p, m)') = 0
        BY <4>2, FS_EmptySet
      <4> QED BY <4>1, <4>3, HistoryAssumption DEF Shown
    <3>6. EntersAll
      BY <3>3, <3>4, <3>5 DEF EntersAll
    <3>7. ASSUME NEW p \in Players PROVE EntersNew(p)
      <4>1. ASSUME NEW x \in Shown(p)', x # m PROVE x \in Shown(p) /\ matches'[x] = matches[x]
        <5>1. x \in Played(p) /\ matches'[x] = matches[x] /\ x \in Recorded
          BY <3>1, <4>1, CommitChanges DEF Shown, Played
        <5>2. Newer(p, x) \subseteq Newer(p, x)' /\ Cardinality(Newer(p, x)') < HistoryLimit
          BY <3>1, <5>1, CommitChanges DEF Shown
        <5>3. IsFiniteSet(Newer(p, x)')
          <6>1. Newer(p, x)' \subseteq Recorded'
            BY DEF Newer, Played
          <6> QED BY <6>1, FS_Subset DEF DbInv, Dated
        <5>4. /\ Cardinality(Newer(p, x)) <= Cardinality(Newer(p, x)')
              /\ Cardinality(Newer(p, x)) \in Nat /\ Cardinality(Newer(p, x)') \in Nat
          BY <5>2, <5>3, FS_Subset, FS_CardinalityType
        <5>5. Cardinality(Newer(p, x)) < HistoryLimit
          BY <5>2, <5>4, HistoryAssumption
        <5> QED BY <5>1, <5>5 DEF Shown
      <4>2. ASSUME NEW new \in getMatchHistory(p)' \ getMatchHistory(p)
            PROVE  new = Told(m) /\ p \in row.players
        <5>1. PICK x \in Shown(p)' : new = [id |-> x, match |-> matches'[x]]
          BY <3>3
        <5>2. x = m
          <6>1. CASE x # m
            BY <3>2, <4>1, <4>2, <5>1, <6>1
          <6> QED BY <6>1
        <5>3. m \in Played(p)'
          BY <5>1, <5>2 DEF Shown
        <5>4. p \in row.players
          BY <3>1, <5>3, CommitChanges
        <5> QED BY <3>4, <5>1, <5>2, <5>4
      <4>3. Told(m).id = m
        BY DEF Told
      <4> QED BY <3>4, <4>2, <4>3 DEF EntersNew
    <3>8. ASSUME NEW p \in Players PROVE LeavesOldest(p)
      <4> SUFFICES ASSUME NEW gone \in getMatchHistory(p) \ getMatchHistory(p)'
                   PROVE  /\ Cardinality(getMatchHistory(p)') = HistoryLimit
                          /\ \A kept \in getMatchHistory(p)' :
                               kept.match.timestamp > gone.match.timestamp
        BY DEF LeavesOldest
      <4>1. PICK x \in Shown(p) : gone = Entry(x)
        BY <3>2
      <4>2. x \in Played(p) /\ matches'[x] = matches[x]
        BY <3>1, CommitChanges DEF Shown
      <4>3. x \notin Shown(p)'
        BY <3>3, <4>1, <4>2
      <4>4. Shown(p)' = Newer(p, x)' /\ Cardinality(Shown(p)') = HistoryLimit
        BY <3>1, <4>3, PushedOut
      <4>5. Cardinality(getMatchHistory(p)') = Cardinality(Shown(p)')
        <5>1. IsFiniteSet(Shown(p)')
          <6>1. Shown(p)' \subseteq Recorded'
            BY DEF Shown, Played
          <6> QED BY <6>1, FS_Subset DEF DbInv, Dated
        <5> QED BY <3>3, <5>1, HistorySize
      <4>6. \A y \in Newer(p, x)' : matches'[y].timestamp > matches'[x].timestamp
        BY DEF Newer
      <4> QED BY <3>3, <4>1, <4>2, <4>4, <4>5, <4>6
    <3> QED BY <3>6, <3>7, <3>8
  <2> QED BY <2>1, <2>2
<1>2. DbSpec => [][Whole]_tables
  BY Invariance, <1>1, PTL DEF DbSpec
<1> QED BY <1>2 DEF HistoryWhole

=============================================================================
