------------------------------ MODULE Results -------------------------------
(***************************************************************************)
(* The tables `matches' and `match_players': reports of results            *)
(* (match/MatchManager.cpp).  A report is one transaction, statement by    *)
(* statement, and then one update of `users' per player, each a            *)
(* transaction of its own, made whether or not the first one succeeded.    *)
(* The server may crash, and the connection to the database be lost, in    *)
(* between; no other packet is handled meanwhile.                          *)
(*                                                                         *)
(* The database dates a row; as transactions follow one another, so do the *)
(* dates, which are numbers here (its clock is not set back).              *)
(*                                                                         *)
(* Left out: durations.                                                    *)
(***************************************************************************)
EXTENDS Accounts, SequencesExt, FiniteSetsExt

CONSTANTS
  MatchIds,      \* the ids in reports
  NoPlayer,      \* winner 0, stored as NULL
  None,          \* no match
  HistoryLimit,  \* the matches a player is sent at most, 10
  MaxPlayers,    \* bound: players in a report
  MaxGames       \* bound: results of all players, after which no more reports

ASSUME NoPlayerAssumption == NoPlayer \notin Players
ASSUME NoneAssumption == None \notin MatchIds
ASSUME HistoryAssumption == HistoryLimit \in Nat \ {0}

VARIABLES
  matches,    \* the rows of both tables, by match id
  clock,      \* the date of the next row of `matches'
  reporting,  \* the report that is being handled and how far that is
  work        \* the players the open transaction has inserted

resultVars == <<matches, clock, reporting, work>>

Lists == UNION {[1..n -> Players] : n \in 0..MaxPlayers}

NoReport ==
  [at |-> "idle", match |-> None, winner |-> NoPlayer, players |-> << >>,
   winners |-> {}, next |-> 1]

Idle == reporting = NoReport

ResultsInit ==
  /\ matches = [m \in MatchIds |-> None]
  /\ clock = 0
  /\ reporting = NoReport
  /\ work = {}

\* REPORT_MATCH_RESULT, by anybody who is logged in, with any contents; the
\* winner alone is the winners, if there is no list of them.
Report ==
  /\ Idle
  /\ Known # {}
  /\ MapThenSumSet(LAMBDA p : users[p].wins + users[p].losses, Known) < MaxGames
  /\ \E m \in MatchIds, w \in Players \cup {NoPlayer}, list \in Lists :
       \E winners \in (SUBSET Range(list)) \cup {{w}} :
         reporting' = [at |-> "match", match |-> m, winner |-> w, players |-> list,
                       winners |-> winners, next |-> 1]
  /\ UNCHANGED <<accountVars, matches, clock, work>>

\* From a report's statement to the next one.
GoTo(at, next) == reporting' = [reporting EXCEPT !.at = at, !.next = next]

\* The transaction fails and is rolled back; the ratings are next.
Rollback ==
  /\ work' = {}
  /\ GoTo("rate", 1)

InsertMatch ==
  /\ reporting.at = "match"
  /\ IF dbUp /\ matches[reporting.match] = None
        /\ reporting.winner \in Known \cup {NoPlayer}
     THEN GoTo("players", 1) /\ UNCHANGED work
     ELSE Rollback
  /\ UNCHANGED <<accountVars, matches, clock>>

\* Faulty: a player who cannot be inserted is passed over.
InsertPlayerOrSkip ==
  /\ reporting.at = "players" /\ reporting.next <= Len(reporting.players)
  /\ LET p == reporting.players[reporting.next]
     IN  /\ work' = IF dbUp /\ p \in Known THEN work \cup {p} ELSE work
         /\ GoTo("players", reporting.next + 1)
  /\ UNCHANGED <<accountVars, matches, clock>>

\* An unknown player violates the foreign key, one named twice the primary
\* key.
InsertPlayer ==
  /\ reporting.at = "players" /\ reporting.next <= Len(reporting.players)
  /\ LET p == reporting.players[reporting.next]
     IN  IF dbUp /\ p \in Known \ work
         THEN work' = work \cup {p} /\ GoTo("players", reporting.next + 1)
         ELSE Rollback
  /\ UNCHANGED <<accountVars, matches, clock>>

\* The rows of both tables appear.
Commit ==
  /\ reporting.at = "players" /\ reporting.next > Len(reporting.players)
  /\ IF dbUp
     THEN /\ matches' = [matches EXCEPT ![reporting.match] =
                           [winner |-> reporting.winner, players |-> work,
                            timestamp |-> clock]]
          /\ clock' = clock + 1
     ELSE UNCHANGED <<matches, clock>>
  /\ Rollback
  /\ UNCHANGED accountVars

Rate ==
  /\ reporting.at = "rate"
  /\ IF reporting.next > Len(reporting.players)
     THEN reporting' = NoReport /\ UNCHANGED users
     ELSE LET p == reporting.players[reporting.next]
          IN  /\ updatePlayerStats(p, p \in reporting.winners)
              /\ GoTo("rate", reporting.next + 1)
  /\ UNCHANGED <<dbUp, matches, clock, work>>

\* The server is gone and the database rolls back; the server is started
\* again and connects anew.
Restart ==
  /\ reporting' = NoReport
  /\ work' = {}
  /\ dbUp' = TRUE
  /\ UNCHANGED <<users, matches, clock>>

ResultsStep == Report \/ InsertMatch \/ InsertPlayer \/ Commit \/ Rate

Recorded == {m \in MatchIds : matches[m] # None}

Played(p) == {m \in Recorded : p \in matches[m].players}

\* The matches of p that are newer than m.
Newer(p, m) == {x \in Played(p) : matches[x].timestamp > matches[m].timestamp}

\* Faulty: ORDER BY without DESC.
HistoryOfOldest(p) ==
  {[id |-> m, match |-> matches[m]] :
     m \in {x \in Played(p) :
             Cardinality({y \in Played(p) : x \in Newer(p, y)}) < HistoryLimit}}

\* What a player is sent of its past, while the database can be read: its
\* newest matches.
getMatchHistory(p) ==
  {[id |-> m, match |-> matches[m]] :
     m \in {x \in Played(p) : Cardinality(Newer(p, x)) < HistoryLimit}}

-----------------------------------------------------------------------------

\* A match a report told of, with the players it named, dated now.
Told(m) ==
  [id |-> m, match |-> [winner |-> reporting.winner, players |-> Range(reporting.players),
                        timestamp |-> clock]]

\* A new match is in the histories of all the report named.
EntersAll ==
  \A m \in Recorded' \ Recorded :
    /\ m = reporting.match
    /\ Cardinality(Range(reporting.players)) = Len(reporting.players)
    /\ \A p \in Range(reporting.players) : Told(m) \in getMatchHistory(p)'

\* Nothing else comes into the history of p.
EntersNew(p) ==
  \A new \in getMatchHistory(p)' \ getMatchHistory(p) :
    /\ new.id \in Recorded' \ Recorded /\ p \in Range(reporting.players)
    /\ new = Told(new.id)

\* What leaves it is older than all that is left, and the history is full.
LeavesOldest(p) ==
  \A gone \in getMatchHistory(p) \ getMatchHistory(p)' :
    /\ Cardinality(getMatchHistory(p)') = HistoryLimit
    /\ \A kept \in getMatchHistory(p)' : kept.match.timestamp > gone.match.timestamp

\* However reports are repeated, contradict each other, or are cut short by
\* a crash or the loss of the database: a match comes into the histories of
\* all its players at once, as one report told it and with all it named, and
\* stays there as it is until as many newer ones as are sent push it out.
HistoryWhole ==
  [][EntersAll /\ \A p \in Players : EntersNew(p) /\ LeavesOldest(p)
    ]_<<users, dbUp, matches, clock, reporting, work>>

=============================================================================
