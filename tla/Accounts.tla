------------------------------ MODULE Accounts ------------------------------
(***************************************************************************)
(* The table `users' (database/PostgresClient.cpp) and the one connection  *)
(* to the database, which is opened at the start and never again.  A call  *)
(* that fails is logged, and its caller goes on.                           *)
(*                                                                         *)
(* Left out: names and passwords; an account is its id.  Ids that are not  *)
(* in use stand for all those no account has.                              *)
(***************************************************************************)
EXTENDS Integers

CONSTANTS
  Players,   \* the ids accounts may be given
  Initial,   \* rating of a new account, 1000
  Gain,      \* what a win adds, 25
  Loss       \* what a loss takes, 15

ASSUME RatingAssumption == Initial \in Nat /\ Gain \in Nat /\ Loss \in Nat

VARIABLES
  users,   \* the rows, by id
  dbUp     \* FALSE once the connection is lost

accountVars == <<users, dbUp>>

Known == DOMAIN users

New == [rating |-> Initial, wins |-> 0, losses |-> 0]

AccountsInit ==
  /\ users = [p \in {} |-> New]
  /\ dbUp = TRUE

createUser(p) ==
  /\ dbUp
  /\ p \notin Known
  /\ users' = [q \in Known \cup {p} |-> IF q = p THEN New ELSE users[q]]
  /\ UNCHANGED dbUp

LoseDatabase ==
  /\ dbUp
  /\ dbUp' = FALSE
  /\ UNCHANGED users

\* Faulty: nothing keeps the rating from getting negative.
LessBelowZero(rating) == rating - Loss

\* GREATEST(0, rating - 15)
Less(rating) == IF rating > Loss THEN rating - Loss ELSE 0

\* A row after one more result.
Rated(stats, isWin) ==
  IF isWin THEN [stats EXCEPT !.wins = @ + 1, !.rating = @ + Gain]
  ELSE [stats EXCEPT !.losses = @ + 1, !.rating = Less(@)]

\* Nothing happens to an id without an account.
updatePlayerStats(p, isWin) ==
  users' = IF dbUp /\ p \in Known THEN [users EXCEPT ![p] = Rated(@, isWin)] ELSE users

-----------------------------------------------------------------------------

Fits(stats) ==
  LET most == Initial + Gain * stats.wins
  IN  /\ stats.rating \in 0..most
      /\ stats.rating >= most - Loss * stats.losses

\* In whatever order the results came, and however many of the losses were
\* cut short at zero: the rating is at least the sum of the results, and at
\* most what the wins alone would give.
RatingFits == \A p \in Known : Fits(users[p])

=============================================================================
