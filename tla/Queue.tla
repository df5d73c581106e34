------------------------------- MODULE Queue --------------------------------
(***************************************************************************)
(* The rating based search of src/matchmaking/Queue.cpp, as operators over *)
(* a queue in the order getMatch sorts it to.  Matchmaker.tla is the state *)
(* machine around them.                                                    *)
(*                                                                         *)
(* An entry keeps the seconds it has waited instead of the absolute time   *)
(* it joined; `lag' is how many seconds ago the caller of getMatch read    *)
(* the clock, so waited - lag is the difference the code computes.         *)
(***************************************************************************)
EXTENDS Integers, Sequences, FiniteSets, Functions

CONSTANTS
  Players,
  MatchSize,        \* MATCH_SIZE, the goal of entries that take any size
  QueueTimeout,     \* QUEUE_TIMEOUT, in seconds
  BaseTolerance,    \* 100 rating points
  ExpansionPeriod,  \* 10 seconds
  ExpansionRate,    \* MATCH_EXPANSION_RATE, points gained each period
  AnySize           \* the target of an entry that takes any size: -1

ASSUME ConfigAssumption ==
  /\ MatchSize \in Int /\ QueueTimeout \in Int
  /\ BaseTolerance \in Int /\ ExpansionRate \in Int
  /\ ExpansionPeriod \in Nat \ {0}
  /\ AnySize = -1

Entry == [members : SUBSET Players, averageRating : Int, waited : Nat,
          targetMatchSize : Int]

Size(e) == Cardinality(e.members)

\* The number of players a match built around e has.
Goal(e) == IF e.targetMatchSize = AnySize THEN MatchSize ELSE e.targetMatchSize

waitSeconds(e, lag) == e.waited - lag

\* Integer division of C++: towards zero.
Quotient(a, b) == IF a >= 0 THEN a \div b ELSE -((-a) \div b)

tolerance(e, lag) ==
  BaseTolerance + Quotient(waitSeconds(e, lag), ExpansionPeriod) * ExpansionRate

Distance(a, b) == IF a >= b THEN a - b ELSE b - a

TimedOut(e, lag) == waitSeconds(e, lag) > QueueTimeout

\* Faulty: a team that is a match by itself is skipped as too large.
OversizedWhenFull(e) == Size(e) >= Goal(e)

Oversized(e) == Size(e) > Goal(e)

\* e may be put in the match built around base.
Accepts(base, e, lag) ==
  /\ e.targetMatchSize \in {AnySize, Goal(base)}
  /\ Distance(base.averageRating, e.averageRating) <= tolerance(base, lag)

\* Faulty: an entry is also taken for its own match.
TakesItself(s, i, j, count, lag) ==
  Accepts(s[i], s[j], lag) /\ count + Size(s[j]) <= Goal(s[i])

\* Faulty: a place is kept free.
TakesShort(s, i, j, count, lag) ==
  j # i /\ Accepts(s[i], s[j], lag) /\ count + Size(s[j]) < Goal(s[i])

\* Faulty: every match is searched from the newest entry on.
TakesNewer(s, i, j, count, lag) ==
  /\ j > i
  /\ Accepts(s[i], s[j], lag)
  /\ count + Size(s[j]) <= Goal(s[i])

\* s[j] is taken for the match around s[i] that has `count' players so far.
Takes(s, i, j, count, lag) ==
  /\ j # i
  /\ Accepts(s[i], s[j], lag)
  /\ count + Size(s[j]) <= Goal(s[i])

\* currentCount after the first j entries have been looked at.
Count(s, i, lag) ==
  LET currentCount[j \in 0..Len(s)] ==
        IF j = 0 THEN Size(s[i])
        ELSE IF Takes(s, i, j, currentCount[j - 1], lag)
             THEN currentCount[j - 1] + Size(s[j])
             ELSE currentCount[j - 1]
  IN  currentCount

\* The match around s[i] is complete.  The code stops at the entry that
\* completes it; those behind it hold players too and no longer fit.
Completes(s, i, lag) == Count(s, i, lag)[Len(s)] = Goal(s[i])

\* Faulty: the entry the match is built around stays in the queue.
GroupWithoutBase(s, i, lag) ==
  LET count == Count(s, i, lag)
  IN  {s[j] : j \in {k \in 1..Len(s) : Takes(s, i, k, count[k - 1], lag)}}

Group(s, i, lag) ==
  LET count == Count(s, i, lag)
  IN  {s[j] : j \in {k \in 1..Len(s) : k = i \/ Takes(s, i, k, count[k - 1], lag)}}

\* Faulty: nothing times out.
EndsByMatch(s, i, lag) == ~Oversized(s[i]) /\ Completes(s, i, lag)

\* The search ends at s[i]: it timed out or its match is complete.
Ends(s, i, lag) == ~Oversized(s[i]) /\ (TimedOut(s[i], lag) \/ Completes(s, i, lag))

\* The entries sorted by join time; entries of one second in any order.
Sorted(S) ==
  {s \in [1..Cardinality(S) -> S] :
     /\ IsInjective(s)
     /\ \A i, j \in DOMAIN s : i < j => s[i].waited >= s[j].waited}

\* What getMatch returns for the sorted queue s: the entries it takes out
\* and whether they are matched or timed out.
getMatch(s, lag) ==
  LET ends == {i \in DOMAIN s : Ends(s, i, lag)}
      i    == CHOOSE k \in ends : \A l \in ends : k <= l
  IN  IF ends = {} THEN [outcome |-> "none", out |-> {}]
      ELSE IF TimedOut(s[i], lag)
           THEN [outcome |-> "timeout", out |-> {s[i]}]
           ELSE [outcome |-> "match", out |-> Group(s, i, lag)]

\* removePlayer: the whole entry goes with any of its members.
Removed(S, players) == {e \in S : e.members \cap players = {}}

\* Faulty: what was queued stays.
AddedTwice(S, e) == S \cup {e}

\* addEntry: what was queued for any of the members is replaced.
Added(S, e) == Removed(S, e.members) \cup {e}

-----------------------------------------------------------------------------
(* What a search promises.                                                 *)

Total(S) == Cardinality(UNION {e.members : e \in S})

Disjoint(S) == \A e, f \in S : e # f => e.members \cap f.members = {}

\* base tolerates the other teams of S, which asked for the same number of
\* players or for any.
Tolerated(S, base, lag) == \A e \in S \ {base} : Accepts(base, e, lag)

\* The teams of S form a match: nobody is in it twice, and one of them asked
\* for exactly that many players and tolerates the others.
WellMatched(S, lag) ==
  /\ Disjoint(S)
  /\ \E base \in S : Total(S) = Goal(base) /\ Tolerated(S, base, lag)

\* The entries differ only in their members and in when they joined.
Alike(e, f) ==
  /\ Size(e) = Size(f)
  /\ e.averageRating = f.averageRating
  /\ e.targetMatchSize = f.targetMatchSize

=============================================================================
