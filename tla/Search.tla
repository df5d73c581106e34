------------------------------- MODULE Search -------------------------------
(***************************************************************************)
(* The search of Queue.tla by itself, on every sorted queue: a queue is    *)
(* built entry by entry, and each one reached is searched.                 *)
(***************************************************************************)
EXTENDS Queue

CONSTANTS
  MaxEntries,   \* bound: entries in the queue
  Sizes,        \* the sizes of teams
  TeamRatings,  \* their ratings
  Targets,      \* the sizes of matches they ask for
  Waits,        \* the seconds they have waited
  Lags          \* the ages of the clock the search is given

ASSUME SearchAssumption ==
  /\ Sizes \subseteq Nat \ {0}
  /\ TeamRatings \subseteq Int /\ Targets \subseteq Int
  /\ Waits \subseteq Nat /\ Lags \subseteq Nat

VARIABLE queue

Placed == UNION {queue[i].members : i \in DOMAIN queue}

SearchInit == queue = << >>

SearchNext ==
  /\ Len(queue) < MaxEntries
  /\ \E n \in Sizes, rating \in TeamRatings, target \in Targets, waited \in Waits :
       LET next == Cardinality(Placed) + 1
       IN  /\ queue # << >> => waited <= queue[Len(queue)].waited
           /\ queue' = Append(queue,
                              [members |-> next..(next + n - 1),
                               averageRating |-> rating,
                               waited |-> waited,
                               targetMatchSize |-> target])

SearchSpec == SearchInit /\ [][SearchNext]_queue

-----------------------------------------------------------------------------

Found(lag) == getMatch(queue, lag)

\* What the search returns as a match is one, made of entries of the queue;
\* what it returns as timed out is one entry that did wait too long.
SearchSound ==
  \A lag \in Lags :
    LET found == Found(lag)
    IN  /\ found.out \subseteq Range(queue)
        /\ found.outcome = "match" => WellMatched(found.out, lag)
        /\ found.outcome = "timeout" =>
             \E e \in Range(queue) : found.out = {e} /\ TimedOut(e, lag)

\* First come, first served (the comment at Queue.cpp:40): while nobody
\* queues with more than one other, no solo player is passed over for a
\* later one that is alike, and neither is a pair whose match has at most
\* three players.  In a larger match a pair that tolerates more, because it
\* waited longer, may be offered a first fit that leaves one place free.
FirstComeFirstServed ==
  (\A k \in DOMAIN queue : Size(queue[k]) <= 2) =>
    \A lag \in Lags :
      LET out == Found(lag).out
      IN  \A i, j \in DOMAIN queue :
            (/\ i < j /\ Alike(queue[i], queue[j]) /\ queue[j] \in out
             /\ Size(queue[i]) = 1 \/ Goal(queue[i]) <= 3)
              => queue[i] \in out

\* A search that comes back with nothing has not missed a duel: two solo
\* players who both play for two tolerate each other too little.
NoDuelMissed ==
  \A lag \in Lags :
    Found(lag).outcome = "none" =>
      \A i, j \in DOMAIN queue :
        LET e == queue[i]
            f == queue[j]
        IN  (i < j /\ Size(e) = 1 /\ Size(f) = 1 /\ Goal(e) = 2 /\ Goal(f) = 2)
              => Distance(e.averageRating, f.averageRating) > tolerance(e, lag)

=============================================================================
