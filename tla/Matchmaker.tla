----------------------------- MODULE Matchmaker -----------------------------
(***************************************************************************)
(* src/matchmaking/Matchmaker.cpp: the queue shared by the packet handlers *)
(* (one thread) and by the matchmaker thread, which reads the clock, calls *)
(* getMatch under the mutex of the queue, and then notifies the players    *)
(* taken out one by one without any lock, so that handlers run between any *)
(* two of its steps.  It may also take out an entry that handleJoinQueue   *)
(* has just added, before the response is sent: that handler is two steps. *)
(*                                                                         *)
(* Who may queue together is the party manager's business: here a request  *)
(* names any team of Teams (ArenaNet.tla composes the two).  A request     *)
(* comes from any player, in the session table or not: what counts is that *)
(* a connection is logged in as it.  Stopping the thread is left out.      *)
(***************************************************************************)
EXTENDS Queue

CONSTANTS
  Teams,      \* the sets of players that may be queued as one entry
  Ratings,    \* the averages a request may find in the database
  Opponents,  \* the values of "opponents" clients send
  Nobody,     \* "no player"
  MaxLag      \* bound: seconds between reading the clock and using it

ASSUME MatchmakerAssumption ==
  /\ IsFiniteSet(Players) /\ Nobody \notin Players
  /\ Teams \subseteq SUBSET Players
  /\ Ratings \subseteq Int /\ Opponents \subseteq Int
  /\ MaxLag \in Nat

VARIABLES
  entries,    \* entries_ of the queue
  sessions,   \* the players SessionManager has a connection for
  replying,   \* the player handleJoinQueue has queued and not yet told so
  waiting,    \* players who asked for a match and neither left nor got an event
  missed,     \* those of them the thread had an event for and no connection
  pc,         \* the matchmaker thread: "poll", "match" or "notify"
  lag,        \* the age of `now' in matchLoop
  batch,      \* `matched' and `timedOut' of matchLoop
  pending     \* the players of the batch the thread has yet to notify

vars == <<entries, sessions, replying, waiting, missed, pc, lag, batch, pending>>

threadVars == <<pc, lag, batch, pending>>

\* Bound: the age at which an entry is overdue even for a late clock.
MaxWait == QueueTimeout + MaxLag + 1

MembersOf(S) == UNION {e.members : e \in S}

Nothing == [outcome |-> "none", out |-> {}]

Init ==
  /\ entries = {}
  /\ sessions = {}
  /\ replying = Nobody
  /\ waiting = {}
  /\ missed = {}
  /\ pc = "poll"
  /\ lag = 0
  /\ batch = Nothing
  /\ pending = {}

-----------------------------------------------------------------------------
(* The packet handlers and the disconnect handler, on the I/O thread.      *)

Idle == replying = Nobody

Target(members, opponents) ==
  IF opponents = -1 THEN AnySize ELSE Cardinality(members) + opponents

\* p queues `members', whose profiles average to `rating'; it took `delay'
\* seconds to fetch them after the clock was read.  The response is yet to
\* be sent.
Enqueue(p, members, opponents, rating, delay) ==
  /\ entries' = Added(entries,
                      [members |-> members, averageRating |-> rating,
                       targetMatchSize |-> Target(members, opponents), waited |-> delay])
  /\ replying' = p
  /\ waiting' = waiting \cup {p}
  /\ missed' = missed \ {p}

\* removePlayerFromQueue: nothing is sent, to p or to anybody queued with p.
Dequeue(p) ==
  /\ entries' = Removed(entries, {p})
  /\ waiting' = waiting \ {p}
  /\ missed' = missed \ {p}
  /\ UNCHANGED replying

JoinQueue(p, members, opponents, rating, delay) ==
  /\ Idle
  /\ p \in members
  /\ Enqueue(p, members, opponents, rating, delay)
  /\ UNCHANGED <<sessions, threadVars>>

\* A JOIN_QUEUE_REQUEST of p, for itself or for a team it is in.
Asks(p) ==
  \E members \in Teams, opponents \in Opponents, rating \in Ratings, delay \in 0..MaxLag :
    JoinQueue(p, members, opponents, rating, delay)

\* JOIN_QUEUE_RESPONSE is sent, on the connection the request came on.
Reply ==
  /\ replying # Nobody
  /\ replying' = Nobody
  /\ UNCHANGED <<entries, sessions, waiting, missed, threadVars>>

LeaveQueue(p) ==
  /\ Idle
  /\ Dequeue(p)
  /\ UNCHANGED <<sessions, threadVars>>

Login(p) ==
  /\ Idle
  /\ sessions' = sessions \cup {p}
  /\ UNCHANGED <<entries, replying, waiting, missed, threadVars>>

\* A read or a write failed on a connection of p: the handler also runs for
\* a player whom an earlier one has already taken out.
PlayerDisconnect(p) ==
  /\ Idle
  /\ Dequeue(p)
  /\ sessions' = sessions \ {p}
  /\ UNCHANGED threadVars

-----------------------------------------------------------------------------
(* The matchmaker thread.                                                  *)

ReadClock ==
  /\ pc = "poll"
  /\ pc' = "match"
  /\ UNCHANGED <<entries, sessions, replying, waiting, missed, lag, batch, pending>>

\* Faulty: the loop is left after one iteration.
EndOfTurnStops == pc' = "stopped" /\ lag' = 0 /\ batch' = Nothing

\* Faulty: `matched' outlives the iteration.
EndOfTurnKeeps == pc' = "poll" /\ lag' = 0 /\ UNCHANGED batch

\* The iteration is over and its local variables are gone.
EndOfTurn ==
  /\ pc' = "poll"
  /\ lag' = 0
  /\ batch' = Nothing

\* getMatch, and the end of an iteration that found nothing.
FindMatch ==
  /\ pc = "match"
  /\ \E s \in Sorted(entries) :
       LET found == getMatch(s, lag)
       IN  IF found.outcome = "none"
           THEN EndOfTurn /\ UNCHANGED <<entries, pending>>
           ELSE /\ pc' = "notify"
                /\ entries' = entries \ found.out
                /\ batch' = found
                /\ pending' = MembersOf(found.out)
                /\ UNCHANGED lag
  /\ UNCHANGED <<sessions, replying, waiting, missed>>

\* p is sent the event if it has a connection, and no longer waits; nothing
\* happens otherwise.
Tell(p) ==
  IF p \in sessions
  THEN waiting' = waiting \ {p} /\ missed' = missed \ {p}
  ELSE waiting' = waiting /\ missed' = missed \cup ({p} \cap waiting)

\* Faulty: the loop returns after one player.
NotifyOne(p) ==
  /\ pc = "notify" /\ p \in pending
  /\ pending' = {}
  /\ Tell(p)
  /\ EndOfTurn
  /\ UNCHANGED <<entries, sessions, replying>>

\* One turn of the loops of notifyMatch and notifyTimeout.
Notify(p) ==
  /\ pc = "notify"
  /\ p \in pending
  /\ pending' = pending \ {p}
  /\ Tell(p)
  /\ IF pending' = {} THEN EndOfTurn ELSE UNCHANGED <<pc, lag, batch>>
  /\ UNCHANGED <<entries, sessions, replying>>

-----------------------------------------------------------------------------
\* A second passes.  Bounds: the thread is at most MaxLag late between its
\* two steps, and it gets to an overdue entry before another second goes by.
\* An entry that is too large for its own goal is never overdue.
Tick ==
  /\ pc = "match" => lag < MaxLag
  /\ \A e \in entries : e.waited < MaxWait \/ Oversized(e)
  /\ entries' = {[e EXCEPT !.waited = IF @ < MaxWait THEN @ + 1 ELSE @] : e \in entries}
  /\ lag' = IF pc = "match" THEN lag + 1 ELSE lag
  /\ UNCHANGED <<sessions, replying, waiting, missed, pc, batch, pending>>

Thread == ReadClock \/ FindMatch \/ \E p \in Players : Notify(p)

Next ==
  \/ \E p \in Players :
       \/ Asks(p)
       \/ LeaveQueue(p)
       \/ Login(p)
       \/ PlayerDisconnect(p)
  \/ Reply
  \/ Thread
  \/ Tick

Spec == Init /\ [][Next]_vars

\* The thread keeps running and time keeps passing (strongly fair, because
\* the bounds make the clock wait for the thread now and then); no
\* player is obliged to do anything.
Fairness == WF_vars(Thread) /\ SF_vars(Tick)

FairSpec == Spec /\ Fairness

-----------------------------------------------------------------------------
(* Properties.                                                             *)

TypeOK ==
  /\ entries \subseteq Entry
  /\ sessions \subseteq Players
  /\ replying \in Players \cup {Nobody}
  /\ waiting \subseteq Players
  /\ missed \subseteq waiting
  /\ pc \in {"poll", "match", "notify"}
  /\ lag \in Nat
  /\ batch.outcome \in {"none", "match", "timeout"} /\ batch.out \subseteq Entry
  /\ pending \subseteq Players

\* However players queue again, in other teams and with other settings, no
\* player is in two entries, and no entry is left without players.
QueueSound ==
  /\ Disjoint(entries)
  /\ \A e \in entries : e.members # {}

\* What the thread announces as a match is one: as many players as its teams
\* asked for (the size of the server when all take any), nobody twice, and
\* ratings tolerated, whatever was queued between reading the clock and the
\* search.  (What handlers do later cannot spoil it: the batch is a copy.)
MatchSound == batch.outcome = "match" => WellMatched(batch.out, lag)

\* Who is still to be notified was taken out by the getMatch of this turn,
\* and the turn ends when, and only when, all of them had their turn.
PendingSound ==
  /\ pending \subseteq MembersOf(batch.out)
  /\ pc = "notify" <=> pending # {}
  /\ pc # "notify" => batch = Nothing

\* Nobody is forgotten: who waits is queued or about to be notified, unless
\* the thread had an event for it and found no connection.  This holds also
\* when the thread overtakes the response to the request.
NobodyForgotten == waiting \ missed \subseteq MembersOf(entries) \cup pending

\* Who queues is answered in the end, by a match, by a timeout or by having
\* left, unless it keeps asking again, which starts the waiting anew, or is
\* not in the session table when its turn comes.
Answered ==
  \A p \in Players : []<>(p \notin waiting \/ p \in missed) \/ []<><<Asks(p)>>_vars

\* No team stays queued forever, unless its members keep asking.  (Teams that
\* fit their match, which the configuration sees to: one that does not stays.)
Queued(members) == \E e \in entries : e.members = members

QueueDrains ==
  \A members \in Teams :
    []<>(~Queued(members)) \/ []<><<\E p \in members : Asks(p)>>_vars

=============================================================================
