---------------------------- MODULE MCMatchmaker ----------------------------
(* Instances of Matchmaker for TLC.                                        *)
EXTENDS Matchmaker, TLC

Symmetry == Permutations(Players)

Solo == {{p} : p \in Players}

UpTo(n) == {t \in SUBSET Players : Cardinality(t) \in 1..n}

Pairs == UpTo(2)

WildOrFew == {-1, 1}

\* What getMatch and the thread read: who is in the session table, waits or
\* was missed decides nothing of it.
QueueAndThread == <<entries, replying, pc, lag, batch, pending>>

Minus1 == -1
=============================================================================
