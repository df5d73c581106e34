----------------------------- MODULE MCArenaNet -----------------------------
(* Instances of ArenaNet for TLC.                                          *)
EXTENDS ArenaNet

IdSymmetry == Permutations(PartyIds)

Wild == {-1, 1}

Minus1 == -1

\* What a client was sent last decides nothing.
ServerState == <<parties, playerToParty, sessions, logged, up, collided, queueVars, threadVars>>

\* Bound: nothing is explored beyond the first collision of ids.
NoCollision == ~collided
=============================================================================
