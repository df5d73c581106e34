--------------------------- MODULE MCPartyManager ---------------------------
(* Instances of PartyManager for TLC.                                      *)
EXTENDS PartyManager

Careful == Players \ (Relogins \cup Switches)

\* Players who may do the same are alike, and so are ids of parties.
AlikeSymmetry ==
  Permutations(Careful) \cup Permutations(Players \ Careful) \cup Permutations(PartyIds)

\* What a careless player was sent last decides nothing, nor what anybody was
\* once ids have collided, and nothing is claimed of it.
ViewsThatMatter == IF collided THEN << >> ELSE [p \in Careful |-> view[p]]

ServerState ==
  <<parties, playerToParty, sessions, logged, up, collided, ViewsThatMatter>>

=============================================================================
