----------------------------- MODULE MCDatabase -----------------------------
(* Instances of Database for TLC.  The two groups of tables have only the   *)
(* accounts in common, so a behaviour uses one of them.  When it is match   *)
(* results, one of the ids never gets an account.                           *)
EXTENDS Database, TLC

VARIABLE uses

MCInit == DbInit /\ uses \in {"friends", "results"}

MCNext ==
  /\ DbNext
  /\ uses = "friends" => Idle'
  /\ uses = "results" => friendVars' = friendVars /\ Known' # Players
  /\ UNCHANGED uses

MCSpec == MCInit /\ [][MCNext]_<<dbVars, uses>>

Symmetry == Permutations(Players) \cup Permutations(MatchIds)
=============================================================================
