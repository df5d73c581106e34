------------------------------ MODULE MCQueue -------------------------------
(* Instances of Search for TLC.                                            *)
EXTENDS Search

Minus1 == -1

Targets24 == {-1, 2, 4}

Everybody == 1..8
=============================================================================
