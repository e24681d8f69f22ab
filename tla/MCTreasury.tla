----------------------------- MODULE MCTreasury -----------------------------
(* Treasury with two providers and two checks; "extra" is an id that asynq *)
(* could make up.                                                          *)
EXTENDS Treasury, TLC

CONSTANTS xendit, doku, extra, c1, c2

Symmetry == Permutations({xendit, doku}) \cup Permutations({c1, c2})
=============================================================================
