--------------------------- MODULE MCDailyWindow ---------------------------
(* DailyWindow on small instances. *)
EXTENDS DailyWindow, TLC

CONSTANTS d1, d2, d3

Symmetry == Permutations(Disbursements)
=============================================================================
