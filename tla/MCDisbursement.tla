--------------------------- MODULE MCDisbursement ---------------------------
(* Disbursement on small instances. *)
EXTENDS Disbursement, TLC

CONSTANTS d1, d2, d3, c1, c2, c3

Symmetry == Permutations(Disbursements) \cup Permutations(Callbacks)
=============================================================================
