--------------------------- MODULE MCIdempotency ---------------------------
(* Idempotency on small instances. *)
EXTENDS Idempotency, TLC

CONSTANTS r1, r2, r3, r4

Symmetry == Permutations(Requests)
=============================================================================
