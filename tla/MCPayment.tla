----------------------------- MODULE MCPayment -----------------------------
(* Payment on small instances. *)
EXTENDS Payment, TLC

CONSTANTS p1, p2, c1, c2, d1, d2, d3

(* The calls of one kind differ in nothing but their names. *)
Symmetry == Permutations(Cancels) \cup Permutations(Deliveries)
=============================================================================
