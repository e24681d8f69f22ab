------------------------------ MODULE MCOutbox ------------------------------
(* Outbox on small instances. *)
EXTENDS Outbox, TLC

CONSTANTS e1, e2, e3, w1, w2

Symmetry == Permutations(Workers)
=============================================================================
