------------------------------- MODULE MCFees -------------------------------
(* Fees with model values, and small fees of each kind. *)
EXTENDS Fees, TLC

CONSTANTS r1, a1, a2, a3

Flat  == [type |-> "flat", amount |-> 2, percentage |-> 0]
Small == {Flat, [type |-> "percentage", amount |-> 0, percentage |-> 50],
          [type |-> "flat", amount |-> -1, percentage |-> 0]}

(* As in migrations/000008: a flat default, a margin that is not enabled. *)
Seeded == [contract |-> Nobody, holiday |-> Nobody,
           default |-> [on |-> FALSE, fee |-> Flat], margin |-> [on |-> FALSE, fee |-> Flat]]

Symmetry == Permutations(Admins)
=============================================================================
