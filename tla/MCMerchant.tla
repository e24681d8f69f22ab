----------------------------- MODULE MCMerchant -----------------------------
(* Merchant with model values. *)
EXTENDS Merchant, TLC

CONSTANTS c1, c2, c3, c4, a1, a2, k0

Symmetry == Permutations(Calls) \cup Permutations(Accounts)
=============================================================================
