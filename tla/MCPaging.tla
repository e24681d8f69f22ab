------------------------------ MODULE MCPaging ------------------------------
(* Paging on small instances: default limit 1, greatest limit 2.           *)
EXTENDS Paging, TLC

CONSTANTS m1, m2

Symmetric == Permutations({m1, m2})
=============================================================================
