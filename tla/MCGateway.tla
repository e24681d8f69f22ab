----------------------------- MODULE MCGateway -----------------------------
(* Gateway on small instances, with ticks of 15 seconds.  One of the two   *)
(* calls is used for every operation, the other for one of each kind.      *)
EXTENDS Gateway

CONSTANTS c1, c2

MCDoes == [c \in {c1, c2} |->
             IF c = c1 THEN PaymentOps \cup PayoutOps \cup Callbacks
             ELSE {"cancel", "disburse", "callback"}]
=============================================================================
