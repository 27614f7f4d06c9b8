----------------------------- MODULE MCBalanceCache -------------------------
(* Costs of different size, so that one error does not hide another.       *)
EXTENDS BalanceCache

CONSTANTS r1, r2

MCCost == [r \in Requests |-> IF r = r1 THEN 1 ELSE 2]
=============================================================================
