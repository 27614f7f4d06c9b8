----------------------------- MODULE MCUsageBilling -------------------------
(* Three deliveries of one request, one of them with another fingerprint,  *)
(* and two of another request.                                             *)
EXTENDS UsageBilling

CONSTANTS d1, d2, d3, d4, d5, r1, r2, f1, f2

MCReq == [d \in {d1, d2, d3, d4, d5} |-> IF d \in {d1, d2, d3} THEN r1 ELSE r2]
MCFp == [d \in {d1, d2, d3, d4, d5} |-> IF d = d3 THEN f2 ELSE f1]
MCCost == [d \in {d1, d2, d3, d4, d5} |-> IF d = d3 THEN 1 ELSE 2]

=============================================================================
