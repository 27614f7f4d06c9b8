----------------------------- MODULE MCFailover -----------------------------
(* Two accounts, one of them Antigravity, so that delayed and undelayed    *)
(* switches mix; two switches let the 503 back-off recur.                  *)
EXTENDS Failover

CONSTANTS a1, a2

const_Accounts == {a1, a2}
const_Antigravity == {a1}
=============================================================================
