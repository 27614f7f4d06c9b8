--------------------------- MODULE MCOAuthRefresh ---------------------------
EXTENDS OAuthRefresh, TLC

CONSTANTS w1, w2, r1, i1, i2

(* A worker and a request, each in a process of its own.                   *)
Apart == (w1 :> i1) @@ (r1 :> i2)

(* Two workers, and a request beside one of them.                          *)
TwoInstances == (w1 :> i1) @@ (w2 :> i2) @@ (r1 :> i1)
=============================================================================
