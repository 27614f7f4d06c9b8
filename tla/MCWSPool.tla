------------------------------ MODULE MCWSPool ------------------------------
(* Requests are interchangeable. *)
EXTENDS WSPool, TLC

Sym == Permutations(Requests)
=============================================================================
