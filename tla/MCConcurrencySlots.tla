------------------------ MODULE MCConcurrencySlots --------------------------
(* Two requests compete for one slot and one place in the queue; three     *)
(* processes start, overlap and crash.                                     *)
EXTENDS ConcurrencySlots
=============================================================================
