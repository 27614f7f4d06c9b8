--------------------------- MODULE MCIdempotency ----------------------------
(* Two concurrent requests with one key; the clock runs past the expiry of *)
(* a record and of the record that replaces it.                            *)
EXTENDS Idempotency, TLC

Symmetry == Permutations(Callers) \cup Permutations(Fingerprints)
=============================================================================
