----------------------- MODULE MCSystemOperationLock ------------------------
(* Two server processes and two operation ids.                             *)
EXTENDS SystemOperationLock, TLC

Symmetry == Permutations(Runners) \cup Permutations(Fingerprints)
=============================================================================
