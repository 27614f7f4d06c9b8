-------------------------- MODULE MCPlatformQuota ---------------------------
(* Two concurrent requests, two writers, two windows, every fault.         *)
EXTENDS PlatformQuota, TLC

Symmetry == Permutations(Requests) \cup Permutations(Writers)
=============================================================================
