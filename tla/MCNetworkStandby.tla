-------------------------- MODULE MCNetworkStandby --------------------------
(* Instances of NetworkStandby for TLC. *)
EXTENDS NetworkStandby, TLC

Symmetry == Permutations(Threads)
=============================================================================
