---------------------------- MODULE MCCastEnable ----------------------------
(* Instances of CastEnable for TLC. *)
EXTENDS CastEnable, TLC

Symmetry == Permutations(Threads)
=============================================================================
