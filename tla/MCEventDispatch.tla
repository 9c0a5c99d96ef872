-------------------------- MODULE MCEventDispatch ---------------------------
(* Instances of EventDispatch for TLC.  The liveness property allows no    *)
(* symmetry.                                                               *)
EXTENDS EventDispatch

CONSTANTS c1, c2
=============================================================================
