---------------------------- MODULE MCLifecycle -----------------------------
(* Instances of Lifecycle for TLC.  The liveness property allows no        *)
(* symmetry.                                                               *)
EXTENDS Lifecycle
=============================================================================
