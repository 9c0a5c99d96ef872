---------------------------- MODULE MCLocateCast ----------------------------
(* Instances of LocateCast for TLC.  Every notification is one of the      *)
(* environment's changes, so MaxChurn bounds the queue of them too.        *)
EXTENDS LocateCast
=============================================================================
