----------------------------- MODULE MCAppCache -----------------------------
(* Instances of AppCache for TLC. *)
EXTENDS AppCache, TLC

CONSTANTS a, b, long, cut, idOfA, idOfCut

MCApps == {a, b, long, cut}

\* long is the one name with more than 63 bytes.
MCStored(app) == IF app = long THEN cut ELSE app

\* b is registered without an id.
MCIdOf(app) == CASE app = a -> idOfA [] app = cut -> idOfCut [] OTHER -> NoId

MCRequests == {<<a>>, <<a, b>>, <<long>>, <<a, a>>, <<long, cut>>}

Symmetry == Permutations(Threads)
=============================================================================
