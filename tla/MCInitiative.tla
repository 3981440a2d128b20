------------------------------ MODULE MCInitiative ------------------------------
(* Small instances of Initiative for TLC. *)
EXTENDS Initiative, TLC

MCFirstSteps == <<"design", "ship">>
MCFirstDeps == {<<2, 1>>}

Symmetry == Permutations(Partner) \cup Permutations(Request)
=============================================================================
