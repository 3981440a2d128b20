---------------------------- MODULE MCProgramPhases ----------------------------
(* Small instance of ProgramPhases: two phases grow to at most four.         *)
EXTENDS ProgramPhases, TLC

MCPlan == (1 :> 10) @@ (2 :> 20) @@ (3 :> 20) @@ (4 :> 30)
MCDot == {0, 50, 100}
Symmetry == Permutations(Editor)
=============================================================================
