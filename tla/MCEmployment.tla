----------------------------- MODULE MCEmployment -----------------------------
(* Two people, two requests at a time; see the configurations.               *)
EXTENDS Employment, TLC

CONSTANTS p1, p2, j1, j2, a1, a2

MCSymmetry == Permutations(Person) \cup Permutations(Address)
                  \cup Permutations(Job) \cup Permutations(Editor)
=============================================================================
