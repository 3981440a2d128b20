---------------------------- MODULE MCEscalation ----------------------------
(* A small instance of Escalation: one partner, one program and one thread, *)
(* so that every request meets the others.                                  *)
EXTENDS Escalation, TLC

CONSTANTS r1, r2

MCSymmetry == Permutations(Request)
=============================================================================
