------------------------------ MODULE MCBriefs ------------------------------
(* Values for TLC: see Briefs_cycle.cfg. *)
EXTENDS Briefs, TLC

CONSTANTS p1, p2, i1, i2

MCOrder == <<Ecosystem, p1, p2>>
MCHome == (i1 :> p1) @@ (i2 :> p1)

(* Documents come and schedules stand, or schedules move without end and   *)
(* the model fails once.                                                   *)
MCWorlds == {[docs |-> {i1, i2}, restless |-> {}, failures |-> 0],
             [docs |-> {}, restless |-> {p1, p2}, failures |-> 1]}
=============================================================================
