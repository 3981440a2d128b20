----------------------------- MODULE MCChainLedger -----------------------------
(* Values for TLC: see ChainLedger_replay.cfg and, for the graph in which two  *)
(* phases run beside each other, ChainLedger_panel.cfg.                        *)
EXTENDS ChainViews

MCPhase == {1, 2}
MCLine == {<<2, 1>>}

(* The people of the first program's second phase are wanted elsewhere; the      *)
(* estimate of zero is one that only old rows have; the phases of the third      *)
(* program depend on nothing, so that the longest chain is either of them.       *)
MCPrograms ==
    {[plan |-> <<1, 4>>, deps |-> MCLine, sop |-> 30, contended |-> {2}],
     [plan |-> <<0, 2>>, deps |-> MCLine, sop |-> 15, contended |-> {}],
     [plan |-> <<3, 2>>, deps |-> {}, sop |-> 20, contended |-> {}]}

MCFork == {1, 2, 3}
MCForkPrograms ==
    {[plan |-> <<3, 2, 1>>, deps |-> {<<3, 1>>, <<3, 2>>}, sop |-> 25, contended |-> {}]}

MCDot == {0, 60, 100}

(* More than a day before the program is looked at. *)
MCClaimDate == {-6}
=============================================================================
