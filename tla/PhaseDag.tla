------------------------------- MODULE PhaseDag -------------------------------
(***************************************************************************)
(* The dependency graph of a program or template as pure operators:        *)
(* lib/templateDag.ts, lib/programDag.ts and the walk of                   *)
(* app/actions/dependencies.ts.                                            *)
(*                                                                         *)
(* A graph is a set N of nodes and a set E of pairs <<n, up>>: n depends   *)
(* on up, which lies upstream of it.                                       *)
(***************************************************************************)
EXTENDS FiniteSets

Up(n, E) == {e[2] : e \in {d \in E : d[1] = n}}

Ends(E) == UNION {{e[1], e[2]} : e \in E}

\* A set of nodes that every dependency of a member leads back into.
ClosedUpstream(S, E) == \A e \in E : e[1] \in S => e[2] \in S

\* isAncestor: everything the frontier walk from n comes to.  The walk stops
\* when it sees nothing new, so it finds the smallest closed set of parents.
Ancestors(n, E) ==
    {m \in Ends(E) :
        \A S \in SUBSET Ends(E) :
            Up(n, E) \subseteq S /\ ClosedUpstream(S, E) => m \in S}

Sinks(N, E) == N \ {e[2] : e \in E}

\* The single node designated as the end: of several sinks the choice does not
\* matter, validateTemplateDag then reports every other one.
EndPhases(N, E) ==
    IF Sinks(N, E) = {} THEN {} ELSE {CHOOSE n \in Sinks(N, E) : TRUE}

\* Mutant: the branches that dead-end are not reported.
ValidWithoutSinks(N, E) ==
    /\ N # {}
    /\ Ends(E) \subseteq N
    /\ \A n \in N : n \notin Ancestors(n, E)
    /\ EndPhases(N, E) # {}

\* validateTemplateDag on the graph deriveEndPhase marked: known references,
\* no cycle, one end that is the only sink, everything converging on it.
ValidDag(N, E) ==
    /\ N # {}
    /\ Ends(E) \subseteq N
    /\ \A n \in N : n \notin Ancestors(n, E)
    /\ \E end \in EndPhases(N, E) :
        /\ Sinks(N, E) = {end}
        /\ N \subseteq {end} \cup Ancestors(end, E)

-----------------------------------------------------------------------------
(* What those mean, said without a walk                                      *)

\* Every set of nodes has one with nothing of the set upstream: an order exists.
Acyclic(E) ==
    \A S \in SUBSET Ends(E) :
        S # {} => \E n \in S : \A m \in S : <<n, m>> \notin E

\* One node is downstream of every other: whatever set holds it and what its
\* members depend on holds the whole graph, and nothing is downstream of it.
Converges(N, E) ==
    \E end \in N :
        /\ \A e \in E : e[2] # end
        /\ \A S \in SUBSET N : end \in S /\ ClosedUpstream(S, E) => S = N
=============================================================================
