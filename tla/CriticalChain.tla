----------------------------- MODULE CriticalChain -----------------------------
(***************************************************************************)
(* lib/criticalChain.ts: the longest path through a program's phases by    *)
(* remaining duration.  Phases N, dependencies E as in PhaseDag, planned   *)
(* days plan[n] and progress dot[n] in percent.  On an acyclic graph.  What*)
(* remains is counted in hundredths of a day, which need no rounding.      *)
(***************************************************************************)
EXTENDS Integers, Sequences, FiniteSets

Remaining(n, plan, dot) == plan[n] * (100 - dot[n])

Children(n, E) == {e[1] : e \in {d \in E : d[2] = n}}

Longest(days) == IF days = {} THEN 0 ELSE CHOOSE d \in days : \A o \in days : o <= d

\* solve: the days ahead from every phase, and the phase its best path goes
\* on to (0: none; a child that adds no days is not followed).
DaysAhead(N, E, plan, dot) ==
    LET ahead[n \in N] ==
            Remaining(n, plan, dot) + Longest({ahead[c] : c \in Children(n, E) \cap N})
    IN  ahead

\* Mutant: the first child is followed, not the longest.
NextAny(n, N, E, ahead) ==
    LET ways == {c \in Children(n, E) \cap N : ahead[c] > 0}
    IN  IF ways = {} THEN 0 ELSE CHOOSE c \in ways : \A o \in ways : c <= o

NextOnChain(n, N, E, ahead) ==
    LET ways == {c \in Children(n, E) \cap N :
                    /\ ahead[c] > 0
                    /\ \A o \in Children(n, E) \cap N : ahead[o] <= ahead[c]}
    IN  IF ways = {} THEN 0 ELSE CHOOSE c \in ways : TRUE

\* The walk along next, from the start: what there is of the path after k phases.
PathFrom(start, N, E, ahead) ==
    LET path[k \in 1 .. Cardinality(N)] ==
            IF k = 1 THEN <<start>>
            ELSE LET sofar == path[k - 1]
                     next == NextOnChain(sofar[Len(sofar)], N, E, ahead)
                 IN  IF next = 0 THEN sofar ELSE Append(sofar, next)
    IN  path

\* computeCriticalChain: the path, upstream to downstream; empty when no work
\* remains.
CriticalPath(N, E, plan, dot) ==
    LET ahead == DaysAhead(N, E, plan, dot)
        starts == {n \in N : ahead[n] > 0 /\ \A o \in N : ahead[o] <= ahead[n]}
    IN  IF starts = {} THEN <<>>
        ELSE PathFrom(CHOOSE n \in starts : TRUE, N, E, ahead)[Cardinality(N)]

\* The first unfinished phase on the chain, 0 if there is none.
Constraint(path, dot) ==
    LET unfinished == {k \in 1 .. Len(path) : dot[path[k]] < 100}
    IN  IF unfinished = {} THEN 0
        ELSE path[CHOOSE k \in unfinished : \A o \in unfinished : k <= o]

-----------------------------------------------------------------------------
(* The same by enumeration of every path                                     *)

Paths(N, E) ==
    {s \in UNION {[1 .. k -> N] : k \in 1 .. Cardinality(N)} :
        \A k \in 1 .. Len(s) - 1 : <<s[k + 1], s[k]>> \in E}

DaysSoFar(s, plan, dot) ==
    LET total[k \in 0 .. Len(s)] ==
            IF k = 0 THEN 0 ELSE total[k - 1] + Remaining(s[k], plan, dot)
    IN  total

PathDays(s, plan, dot) == DaysSoFar(s, plan, dot)[Len(s)]
=============================================================================
