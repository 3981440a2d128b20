----------------------------- MODULE ProgramPhases -----------------------------
(***************************************************************************)
(* The phase structure of one program and the progress of its phases:      *)
(* the whole-graph save (app/actions/programPhases.ts), the rail's own     *)
(* dependency edits (app/actions/dependencies.ts), the phase API and the   *)
(* hill updates (app/actions/hill.ts and the state API).                   *)
(*                                                                         *)
(* Several people edit at once.  addPhaseDependency is a SERIALIZABLE      *)
(* transaction: it works on the snapshot taken when it began, and two such *)
(* transactions come out as if one had followed the other.  The save runs  *)
(* at READ COMMITTED and takes no part in that; the phases it found before *)
(* its transaction are read in a step of their own.                        *)
(***************************************************************************)
EXTENDS PhaseDag, CriticalChain

CONSTANTS
    Editor,      \* the requests in flight
    MaxPhase,    \* bound: the phase ids there can be, 1 .. MaxPhase
    FirstPhases, \* the phases the program was created with, 1 .. FirstPhases
    MaxNew,      \* bound: the phases one draft creates
    MaxDraft,    \* bound: the phases of a draft
    Plan,        \* the planned days of each phase
    Dot,         \* the positions on the hill, percent
    MaxRequests  \* bound: requests ever made

ASSUME BoundsAssumption ==
    MaxPhase \in Nat /\ FirstPhases \in 1 .. MaxPhase /\ MaxNew \in Nat
ASSUME DotAssumption == Dot \subseteq 0 .. 100 /\ 0 \in Dot
\* The form and the save round an estimate to at least one day.
ASSUME PlanAssumption == \A p \in 1 .. MaxPhase : Plan[p] \in Nat

VARIABLES
    phases,      \* the ids of the program's Phase rows
    deps,        \* the PhaseDependency rows: <<phaseId, dependsOnPhaseId>>
    dot,         \* progress of the newest PhaseState of each phase
    nextId,      \* the sequence behind Phase.id
    op,          \* what each editor is in the middle of, and has read
    placed,      \* history: the position last given by a person, per phase
    blurred,     \* history: phases two hill updates were recorded for at once
    mixed,       \* history: a dependency was added on a snapshot a save outdated
    loose,       \* history: since the last whole save, a change checked no shape
    spent        \* requests made so far

vars == <<phases, deps, dot, nextId, op, placed, blurred, mixed, loose, spent>>

Id == 1 .. MaxPhase
NewNode == -MaxNew .. -1             \* a draft's own ids for what it creates
Node == Id \cup NewNode
None == 0
Blank == -1                          \* a hill update that carries no position

Idle == [step |-> "idle", nodes |-> {}, edges |-> {}, existing |-> {},
         edge |-> <<None, None>>, seen |-> {}, outdated |-> FALSE,
         phase |-> None, at |-> Blank, latest |-> 0]

Operation ==
    [step : {"idle", "saving", "adding", "moving"},
     nodes : SUBSET Node, edges : SUBSET (Node \X Node), existing : SUBSET Id,
     edge : (Id \cup {None}) \X (Id \cup {None}), seen : SUBSET (Id \X Id),
     outdated : BOOLEAN,
     phase : Id \cup {None}, at : Dot \cup {Blank}, latest : Dot]

TypeOK ==
    /\ phases \subseteq Id
    /\ deps \subseteq phases \X phases
    /\ dot \in [Id -> Dot] /\ placed \in [Id -> Dot]
    /\ nextId \in Nat /\ \A p \in phases : p < nextId
    /\ op \in [Editor -> Operation]
    /\ blurred \subseteq Id
    /\ mixed \in BOOLEAN /\ loose \in BOOLEAN
    /\ spent \in Nat

\* A program is created from a template whose graph was just validated.
Init ==
    /\ phases = 1 .. FirstPhases
    /\ deps \in SUBSET (phases \X phases)
    /\ ValidDag(phases, deps)
    /\ dot = [p \in Id |-> 0] /\ placed = dot
    /\ nextId = FirstPhases + 1
    /\ op = [e \in Editor |-> Idle]
    /\ blurred = {} /\ mixed = FALSE /\ loose = FALSE
    /\ spent = 0

-----------------------------------------------------------------------------

Begin(e, o) ==
    /\ op[e].step = "idle"
    /\ spent < MaxRequests /\ spent' = spent + 1
    /\ op' = [op EXCEPT ![e] = o]

Finish(e) == op' = [op EXCEPT ![e] = Idle]

(* saveProgramPhases                                                         *)

Pairs(N) == {d \in N \X N : d[1] # d[2]}

\* The drafts that pass the validation, the same on the server as in the editor.
ValidDrafts ==
    UNION {{[nodes |-> N, edges |-> E] : E \in {F \in SUBSET Pairs(N) : ValidDag(N, F)}} :
               N \in {M \in SUBSET Node : Cardinality(M) <= MaxDraft}}

\* The draft is validated, its phases checked against those of the program;
\* the transaction comes later.
SaveRead(e) ==
    \E draft \in ValidDrafts :
        /\ draft.nodes \cap Id \subseteq phases
        /\ Begin(e, [Idle EXCEPT !.step = "saving", !.nodes = draft.nodes,
                                 !.edges = draft.edges, !.existing = phases])
        /\ UNCHANGED <<phases, deps, dot, nextId, placed, blurred, mixed, loose>>

\* The real ids of the draft: kept ones their own, created ones the sequence's
\* (which may leave gaps).
RealId(n) == IF n > 0 THEN n ELSE nextId - n - 1

\* deletePhasesWithRecords: the dependencies go in both directions.
WithoutPhases(E, gone) == {d \in E : d[1] \notin gone /\ d[2] \notin gone}

\* The draft's phases end up with exactly the dependencies of the draft.
Rebuilt(E, real, edges) ==
    {d \in E : d[1] \notin real}
        \cup {<<RealId(d[1]), RealId(d[2])>> : d \in edges}

SaveWrite(e) ==
    LET o == op[e]
        kept == o.nodes \cap Id
        removed == o.existing \ kept
        real == {RealId(n) : n \in o.nodes}
    IN
    /\ o.step = "saving"
    /\ real \subseteq Id
    /\ IF kept \subseteq phases
       THEN /\ phases' = (phases \ removed) \cup real
            /\ deps' = Rebuilt(WithoutPhases(deps, removed), real, o.edges)
            /\ dot' = [p \in Id |-> IF p \in real \ kept THEN 0 ELSE dot[p]]
            /\ placed' = [p \in Id |-> IF p \in real \ kept THEN 0 ELSE placed[p]]
            /\ nextId' = nextId + IF real = kept THEN 0 ELSE MaxNew
            /\ loose' = (o.existing # phases)
            /\ op' = [f \in Editor |->
                   IF f = e THEN Idle ELSE [op[f] EXCEPT !.outdated = TRUE]]
       ELSE Finish(e) /\ UNCHANGED <<phases, deps, dot, nextId, placed, loose>>
    /\ UNCHANGED <<blurred, mixed, spent>>

(* addPhaseDependency                                                        *)

\* Both phases exist; the transaction takes its snapshot with the insert, which
\* the unique key refuses for a dependency that is already there.
AddBegin(e) ==
    \E p, u \in phases :
        /\ p # u
        /\ <<p, u>> \notin deps
        /\ Begin(e, [Idle EXCEPT !.step = "adding", !.edge = <<p, u>>,
                                 !.seen = deps])
        /\ UNCHANGED <<phases, deps, dot, nextId, placed, blurred, mixed, loose>>

\* Mutant: only the direct parents of the new parent are looked at.
ClosesCycleNearby(p, u, E) == p \in Up(u, E)

ClosesCycle(p, u, E) == p \in Ancestors(u, E)

\* The walk, on the snapshot and on what serializable transactions committed
\* since: a pair of adds that would close a cycle together has one aborted.
AddCommit(e) ==
    LET o == op[e]
        p == o.edge[1]
        u == o.edge[2]
    IN
    /\ o.step = "adding"
    /\ IF \/ ClosesCycle(p, u, o.seen \cup {o.edge})
          \/ o.edge \in deps
          \/ ~({p, u} \subseteq phases)
       THEN Finish(e) /\ UNCHANGED <<deps, mixed>>
       ELSE /\ deps' = deps \cup {o.edge}
            /\ mixed' = (mixed \/ o.outdated)
            /\ op' = [f \in Editor |->
                   IF f = e THEN Idle
                   ELSE IF op[f].step = "adding"
                   THEN [op[f] EXCEPT !.seen = @ \cup {o.edge}]
                   ELSE op[f]]
    /\ UNCHANGED <<phases, dot, nextId, placed, blurred, loose, spent>>

(* removePhaseDependency                                                     *)
RemoveDependency(e) ==
    \E d \in deps :
        /\ Begin(e, Idle)
        /\ deps' = deps \ {d}
        /\ loose' = TRUE
        /\ UNCHANGED <<phases, dot, nextId, placed, blurred, mixed>>

(* POST /api/projects/[id]/phases: a phase nothing depends on, on nothing.   *)
PostPhase(e) ==
    /\ nextId \in Id
    /\ Begin(e, Idle)
    /\ phases' = phases \cup {nextId}
    /\ dot' = [dot EXCEPT ![nextId] = 0]
    /\ placed' = [placed EXCEPT ![nextId] = 0]
    /\ nextId' = nextId + 1
    /\ loose' = TRUE
    /\ UNCHANGED <<deps, blurred, mixed>>

(* updatePhaseHill and POST .../state: the latest position is read, then a   *)
(* PhaseState is appended; a blank update carries what was read.             *)
HillRead(e) ==
    \E p \in phases, at \in Dot \cup {Blank} :
        /\ Begin(e, [Idle EXCEPT !.step = "moving", !.phase = p, !.at = at,
                                 !.latest = dot[p]])
        /\ blurred' = IF \E f \in Editor \ {e} : op[f].phase = p
                      THEN blurred \cup {p} ELSE blurred
        /\ UNCHANGED <<phases, deps, dot, nextId, placed, mixed, loose>>

\* Mutant: a blank update puts the dot at the start.
CarriedFromStart(o) == IF o.at = Blank THEN 0 ELSE o.at

Carried(o) == IF o.at = Blank THEN o.latest ELSE o.at

HillWrite(e) ==
    LET o == op[e] IN
    /\ o.step = "moving"
    /\ Finish(e)
    /\ IF o.phase \in phases
       THEN /\ dot' = [dot EXCEPT ![o.phase] = Carried(o)]
            /\ placed' = [placed EXCEPT ![o.phase] = IF o.at = Blank THEN @ ELSE o.at]
       ELSE UNCHANGED <<dot, placed>>
    /\ UNCHANGED <<phases, deps, nextId, blurred, mixed, loose, spent>>

Next ==
    \E e \in Editor :
        \/ SaveRead(e) \/ SaveWrite(e)
        \/ AddBegin(e) \/ AddCommit(e)
        \/ RemoveDependency(e) \/ PostPhase(e)
        \/ HillRead(e) \/ HillWrite(e)

Spec == Init /\ [][Next]_vars

-----------------------------------------------------------------------------
(* What the structure promises                                               *)

\* No phase comes to wait for itself, whoever edits at once: adds see each
\* other, and a save, however outdated what it found, brings in no cycle.  Only
\* an add whose snapshot a save outdated can.
NoCycle == Acyclic(deps) \/ mixed

\* The whole graph is valid after a save, and stays so while dependencies are
\* added: everything converges on one final phase.  Removing a dependency,
\* posting a bare phase, or saving over phases the save had not found, undo it.
OneFinalPhase == (~loose /\ ~mixed) => Converges(phases, deps)

\* An update that carries no position leaves the dot where a person last put
\* it, unless two updates of the phase were recorded at once.
DotStaysWherePlaced == \A p \in phases \ blurred : dot[p] = placed[p]

\* The chain the page draws is a path of the graph, no path has more days left,
\* and it names a constraint as long as there is work.
ChainIsLongest ==
    Acyclic(deps) =>
        LET path == CriticalPath(phases, deps, Plan, dot)
            days == PathDays(path, Plan, dot)
            paths == Paths(phases, deps)
        IN  /\ path = <<>> \/ path \in paths
            /\ \A s \in paths : PathDays(s, Plan, dot) <= days
            /\ Constraint(path, dot) # None
                   <=> \E p \in phases : Remaining(p, Plan, dot) > 0
=============================================================================
