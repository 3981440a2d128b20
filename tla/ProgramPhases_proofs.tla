-------------------------- MODULE ProgramPhases_proofs --------------------------
(* Theorems about ProgramPhases: however many people edit a program, however  *)
(* many phases it has, and whatever their drafts.                             *)
EXTENDS ProgramPhases, FiniteSetTheorems, SequenceTheorems, WellFoundedInduction, TLAPS

-----------------------------------------------------------------------------
(* What the walk and the validator of PhaseDag guarantee about any finite     *)
(* graph.                                                                     *)

(* The walk returns a set that the parents of n lie in and that every         *)
(* dependency of a member leads back into.                                    *)
LEMMA AncestorsAreClosed ==
    ASSUME NEW E, NEW n, \A e \in E : e = <<e[1], e[2]>>
    PROVE  /\ Up(n, E) \subseteq Ancestors(n, E)
           /\ ClosedUpstream(Ancestors(n, E), E)
<1>1. \A e \in E : e[1] \in Ends(E) /\ e[2] \in Ends(E)
    BY DEF Ends
<1>2. Up(n, E) \subseteq Ancestors(n, E)
    BY <1>1 DEF Up, Ancestors
<1>3. ASSUME NEW e \in E, e[1] \in Ancestors(n, E)
      PROVE  e[2] \in Ancestors(n, E)
    BY <1>1, <1>3 DEF Ancestors, ClosedUpstream
<1> QED  BY <1>2, <1>3 DEF ClosedUpstream

(* Nothing but what is reached: any closed set with the parents of n in it    *)
(* has the walk's result in it.                                               *)
LEMMA AncestorsAreLeast ==
    ASSUME NEW E, NEW n, NEW S, Up(n, E) \subseteq S, ClosedUpstream(S, E)
    PROVE  Ancestors(n, E) \subseteq S
<1> DEFINE T == S \cap Ends(E)
<1>1. \A e \in E : e[1] \in Ends(E) /\ e[2] \in Ends(E)
    BY DEF Ends
<1>2. Up(n, E) \subseteq T /\ ClosedUpstream(T, E)
    BY <1>1 DEF Up, ClosedUpstream
<1> QED  BY <1>2 DEF Ancestors

(* A finite graph in which no node is its own ancestor has an order: a least  *)
(* set in which everybody waits for somebody would be the ancestors of each   *)
(* of its members.                                                            *)
LEMMA NoOwnAncestorIsAcyclic ==
    ASSUME NEW E, \A e \in E : e = <<e[1], e[2]>>, IsFiniteSet(Ends(E)),
           \A n \in Ends(E) : n \notin Ancestors(n, E)
    PROVE  Acyclic(E)
<1> DEFINE Stuck == {S \in SUBSET Ends(E) :
                        S # {} /\ \A n \in S : \E m \in S : <<n, m>> \in E}
           R == StrictSubsetOrdering(Ends(E))
<1>1. SUFFICES ASSUME Stuck # {} PROVE FALSE
    BY DEF Acyclic
<1>2. IsWellFoundedOn(R, FiniteSubsetsOf(Ends(E)))
    BY FS_StrictSubsetOrderingWellFounded
<1>3. Stuck \subseteq FiniteSubsetsOf(Ends(E))
    BY FS_Subset DEF FiniteSubsetsOf
<1>4. PICK S \in Stuck : \A T \in Stuck : <<T, S>> \notin R
    <2> HIDE DEF R, Stuck
    <2> QED  BY <1>1, <1>2, <1>3, WFMin
<1>5. PICK n \in S : TRUE
    BY <1>4
<1> DEFINE T == S \cap Ancestors(n, E)
<1>6. T \in Stuck
    <2>1. PICK m \in S : <<n, m>> \in E
        BY <1>4
    <2>2. m \in T
        BY <2>1, AncestorsAreClosed DEF Up
    <2>3. ASSUME NEW a \in T
          PROVE  \E b \in T : <<a, b>> \in E
        <3>1. PICK b \in S : <<a, b>> \in E
            BY <1>4
        <3>2. b \in Ancestors(n, E)
            BY <3>1, AncestorsAreClosed DEF ClosedUpstream
        <3> QED  BY <3>1, <3>2
    <2> QED  BY <2>2, <2>3
<1>7. T = S
    BY <1>4, <1>6 DEF StrictSubsetOrdering
<1> QED  BY <1>4, <1>5, <1>7

(* A validated graph has an order and one end that everything converges on.   *)
LEMMA ValidGraph ==
    ASSUME NEW N, NEW E \in SUBSET (N \X N), IsFiniteSet(N), ValidDag(N, E)
    PROVE  Acyclic(E) /\ Converges(N, E)
<1>1. \A e \in E : e = <<e[1], e[2]>> /\ e[1] \in N /\ e[2] \in N
    OBVIOUS
<1>2. Ends(E) \subseteq N
    BY DEF ValidDag
<1>3. Acyclic(E)
    BY <1>1, <1>2, FS_Subset, NoOwnAncestorIsAcyclic DEF ValidDag
<1>4. PICK end \in EndPhases(N, E) : /\ Sinks(N, E) = {end}
                                     /\ N \subseteq {end} \cup Ancestors(end, E)
    BY DEF ValidDag
<1>5. end \in N /\ \A e \in E : e[2] # end
    BY <1>4 DEF Sinks
<1>6. ASSUME NEW S \in SUBSET N, end \in S, ClosedUpstream(S, E)
      PROVE  S = N
    <2>1. Up(end, E) \subseteq S
        BY <1>6 DEF Up, ClosedUpstream
    <2>2. Ancestors(end, E) \subseteq S
        BY <1>6, <2>1, AncestorsAreLeast
    <2> QED  BY <1>4, <1>6, <2>2
<1> QED  BY <1>3, <1>5, <1>6 DEF Converges

(* A dependency that the walk lets pass closes no cycle.                      *)
LEMMA AddedDependency ==
    ASSUME NEW E, NEW p, NEW u, p # u, Acyclic(E),
           \A e \in E : e = <<e[1], e[2]>>,
           p \notin Ancestors(u, E \cup {<<p, u>>})
    PROVE  Acyclic(E \cup {<<p, u>>})
<1> DEFINE F == E \cup {<<p, u>>}
           A == {u} \cup Ancestors(u, F)
<1>1. \A e \in F : e = <<e[1], e[2]>>
    OBVIOUS
<1>2. ClosedUpstream(A, F)
    <2> HIDE DEF F
    <2> QED  BY <1>1, AncestorsAreClosed DEF ClosedUpstream, Up
<1>3. SUFFICES ASSUME NEW S \in SUBSET Ends(F), S # {},
                      \A n \in S : \E m \in S : <<n, m>> \in F
               PROVE  FALSE
    BY DEF Acyclic
<1>4. ASSUME NEW T \in SUBSET S, T # {},
             \A n \in T : \E m \in T : <<n, m>> \in E
      PROVE  FALSE
    <2>1. \A n, m : <<n, m>> \in E => n \in Ends(E)
        BY DEF Ends
    <2>2. T \subseteq Ends(E)
        BY <1>4, <2>1
    <2> QED  BY <1>4, <2>2 DEF Acyclic
<1>5. PICK n \in S : \A m \in S : <<n, m>> \notin E
    BY <1>3, <1>4
<1>6. n = p /\ u \in S
    BY <1>3, <1>5
<1>7. \A a \in S \cap A : \E b \in S \cap A : <<a, b>> \in E
    <2>1. TAKE a \in S \cap A
    <2>2. PICK b \in S : <<a, b>> \in F
        BY <1>3
    <2>3. b \in A
        BY <1>2, <2>2 DEF ClosedUpstream
    <2>4. a # p
        OBVIOUS
    <2> QED  BY <2>2, <2>3, <2>4
<1> QED  BY <1>4, <1>6, <1>7

(* Nor does it leave anything behind: the graph still converges.              *)
LEMMA AddedDependencyConverges ==
    ASSUME NEW N, NEW E \in SUBSET (N \X N), NEW p \in N, NEW u \in N, p # u,
           Converges(N, E), p \notin Ancestors(u, E \cup {<<p, u>>})
    PROVE  Converges(N, E \cup {<<p, u>>})
<1> DEFINE F == E \cup {<<p, u>>}
           A == ({u} \cup Ancestors(u, F)) \cap N
<1>1. \A e \in F : e = <<e[1], e[2]>> /\ e[1] \in N /\ e[2] \in N
    OBVIOUS
<1>2. PICK end \in N :
        /\ \A e \in E : e[2] # end
        /\ \A S \in SUBSET N : end \in S /\ ClosedUpstream(S, E) => S = N
    BY DEF Converges
<1>3. ClosedUpstream({u} \cup Ancestors(u, F), F)
    <2> HIDE DEF F
    <2> QED  BY <1>1, AncestorsAreClosed DEF ClosedUpstream, Up
<1>4. ClosedUpstream(A, E)
    BY <1>1, <1>3 DEF ClosedUpstream
<1>5. u # end
    <2> SUFFICES ASSUME u = end PROVE FALSE
        OBVIOUS
    <2>1. A = N
        BY <1>2, <1>4
    <2> QED  BY <2>1
<1>6. \A e \in F : e[2] # end
    BY <1>2, <1>5
<1>7. \A S \in SUBSET N : ClosedUpstream(S, F) => ClosedUpstream(S, E)
    BY DEF ClosedUpstream
<1>8. \A S \in SUBSET N : end \in S /\ ClosedUpstream(S, F) => S = N
    BY <1>2, <1>7
<1> HIDE DEF F
<1> QED  BY <1>6, <1>8 DEF Converges, F

RenamedNodes(f, N) == {f[n] : n \in N}
RenamedEdges(f, E) == {<<f[d[1]], f[d[2]]>> : d \in E}

(* A one-to-one renaming of the nodes keeps both.                             *)
LEMMA RenamedGraph ==
    ASSUME NEW N, NEW E \in SUBSET (N \X N), NEW M, NEW f \in [N -> M],
           \A a, b \in N : f[a] = f[b] => a = b,
           Acyclic(E), Converges(N, E)
    PROVE  Acyclic(RenamedEdges(f, E)) /\ Converges(RenamedNodes(f, N), RenamedEdges(f, E))
<1> DEFINE F == {<<f[d[1]], f[d[2]]>> : d \in E}
           R == {f[n] : n \in N}
<1>1. \A n \in N, m \in M : <<f[n], m>> \in F => \E k \in N : m = f[k] /\ <<n, k>> \in E
    <2> TAKE n \in N, m \in M
    <2> HAVE <<f[n], m>> \in F
    <2>1. PICK d \in E : f[n] = f[d[1]] /\ m = f[d[2]]
        OBVIOUS
    <2>2. d[1] \in N /\ d[2] \in N /\ d = <<d[1], d[2]>>
        OBVIOUS
    <2>3. n = d[1]
        BY <2>1, <2>2
    <2> QED  BY <2>1, <2>2, <2>3
<1>2. Acyclic(F)
    <2> SUFFICES ASSUME NEW S \in SUBSET Ends(F), S # {},
                        \A n \in S : \E m \in S : <<n, m>> \in F
                 PROVE  FALSE
        BY DEF Acyclic
    <2> DEFINE T == {n \in N : f[n] \in S}
    <2>1. \A n \in S : n \in M /\ \E k \in N : n = f[k]
        BY DEF Ends
    <2>2. ASSUME NEW n \in T PROVE \E m \in T : <<n, m>> \in E
        <3>1. PICK m \in S : <<f[n], m>> \in F
            OBVIOUS
        <3>2. m \in M
            BY <2>1
        <3>3. PICK k \in N : m = f[k] /\ <<n, k>> \in E
            BY <1>1, <3>1, <3>2
        <3> QED  BY <3>3
    <2>3. T # {}
        BY <2>1
    <2>4. \A n, m : <<n, m>> \in E => n \in Ends(E)
        BY DEF Ends
    <2>5. T \in SUBSET Ends(E)
        BY <2>2, <2>4
    <2> QED  BY <2>2, <2>3, <2>5 DEF Acyclic
<1>3. Converges(R, F)
    <2>1. PICK end \in N :
            /\ \A e \in E : e[2] # end
            /\ \A S \in SUBSET N : end \in S /\ ClosedUpstream(S, E) => S = N
        BY DEF Converges
    <2>2. \A e \in F : e[2] # f[end]
        BY <2>1
    <2>3. ASSUME NEW S \in SUBSET R, f[end] \in S, ClosedUpstream(S, F)
          PROVE  S = R
        <3> DEFINE T == {n \in N : f[n] \in S}
        <3>1. \A e \in E : <<f[e[1]], f[e[2]]>> \in F
            OBVIOUS
        <3>2. \A e \in E : e[1] \in T => e[2] \in T
            <4> TAKE e \in E
            <4> HAVE e[1] \in T
            <4>1. f[e[2]] \in S
                <5> DEFINE g == <<f[e[1]], f[e[2]]>>
                <5>1. g \in F /\ g[1] \in S
                    BY <3>1
                <5>2. g[2] \in S
                    BY <2>3, <5>1 DEF ClosedUpstream
                <5> QED  BY <5>2
            <4> QED  BY <4>1
        <3>3. T = N
            BY <2>1, <2>3, <3>2 DEF ClosedUpstream
        <3> QED  BY <3>3
    <2>4. f[end] \in R
        OBVIOUS
    <2> HIDE DEF F, R
    <2> QED  BY <2>2, <2>3, <2>4 DEF Converges
<1>4. F = RenamedEdges(f, E) /\ R = RenamedNodes(f, N)
    BY DEF RenamedEdges, RenamedNodes
<1> HIDE DEF F, R
<1> QED  BY <1>2, <1>3, <1>4

(* Replacing what some nodes depend on by a graph among them alone: whatever  *)
(* else is there, the whole is acyclic when both were.                        *)
LEMMA ReplacedPart ==
    ASSUME NEW E, NEW R, NEW F \in SUBSET (R \X R), Acyclic(E), Acyclic(F)
    PROVE  Acyclic({d \in E : d[1] \notin R} \cup F)
<1> DEFINE G == {d \in E : d[1] \notin R} \cup F
<1> SUFFICES ASSUME NEW S \in SUBSET Ends(G), S # {},
                    \A n \in S : \E m \in S : <<n, m>> \in G
             PROVE  FALSE
    BY DEF Acyclic
<1>1. CASE S \cap R # {}
    <2> DEFINE T == S \cap R
    <2>1. \A n \in T : \E m \in T : <<n, m>> \in F
        OBVIOUS
    <2>2. \A n, m : <<n, m>> \in F => n \in Ends(F)
        BY DEF Ends
    <2>3. T \in SUBSET Ends(F)
        BY <2>1, <2>2
    <2> QED  BY <1>1, <2>1, <2>3 DEF Acyclic
<1>2. CASE S \cap R = {}
    <2>1. \A n \in S : \E m \in S : <<n, m>> \in E
        BY <1>2
    <2>2. \A n, m : <<n, m>> \in E => n \in Ends(E)
        BY DEF Ends
    <2>3. S \in SUBSET Ends(E)
        BY <2>1, <2>2
    <2> QED  BY <2>1, <2>3 DEF Acyclic
<1> QED  BY <1>1, <1>2

(* A graph with fewer dependencies is acyclic too.                            *)
LEMMA FewerDependencies ==
    ASSUME NEW E, NEW F \in SUBSET E, Acyclic(E)
    PROVE  Acyclic(F)
<1>1. SUFFICES ASSUME NEW S \in SUBSET Ends(F), S # {},
                      \A n \in S : \E m \in S : <<n, m>> \in F
               PROVE  FALSE
    BY DEF Acyclic
<1>2. S \in SUBSET Ends(E)
    BY DEF Ends
<1> QED  BY <1>1, <1>2 DEF Acyclic

-----------------------------------------------------------------------------
(* The structure of a program.                                                *)

USE DEF Id, None, Blank

(* What a request in flight has read is still good for the write it is about  *)
(* to make: a draft was validated, and the snapshot of an add that no save    *)
(* has outdated has every dependency of the program in it.                    *)
Sound(o) ==
    /\ o.step = "saving" => /\ o.edges \subseteq o.nodes \X o.nodes
                            /\ ValidDag(o.nodes, o.edges)
    /\ o.step = "adding" => /\ o.edge[1] \in Id /\ o.edge[2] \in Id
                            /\ o.edge[1] # o.edge[2]
                            /\ o.outdated \/ deps \subseteq o.seen

StructureInv ==
    /\ TypeOK
    /\ \A e \in Editor : Sound(op[e])
    /\ NoCycle
    /\ OneFinalPhase

LEMMA Nodes == IsFiniteSet(Node) /\ Node \subseteq Int /\ Id \cap NewNode = {}
<1>1. MaxPhase \in Int /\ -MaxNew \in Int
    BY BoundsAssumption DEF BoundsAssumption
<1>2. IsFiniteSet(Id) /\ IsFiniteSet(NewNode)
    BY <1>1, FS_Interval DEF NewNode
<1>3. IsFiniteSet(Node)
    BY <1>2, FS_Union DEF Node
<1>4. \A n \in NewNode : n \in Int /\ n < 0
    BY <1>1 DEF NewNode
<1> QED  BY <1>1, <1>3, <1>4 DEF Node

LEMMA Pairing == ASSUME NEW S, NEW T, NEW d \in S \X T PROVE d = <<d[1], d[2]>>
OBVIOUS

(* More dependencies, more ancestors. *)
LEMMA AncestorsGrow ==
    ASSUME NEW E, NEW F, E \subseteq F, \A e \in F : e = <<e[1], e[2]>>, NEW n
    PROVE  Ancestors(n, E) \subseteq Ancestors(n, F)
<1>1. Up(n, E) \subseteq Ancestors(n, F) /\ ClosedUpstream(Ancestors(n, F), E)
    BY AncestorsAreClosed DEF Up, ClosedUpstream
<1> QED  BY <1>1, AncestorsAreLeast

LEMMA InitStructure == Init => StructureInv
<1> SUFFICES ASSUME Init PROVE StructureInv
    OBVIOUS
<1> USE DEF BoundsAssumption, DotAssumption
<1> USE BoundsAssumption, DotAssumption
<1>1. TypeOK
    <2>1. Idle \in Operation
        BY DEF Idle, Operation
    <2>2. phases \subseteq Id /\ nextId \in Nat /\ \A p \in phases : p < nextId
        BY DEF Init
    <2>3. dot \in [Id -> Dot] /\ placed \in [Id -> Dot]
        BY DEF Init
    <2> QED  BY <2>1, <2>2, <2>3 DEF Init, TypeOK
<1>2. \A e \in Editor : Sound(op[e])
    BY DEF Init, Sound, Idle
<1>3. IsFiniteSet(phases)
    BY FS_Interval DEF Init
<1>4. Acyclic(deps) /\ Converges(phases, deps)
    BY <1>3, ValidGraph DEF Init
<1> QED  BY <1>1, <1>2, <1>4 DEF StructureInv, NoCycle, OneFinalPhase

(* Another request begins: all that changes is what it has read. *)
LEMMA Starts ==
    ASSUME StructureInv, NEW e \in Editor, NEW o \in Operation, Sound(o),
           Begin(e, o), UNCHANGED <<phases, deps, dot, nextId, placed, mixed, loose>>,
           blurred' \subseteq Id
    PROVE  StructureInv'
<1>1. op' \in [Editor -> Operation] /\ spent' \in Nat
    BY DEF StructureInv, TypeOK, Begin
<1>2. TypeOK'
    BY <1>1 DEF StructureInv, TypeOK
<1>3. \A f \in Editor : op'[f] = IF f = e THEN o ELSE op[f]
    BY DEF StructureInv, TypeOK, Begin
<1>4. \A f \in Editor : Sound(op[f])'
    BY <1>3 DEF StructureInv, Sound
<1> QED  BY <1>2, <1>4 DEF StructureInv, NoCycle, OneFinalPhase

(* A request ends, on a graph no larger than before. *)
LEMMA Ends_ ==
    ASSUME StructureInv, NEW e \in Editor, Finish(e),
           UNCHANGED <<phases, deps, nextId, mixed, loose, blurred, spent>>,
           dot' \in [Id -> Dot], placed' \in [Id -> Dot]
    PROVE  StructureInv'
<1>1. Idle \in Operation /\ (Sound(Idle))'
    BY DotAssumption DEF Idle, Operation, Sound
<1>2. \A f \in Editor : op'[f] = IF f = e THEN Idle ELSE op[f]
    BY DEF StructureInv, TypeOK, Finish
<1>3. op' \in [Editor -> Operation]
    BY <1>1 DEF StructureInv, TypeOK, Finish
<1>4. TypeOK'
    BY <1>3 DEF StructureInv, TypeOK
<1>5. \A f \in Editor : Sound(op[f])'
    BY <1>1, <1>2 DEF StructureInv, Sound
<1> QED  BY <1>4, <1>5 DEF StructureInv, NoCycle, OneFinalPhase

-----------------------------------------------------------------------------
(* The save.  What it leaves among the draft's phases is the draft, renamed;  *)
(* what it leaves elsewhere was there before.                                 *)

LEMMA SaveWriteStructure ==
    ASSUME StructureInv, NEW e \in Editor, SaveWrite(e)
    PROVE  StructureInv'
<1> DEFINE o == op[e]
           kept == o.nodes \cap Id
           removed == o.existing \ kept
           real == {RealId(n) : n \in o.nodes}
           stay == WithoutPhases(deps, removed)
           image == {<<RealId(d[1]), RealId(d[2])>> : d \in o.edges}
           f == [n \in o.nodes |-> RealId(n)]
<1> USE DEF BoundsAssumption, DotAssumption
<1> USE BoundsAssumption, DotAssumption
<1>1. /\ o \in Operation /\ o.step = "saving" /\ Sound(o)
      /\ o.nodes \subseteq Node /\ o.existing \subseteq Id
      /\ phases \subseteq Id /\ nextId \in Nat /\ \A p \in phases : p < nextId
      /\ real \subseteq Id
    BY DEF SaveWrite, StructureInv, TypeOK, Operation
<1>2. CASE ~(kept \subseteq phases)
    <2>1. Finish(e) /\ UNCHANGED <<phases, deps, dot, nextId, placed, loose, blurred, mixed, spent>>
        BY <1>2 DEF SaveWrite
    <2> QED  BY <2>1, Ends_ DEF StructureInv, TypeOK
<1>3. CASE kept \subseteq phases
    <2>1. /\ phases' = (phases \ removed) \cup real
          /\ deps' = Rebuilt(stay, real, o.edges)
          /\ dot' = [p \in Id |-> IF p \in real \ kept THEN 0 ELSE dot[p]]
          /\ placed' = [p \in Id |-> IF p \in real \ kept THEN 0 ELSE placed[p]]
          /\ nextId' = nextId + IF real = kept THEN 0 ELSE MaxNew
          /\ loose' = (o.existing # phases)
          /\ op' = [g \in Editor |->
                 IF g = e THEN Idle ELSE [op[g] EXCEPT !.outdated = TRUE]]
          /\ UNCHANGED <<blurred, mixed, spent>>
        BY <1>3 DEF SaveWrite
    <2>2. \A n \in o.nodes :
            \/ n \in kept /\ f[n] = n /\ n < nextId
            \/ n \in NewNode /\ f[n] = nextId - n - 1 /\ f[n] >= nextId /\ f[n] < nextId + MaxNew
        <3>1. TAKE n \in o.nodes
        <3>2. CASE n \in Id
            BY <1>1, <1>3, <3>2 DEF RealId
        <3>3. CASE n \in NewNode
            BY <1>1, <3>3 DEF RealId, NewNode
        <3> QED  BY <1>1, <3>2, <3>3 DEF Node
    <2>3. \A m, n \in o.nodes : f[m] = f[n] => m = n
        <3>1. o.nodes \subseteq Int
            BY <1>1, Nodes
        <3> HIDE DEF f
        <3> QED  BY <1>1, <2>2, <3>1
    <2>4. f \in [o.nodes -> Id] /\ real = {f[n] : n \in o.nodes}
        BY <1>1
    <2>14. kept \subseteq real
        <3> SUFFICES ASSUME NEW n \in kept PROVE n \in real
            OBVIOUS
        <3>1. n \in o.nodes /\ n \in Id
            OBVIOUS
        <3>2. n > 0
            BY <3>1
        <3>3. RealId(n) = n
            BY <3>2 DEF RealId
        <3> QED  BY <3>1, <3>3
    <2>5. /\ o.edges \in SUBSET (o.nodes \X o.nodes)
          /\ IsFiniteSet(o.nodes)
          /\ Acyclic(o.edges) /\ Converges(o.nodes, o.edges)
        <3>1. IsFiniteSet(o.nodes)
            BY <1>1, Nodes, FS_Subset
        <3> QED  BY <1>1, <3>1, ValidGraph DEF Sound
    <2>6. image = {<<f[d[1]], f[d[2]]>> : d \in o.edges}
        BY <2>5
    <2>7. Acyclic(image) /\ Converges(real, image) /\ image \subseteq real \X real
        <3>1. Acyclic(image) /\ Converges(real, image)
            <4>1. image = RenamedEdges(f, o.edges) /\ real = RenamedNodes(f, o.nodes)
                BY <2>4, <2>6 DEF RenamedEdges, RenamedNodes
            <4> DEFINE N == o.nodes
                       E == o.edges
            <4>2. /\ E \in SUBSET (N \X N) /\ f \in [N -> Id]
                  /\ \A m, n \in N : f[m] = f[n] => m = n
                  /\ Acyclic(E) /\ Converges(N, E)
                <5> HIDE DEF f
                <5> QED  BY <2>3, <2>4, <2>5
            <4>3. Acyclic(RenamedEdges(f, E)) /\ Converges(RenamedNodes(f, N), RenamedEdges(f, E))
                <5> HIDE DEF f, o, N, E, Id
                <5> QED  BY <4>2, RenamedGraph
            <4> HIDE DEF f, real, image
            <4> QED  BY <4>1, <4>3
        <3>2. image \subseteq real \X real
            BY <2>5
        <3> HIDE DEF image, real, f
        <3> QED  BY <3>1, <3>2
    <2>8. deps' = {d \in stay : d[1] \notin real} \cup image
        BY <2>1 DEF Rebuilt
    <2>9. deps \subseteq phases \X phases /\ stay \subseteq deps
        BY DEF StructureInv, TypeOK, WithoutPhases
    <2>10. TypeOK'
        <3>1. phases' \subseteq Id /\ nextId' \in Nat
            <4> HIDE DEF real, kept
            <4> QED  BY <1>1, <2>1
        <3>2. \A p \in phases' : p < nextId'
            <4>1. \A r \in real : r < nextId'
                <5>1. CASE real = kept
                    BY <1>1, <1>3, <2>1, <5>1
                <5>2. CASE real # kept
                    <6>1. nextId' = nextId + MaxNew
                        BY <2>1, <5>2
                    <6>2. \A n \in o.nodes : n \in kept => f[n] \in Int /\ f[n] < nextId
                        BY <1>1, <1>3, <2>2
                    <6>3. \A n \in o.nodes : f[n] \in Int
                        BY <2>4
                    <6> HIDE DEF f
                    <6> QED  BY <1>1, <2>2, <2>4, <6>1, <6>3
                <5> QED  BY <5>1, <5>2
            <4>2. \A p \in phases : p < nextId'
                <5> HIDE DEF real, kept
                <5> QED  BY <1>1, <2>1
            <4> QED  BY <2>1, <4>1, <4>2
        <3>3. deps' \subseteq phases' \X phases'
            <4>1. \A d \in stay : d[1] \in phases' /\ d[2] \in phases'
                BY <2>1, <2>9 DEF WithoutPhases
            <4>2. stay \subseteq phases' \X phases'
                <5> HIDE DEF stay
                <5> QED  BY <2>9, <4>1
            <4>3. real \subseteq phases'
                BY <2>1
            <4> HIDE DEF stay, real, image
            <4> QED  BY <2>7, <2>8, <4>2, <4>3
        <3>4. dot' \in [Id -> Dot] /\ placed' \in [Id -> Dot]
            <4> HIDE DEF real, kept
            <4> QED  BY <2>1 DEF StructureInv, TypeOK
        <3>5. op' \in [Editor -> Operation]
            <4>1. Idle \in Operation
                BY DEF Idle, Operation
            <4>2. \A c \in Operation : [c EXCEPT !.outdated = TRUE] \in Operation
                BY DEF Operation
            <4>3. \A g \in Editor : op[g] \in Operation
                BY DEF StructureInv, TypeOK
            <4> QED  BY <2>1, <4>1, <4>2, <4>3
        <3>6. blurred' \subseteq Id /\ mixed' \in BOOLEAN /\ loose' \in BOOLEAN /\ spent' \in Nat
            BY <2>1 DEF StructureInv, TypeOK
        <3> HIDE DEF real, kept
        <3> QED  BY <3>1, <3>2, <3>3, <3>4, <3>5, <3>6 DEF TypeOK
    <2>11. \A g \in Editor : Sound(op[g])'
        <3>1. TAKE g \in Editor
        <3>2. CASE g = e
            BY <2>1, <3>2 DEF Sound, Idle
        <3>3. CASE g # e
            <4>1. op'[g] = [op[g] EXCEPT !.outdated = TRUE] /\ op[g] \in Operation
                BY <2>1, <3>3 DEF StructureInv, TypeOK
            <4>2. /\ op'[g].step = op[g].step /\ op'[g].nodes = op[g].nodes
                  /\ op'[g].edges = op[g].edges /\ op'[g].edge = op[g].edge
                  /\ op'[g].outdated = TRUE
                BY <4>1 DEF Operation
            <4> QED  BY <4>2 DEF StructureInv, Sound
        <3> QED  BY <3>2, <3>3
    <2>12. NoCycle'
        <3>1. CASE mixed
            BY <2>1, <3>1 DEF NoCycle
        <3>2. CASE ~mixed
            <4>1. Acyclic(deps)
                BY <3>2 DEF StructureInv, NoCycle
            <4>2. Acyclic(stay)
                BY <2>9, <4>1, FewerDependencies
            <4>3. Acyclic({d \in stay : d[1] \notin real} \cup image)
                <5> HIDE DEF stay, real, image
                <5> QED  BY <2>7, <4>2, ReplacedPart
            <4> HIDE DEF stay, real, image
            <4> QED  BY <2>8, <4>3 DEF NoCycle
        <3> QED  BY <3>1, <3>2
    <2>13. OneFinalPhase'
        <3> SUFFICES ASSUME o.existing = phases PROVE Converges(phases, deps)'
            BY <2>1 DEF OneFinalPhase
        <3>1. phases' = real
            <4> HIDE DEF real, kept
            <4> QED  BY <1>3, <2>1, <2>14
        <3>2. \A d \in stay : d[1] \in real
            <4>1. \A d \in stay : d[1] \in phases /\ d[1] \notin removed
                BY <2>9 DEF WithoutPhases
            <4>2. \A d \in stay : d[1] \in kept
                BY <4>1
            <4> HIDE DEF stay, real, kept
            <4> QED  BY <4>2, <2>14
        <3>3. deps' = image
            <4> HIDE DEF stay, real, image
            <4> QED  BY <2>8, <3>2
        <3> HIDE DEF real, image
        <3> QED  BY <2>7, <3>1, <3>3
    <2> HIDE DEF real, kept, image, stay, f
    <2> QED  BY <2>10, <2>11, <2>12, <2>13 DEF StructureInv
<1> QED  BY <1>2, <1>3

-----------------------------------------------------------------------------
(* An added dependency.  What it checked has every dependency there is in it, *)
(* unless a save outdated it.                                                 *)
LEMMA AddCommitStructure ==
    ASSUME StructureInv, NEW e \in Editor, AddCommit(e)
    PROVE  StructureInv'
<1> DEFINE o == op[e]
           p == o.edge[1]
           u == o.edge[2]
<1>1. /\ o \in Operation /\ o.step = "adding" /\ Sound(o)
      /\ o.edge = <<p, u>> /\ p \in Id /\ u \in Id /\ p # u /\ o.seen \subseteq Id \X Id
    BY DEF AddCommit, StructureInv, TypeOK, Operation, Sound
<1>2. CASE ClosesCycle(p, u, o.seen \cup {o.edge}) \/ o.edge \in deps \/ ~({p, u} \subseteq phases)
    <2>1. Finish(e) /\ UNCHANGED <<phases, deps, dot, nextId, placed, loose, blurred, mixed, spent>>
        BY <1>2 DEF AddCommit
    <2> QED  BY <2>1, Ends_ DEF StructureInv, TypeOK
<1>3. CASE ~(ClosesCycle(p, u, o.seen \cup {o.edge}) \/ o.edge \in deps \/ ~({p, u} \subseteq phases))
    <2>1. /\ deps' = deps \cup {o.edge}
          /\ mixed' = (mixed \/ o.outdated)
          /\ op' = [f \in Editor |->
                 IF f = e THEN Idle
                 ELSE IF op[f].step = "adding"
                 THEN [op[f] EXCEPT !.seen = @ \cup {o.edge}]
                 ELSE op[f]]
          /\ UNCHANGED <<phases, dot, nextId, placed, blurred, loose, spent>>
        BY <1>3 DEF AddCommit
    <2>2. p \in phases /\ u \in phases /\ deps \subseteq phases \X phases
        BY <1>3 DEF StructureInv, TypeOK
    <2>3. TypeOK'
        <3>1. Idle \in Operation
            BY DotAssumption DEF DotAssumption, Idle, Operation
        <3>2. \A c \in Operation : [c EXCEPT !.seen = @ \cup {o.edge}] \in Operation
            BY <1>1 DEF Operation
        <3>3. op' \in [Editor -> Operation]
            <4>1. \A f \in Editor : op[f] \in Operation
                BY DEF StructureInv, TypeOK
            <4> QED  BY <2>1, <3>1, <3>2, <4>1
        <3>4. mixed' \in BOOLEAN
            BY <1>1, <2>1 DEF StructureInv, TypeOK, Operation
        <3>5. deps' \subseteq phases' \X phases'
            <4>1. o.edge \in phases \X phases
                BY <1>1, <2>2
            <4> HIDE DEF o
            <4> QED  BY <2>1, <2>2, <4>1
        <3> QED  BY <2>1, <3>3, <3>4, <3>5 DEF StructureInv, TypeOK
    <2>4. \A f \in Editor : Sound(op[f])'
        <3>1. TAKE f \in Editor
        <3>2. CASE f = e
            BY <2>1, <3>2 DEF Sound, Idle
        <3>3. CASE f # e /\ op[f].step = "adding"
            <4>1. op'[f] = [op[f] EXCEPT !.seen = @ \cup {o.edge}] /\ op[f] \in Operation
                BY <2>1, <3>3 DEF StructureInv, TypeOK
            <4>2. /\ op'[f].step = "adding" /\ op'[f].edge = op[f].edge
                  /\ op'[f].outdated = op[f].outdated
                  /\ op'[f].seen = op[f].seen \cup {o.edge}
                BY <3>3, <4>1 DEF Operation
            <4>3. Sound(op[f])
                BY DEF StructureInv
            <4> QED  BY <2>1, <3>3, <4>2, <4>3 DEF Sound
        <3>4. CASE f # e /\ op[f].step # "adding"
            BY <2>1, <3>4 DEF StructureInv, Sound
        <3> QED  BY <3>2, <3>3, <3>4
    <2>5. ASSUME ~mixed'
          PROVE  /\ ~mixed /\ p \notin Ancestors(u, deps \cup {<<p, u>>})
                 /\ deps' = deps \cup {<<p, u>>}
                 /\ \A d \in deps : d = <<d[1], d[2]>>
        <3>1. ~mixed /\ ~o.outdated
            BY <2>1, <2>5
        <3>2. deps \cup {<<p, u>>} \subseteq o.seen \cup {o.edge}
            BY <1>1, <3>1 DEF Sound
        <3>3. \A d \in o.seen \cup {o.edge} : d = <<d[1], d[2]>>
            BY <1>1
        <3>4. p \notin Ancestors(u, o.seen \cup {o.edge})
            BY <1>3 DEF ClosesCycle
        <3>5. Ancestors(u, deps \cup {<<p, u>>}) \subseteq Ancestors(u, o.seen \cup {o.edge})
            <4> HIDE DEF o
            <4> QED  BY <3>2, <3>3, AncestorsGrow
        <3>6. deps' = deps \cup {<<p, u>>}
            BY <1>1, <2>1
        <3>7. \A d \in deps : d = <<d[1], d[2]>>
            BY <2>2
        <3> HIDE DEF o, p, u
        <3> QED  BY <3>1, <3>4, <3>5, <3>6, <3>7
    <2>6. NoCycle'
        <3> SUFFICES ASSUME ~mixed' PROVE Acyclic(deps')
            BY DEF NoCycle
        <3>1. Acyclic(deps)
            BY <2>5 DEF StructureInv, NoCycle
        <3> HIDE DEF p, u
        <3> QED  BY <1>1, <2>5, <3>1, AddedDependency
    <2>7. OneFinalPhase'
        <3> SUFFICES ASSUME ~mixed', ~loose' PROVE Converges(phases', deps')
            BY DEF OneFinalPhase
        <3>1. Converges(phases, deps) /\ phases' = phases
            BY <2>1, <2>5 DEF StructureInv, OneFinalPhase
        <3>2. deps \in SUBSET (phases \X phases) /\ p # u
            BY <1>1, <2>2
        <3> HIDE DEF p, u, o
        <3> QED  BY <2>2, <2>5, <3>1, <3>2, AddedDependencyConverges
    <2> QED  BY <2>3, <2>4, <2>6, <2>7 DEF StructureInv
<1> QED  BY <1>2, <1>3

(* Every other change of the structure: a dependency fewer, or a phase that   *)
(* nothing depends on.                                                        *)
LEMMA LooseStructure ==
    ASSUME StructureInv, NEW e \in Editor, RemoveDependency(e) \/ PostPhase(e)
    PROVE  StructureInv'
<1>1. Begin(e, Idle) /\ loose' = TRUE /\ UNCHANGED <<blurred, mixed>> /\ deps' \subseteq deps
    BY DEF RemoveDependency, PostPhase
<1>2. Idle \in Operation /\ \A f \in Editor : op'[f] = IF f = e THEN Idle ELSE op[f]
    BY <1>1, DotAssumption DEF StructureInv, TypeOK, Begin, DotAssumption, Idle, Operation
<1>3. TypeOK'
    <2>1. op' \in [Editor -> Operation] /\ spent' \in Nat
        BY <1>1, <1>2 DEF StructureInv, TypeOK, Begin
    <2>2. CASE RemoveDependency(e)
        BY <1>1, <2>1, <2>2 DEF RemoveDependency, StructureInv, TypeOK
    <2>3. CASE PostPhase(e)
        <3>1. nextId \in Id /\ nextId' = nextId + 1 /\ phases' = phases \cup {nextId}
            BY <2>3 DEF PostPhase
        <3>2. phases' \subseteq Id /\ \A q \in phases' : q < nextId'
            BY <3>1, BoundsAssumption DEF StructureInv, TypeOK, BoundsAssumption
        <3>3. dot' \in [Id -> Dot] /\ placed' \in [Id -> Dot]
            BY <2>3, DotAssumption DEF PostPhase, StructureInv, TypeOK, DotAssumption
        <3>4. deps' \subseteq phases' \X phases' /\ nextId' \in Nat
            BY <1>1, <3>1 DEF StructureInv, TypeOK
        <3> QED  BY <1>1, <2>1, <3>2, <3>3, <3>4 DEF StructureInv, TypeOK
    <2> QED  BY <2>2, <2>3
<1>4. \A f \in Editor : Sound(op[f])'
    <2>1. TAKE f \in Editor
    <2>2. CASE f = e
        BY <1>2, <2>2 DEF Sound, Idle
    <2>3. CASE f # e
        BY <1>1, <1>2, <2>3 DEF StructureInv, Sound
    <2> QED  BY <2>2, <2>3
<1>5. NoCycle'
    <2>1. CASE mixed
        BY <1>1, <2>1 DEF NoCycle
    <2>2. CASE ~mixed
        <3>1. Acyclic(deps)
            BY <2>2 DEF StructureInv, NoCycle
        <3> QED  BY <1>1, <3>1, FewerDependencies DEF NoCycle
    <2> QED  BY <2>1, <2>2
<1> QED  BY <1>1, <1>3, <1>4, <1>5 DEF StructureInv, OneFinalPhase

LEMMA NextStructure == StructureInv /\ [Next]_vars => StructureInv'
<1> SUFFICES ASSUME StructureInv, [Next]_vars PROVE StructureInv'
    OBVIOUS
<1>1. ASSUME NEW e \in Editor, SaveRead(e) PROVE StructureInv'
    <2>1. PICK draft \in ValidDrafts :
            Begin(e, [Idle EXCEPT !.step = "saving", !.nodes = draft.nodes,
                                  !.edges = draft.edges, !.existing = phases])
        BY <1>1 DEF SaveRead
    <2> DEFINE o == [Idle EXCEPT !.step = "saving", !.nodes = draft.nodes,
                                 !.edges = draft.edges, !.existing = phases]
    <2>2. PICK N \in SUBSET Node :
            \E E \in SUBSET Pairs(N) :
                draft = [nodes |-> N, edges |-> E] /\ ValidDag(N, E)
        BY <2>1 DEF ValidDrafts
    <2>7. PICK E \in SUBSET Pairs(N) :
            draft = [nodes |-> N, edges |-> E] /\ ValidDag(N, E)
        BY <2>2
    <2>3. draft.nodes = N /\ draft.edges = E /\ E \subseteq N \X N
        BY <2>7 DEF Pairs
    <2>4. o \in Operation
        <3>1. /\ draft.nodes \in SUBSET Node /\ draft.edges \in SUBSET (Node \X Node)
              /\ phases \in SUBSET Id
            BY <2>3 DEF StructureInv, TypeOK
        <3> QED  BY <3>1, DotAssumption DEF DotAssumption, Idle, Operation
    <2>5. Sound(o)
        BY <2>3, <2>7 DEF Sound, Idle
    <2>6. /\ UNCHANGED <<phases, deps, dot, nextId, placed, mixed, loose>>
          /\ blurred' \subseteq Id
        BY <1>1 DEF SaveRead, StructureInv, TypeOK
    <2> HIDE DEF o
    <2> QED  BY <2>1, <2>4, <2>5, <2>6, Starts DEF o
<1>2. ASSUME NEW e \in Editor, AddBegin(e) PROVE StructureInv'
    <2>1. PICK p, u \in phases :
            /\ p # u
            /\ Begin(e, [Idle EXCEPT !.step = "adding", !.edge = <<p, u>>, !.seen = deps])
        BY <1>2 DEF AddBegin
    <2> DEFINE o == [Idle EXCEPT !.step = "adding", !.edge = <<p, u>>, !.seen = deps]
    <2>2. p \in Id /\ u \in Id /\ deps \subseteq Id \X Id
        BY DEF StructureInv, TypeOK
    <2>3. o \in Operation
        BY <2>2, DotAssumption DEF DotAssumption, Idle, Operation
    <2>4. Sound(o)
        BY <2>1, <2>2 DEF Sound, Idle
    <2>5. /\ UNCHANGED <<phases, deps, dot, nextId, placed, mixed, loose>>
          /\ blurred' \subseteq Id
        BY <1>2 DEF AddBegin, StructureInv, TypeOK
    <2> HIDE DEF o
    <2> QED  BY <2>1, <2>3, <2>4, <2>5, Starts DEF o
<1>3. ASSUME NEW e \in Editor, HillRead(e) PROVE StructureInv'
    <2>1. PICK p \in phases, at \in Dot \cup {Blank} :
            Begin(e, [Idle EXCEPT !.step = "moving", !.phase = p, !.at = at, !.latest = dot[p]])
        BY <1>3 DEF HillRead
    <2> DEFINE o == [Idle EXCEPT !.step = "moving", !.phase = p, !.at = at, !.latest = dot[p]]
    <2>2. p \in Id /\ dot[p] \in Dot
        BY DEF StructureInv, TypeOK
    <2>3. o \in Operation
        BY <2>2 DEF Idle, Operation
    <2>4. Sound(o)
        BY DEF Sound, Idle
    <2>5. UNCHANGED <<phases, deps, dot, nextId, placed, mixed, loose>>
        BY <1>3 DEF HillRead
    <2>6. blurred' \subseteq Id
        <3>1. \E q \in phases : blurred' \subseteq blurred \cup {q}
            BY <1>3 DEF HillRead
        <3> QED  BY <3>1 DEF StructureInv, TypeOK
    <2> HIDE DEF o
    <2> QED  BY <2>1, <2>3, <2>4, <2>5, <2>6, Starts DEF o
<1>4. ASSUME NEW e \in Editor, HillWrite(e) PROVE StructureInv'
    <2>1. Finish(e) /\ UNCHANGED <<phases, deps, nextId, mixed, loose, blurred, spent>>
        BY <1>4 DEF HillWrite
    <2>2. op[e] \in Operation
        BY DEF StructureInv, TypeOK
    <2>3. op[e].phase \in phases => Carried(op[e]) \in Dot
        BY <2>2 DEF Operation, Carried
    <2>4. dot' \in [Id -> Dot] /\ placed' \in [Id -> Dot]
        <3>1. CASE op[e].phase \in phases
            <4>1. /\ dot' = [dot EXCEPT ![op[e].phase] = Carried(op[e])]
                  /\ placed' = [placed EXCEPT ![op[e].phase] =
                                    IF op[e].at = Blank THEN @ ELSE op[e].at]
                BY <1>4, <3>1 DEF HillWrite
            <4>2. op[e].at \in Dot \cup {Blank}
                BY <2>2 DEF Operation
            <4> QED  BY <2>3, <3>1, <4>1, <4>2 DEF StructureInv, TypeOK
        <3>2. CASE op[e].phase \notin phases
            BY <1>4, <3>2 DEF HillWrite, StructureInv, TypeOK
        <3> QED  BY <3>1, <3>2
    <2> QED  BY <2>1, <2>4, Ends_
<1>5. CASE UNCHANGED vars
    BY <1>5 DEF vars, StructureInv, TypeOK, Sound, NoCycle, OneFinalPhase
<1> QED
    BY <1>1, <1>2, <1>3, <1>4, <1>5, SaveWriteStructure, AddCommitStructure, LooseStructure
    DEF Next

THEOREM StructureHolds == Spec => []StructureInv
BY InitStructure, NextStructure, PTL DEF Spec

(* The program's phases, its dependencies and what the requests in flight     *)
(* have read keep their types; a dependency is between phases of the program. *)
THEOREM TypeCorrect == Spec => []TypeOK
<1>1. StructureInv => TypeOK
    BY DEF StructureInv
<1> QED  BY StructureHolds, <1>1, PTL

(* No phase comes to wait for itself: addPhaseDependency's walk and the       *)
(* save's validation keep the dependencies without a cycle, whoever edits at  *)
(* once, as long as no add commits on a snapshot that a save outdated.        *)
THEOREM NoPhaseWaitsForItself == Spec => []NoCycle
<1>1. StructureInv => NoCycle
    BY DEF StructureInv
<1> QED  BY StructureHolds, <1>1, PTL

(* After a save, and through every dependency added since, all phases         *)
(* converge on one final phase.                                               *)
THEOREM OneFinalPhaseHolds == Spec => []OneFinalPhase
<1>1. StructureInv => OneFinalPhase
    BY DEF StructureInv
<1> QED  BY StructureHolds, <1>1, PTL

-----------------------------------------------------------------------------
(* The dots.                                                                  *)

(* What a hill update has read is where the dot is, unless another update of  *)
(* the phase was recorded beside it; and no phase that is still to come is in *)
(* anybody's hands, so that an id given out anew starts clean.                *)
Steady(o) ==
    o.phase # None => /\ o.phase < nextId
                      /\ o.phase \in phases \ blurred => o.latest = dot[o.phase]

OneUpdateAtATime ==
    \A e, f \in Editor :
        e # f /\ op[e].phase # None /\ op[e].phase = op[f].phase => op[e].phase \in blurred

DotInv == DotStaysWherePlaced /\ OneUpdateAtATime /\ \A e \in Editor : Steady(op[e])

(* Every step but those of a hill update leaves the dots of the phases there  *)
(* were, and gives new ones the start of the hill.                            *)
LEMMA DotsStay ==
    ASSUME StructureInv, DotInv, blurred' = blurred, nextId' \in Nat, nextId' >= nextId,
           \A f \in Editor : \/ op'[f].phase = None
                             \/ op'[f].phase = op[f].phase /\ op'[f].latest = op[f].latest,
           \A p \in phases' \ blurred : \/ p \in phases /\ dot'[p] = dot[p] /\ placed'[p] = placed[p]
                                        \/ p >= nextId /\ dot'[p] = placed'[p]
    PROVE  DotInv'
<1>1. nextId \in Nat /\ phases \subseteq Int /\ \A f \in Editor : op[f].phase \in Int
    BY DEF StructureInv, TypeOK, Operation
<1>2. DotStaysWherePlaced'
    BY DEF DotInv, DotStaysWherePlaced
<1>3. OneUpdateAtATime'
    BY DEF DotInv, OneUpdateAtATime
<1>4. ASSUME NEW f \in Editor PROVE Steady(op[f])'
    <2>1. CASE op'[f].phase = None
        BY <2>1 DEF Steady
    <2>2. CASE op[f].phase # None /\ op'[f].phase = op[f].phase /\ op'[f].latest = op[f].latest
        <3>1. op[f].phase < nextId /\ (op[f].phase \in phases \ blurred => op[f].latest = dot[op[f].phase])
            BY <2>2 DEF DotInv, Steady
        <3>2. op[f].phase \in phases' \ blurred => dot'[op[f].phase] = dot[op[f].phase] /\ op[f].phase \in phases
            BY <1>1, <3>1
        <3> QED  BY <1>1, <2>2, <3>1, <3>2 DEF Steady
    <2> QED  BY <2>1, <2>2
<1> QED  BY <1>2, <1>3, <1>4 DEF DotInv

LEMMA BegunOp ==
    ASSUME StructureInv, NEW e \in Editor, NEW o, op' = [op EXCEPT ![e] = o]
    PROVE  op' = [f \in Editor |-> IF f = e THEN o ELSE op[f]]
BY DEF StructureInv, TypeOK

LEMMA DotSaveWrite ==
    ASSUME StructureInv, DotInv, NEW e \in Editor, SaveWrite(e)
    PROVE  DotInv'
<1> DEFINE o == op[e]
           kept == o.nodes \cap Id
           removed == o.existing \ kept
           real == {RealId(n) : n \in o.nodes}
<1>1. /\ nextId \in Nat /\ phases \subseteq Id /\ MaxNew \in Nat /\ o.nodes \subseteq Node
      /\ dot \in [Id -> Dot] /\ placed \in [Id -> Dot]
    BY BoundsAssumption DEF StructureInv, TypeOK, Operation, BoundsAssumption
<1>2. CASE kept \subseteq phases
    <2>1. /\ real \subseteq Id
          /\ phases' = (phases \ removed) \cup real
          /\ dot' = [p \in Id |-> IF p \in real \ kept THEN 0 ELSE dot[p]]
          /\ placed' = [p \in Id |-> IF p \in real \ kept THEN 0 ELSE placed[p]]
          /\ nextId' = nextId + IF real = kept THEN 0 ELSE MaxNew
          /\ op' = [f \in Editor |-> IF f = e THEN Idle ELSE [op[f] EXCEPT !.outdated = TRUE]]
          /\ blurred' = blurred
        BY <1>2 DEF SaveWrite
    <2>2. \A p \in real \ kept : p >= nextId
        <3> SUFFICES ASSUME NEW n \in o.nodes, RealId(n) \notin kept, RealId(n) \in Id
                     PROVE  RealId(n) >= nextId
            BY <2>1
        <3>1. n \in Int
            BY <1>1, Nodes
        <3>2. CASE n > 0
            <4>1. n \in kept
                BY <3>1, <3>2 DEF RealId
            <4> QED  BY <3>2, <4>1 DEF RealId
        <3>3. CASE ~(n > 0)
            <4>1. n \notin Id
                BY <3>1, <3>3, BoundsAssumption DEF BoundsAssumption
            <4>2. n \in NewNode
                BY <1>1, <4>1 DEF Node
            <4> QED  BY <1>1, <3>1, <3>3, <4>2 DEF RealId, NewNode
        <3> QED  BY <3>2, <3>3
    <2>3. nextId' \in Nat /\ nextId' >= nextId
        BY <1>1, <2>1
    <2>4. \A f \in Editor : \/ op'[f].phase = None
                            \/ op'[f].phase = op[f].phase /\ op'[f].latest = op[f].latest
        BY <2>1 DEF StructureInv, TypeOK, Operation, Idle
    <2>5. ASSUME NEW p \in phases' \ blurred
          PROVE  \/ p \in phases /\ dot'[p] = dot[p] /\ placed'[p] = placed[p]
                 \/ p >= nextId /\ dot'[p] = placed'[p]
        BY <1>1, <1>2, <2>1, <2>2
    <2> QED  BY <2>1, <2>3, <2>4, <2>5, DotsStay
<1>3. CASE ~(kept \subseteq phases)
    <2>1. Finish(e) /\ UNCHANGED <<phases, dot, nextId, placed, blurred>>
        BY <1>3 DEF SaveWrite
    <2>2. \A f \in Editor : op'[f] = op[f] \/ op'[f].phase = None
        BY <2>1, BegunOp DEF Finish, Idle
    <2> QED  BY <1>1, <2>1, <2>2, DotsStay
<1> QED  BY <1>2, <1>3

LEMMA DotOthers ==
    ASSUME StructureInv, DotInv, NEW e \in Editor,
           SaveRead(e) \/ AddBegin(e) \/ AddCommit(e) \/ RemoveDependency(e)
    PROVE  DotInv'
<1>1. UNCHANGED <<phases, dot, nextId, placed, blurred>> /\ nextId \in Nat
    BY DEF SaveRead, AddBegin, AddCommit, RemoveDependency, StructureInv, TypeOK
<1>2. ASSUME NEW o, op' = [op EXCEPT ![e] = o], o.phase = None
      PROVE  \A f \in Editor : op'[f] = op[f] \/ op'[f].phase = None
    BY <1>2, BegunOp
<1>3. \A f \in Editor : \/ op'[f].phase = None
                        \/ op'[f].phase = op[f].phase /\ op'[f].latest = op[f].latest
    <2>1. CASE SaveRead(e)
        <3>1. PICK draft : Begin(e, [Idle EXCEPT !.step = "saving", !.nodes = draft.nodes,
                                                 !.edges = draft.edges, !.existing = phases])
            BY <2>1 DEF SaveRead
        <3> QED  BY <1>2, <3>1 DEF Begin, Idle
    <2>2. CASE AddBegin(e)
        <3>1. PICK p, u : Begin(e, [Idle EXCEPT !.step = "adding", !.edge = <<p, u>>, !.seen = deps])
            BY <2>2 DEF AddBegin
        <3> QED  BY <1>2, <3>1 DEF Begin, Idle
    <2>3. CASE Finish(e) \/ Begin(e, Idle)
        <3>1. op' = [op EXCEPT ![e] = Idle]
            BY <2>3 DEF Finish, Begin
        <3>2. Idle.phase = None
            BY DEF Idle
        <3> QED  BY <1>2, <3>1, <3>2
    <2>4. CASE op' = [f \in Editor |->
                   IF f = e THEN Idle
                   ELSE IF op[f].step = "adding"
                   THEN [op[f] EXCEPT !.seen = @ \cup {op[e].edge}]
                   ELSE op[f]]
        BY <2>4 DEF StructureInv, TypeOK, Operation, Idle
    <2> QED  BY <2>1, <2>2, <2>3, <2>4 DEF AddCommit, RemoveDependency
<1> QED  BY <1>1, <1>3, DotsStay

LEMMA DotPostPhase ==
    ASSUME StructureInv, DotInv, NEW e \in Editor, PostPhase(e)
    PROVE  DotInv'
<1>1. /\ nextId \in Nat /\ nextId \in Id /\ dot \in [Id -> Dot] /\ placed \in [Id -> Dot]
      /\ phases \subseteq Id
    BY DEF PostPhase, StructureInv, TypeOK
<1>2. /\ phases' = phases \cup {nextId} /\ nextId' = nextId + 1 /\ blurred' = blurred
      /\ dot' = [dot EXCEPT ![nextId] = 0] /\ placed' = [placed EXCEPT ![nextId] = 0]
    BY DEF PostPhase
<1>3. \A f \in Editor : op'[f] = op[f] \/ op'[f].phase = None
    BY BegunOp DEF PostPhase, Begin, Idle
<1>4. ASSUME NEW p \in phases' \ blurred
      PROVE  \/ p \in phases /\ dot'[p] = dot[p] /\ placed'[p] = placed[p]
             \/ p >= nextId /\ dot'[p] = placed'[p]
    BY <1>1, <1>2
<1> QED  BY <1>1, <1>2, <1>3, <1>4, DotsStay

LEMMA DotHillRead ==
    ASSUME StructureInv, DotInv, NEW e \in Editor, HillRead(e)
    PROVE  DotInv'
<1>1. PICK p \in phases, at \in Dot \cup {Blank} :
          /\ Begin(e, [Idle EXCEPT !.step = "moving", !.phase = p, !.at = at, !.latest = dot[p]])
          /\ blurred' = IF \E f \in Editor \ {e} : op[f].phase = p THEN blurred \cup {p} ELSE blurred
          /\ UNCHANGED <<phases, deps, dot, nextId, placed, mixed, loose>>
    BY DEF HillRead
<1> DEFINE o == [Idle EXCEPT !.step = "moving", !.phase = p, !.at = at, !.latest = dot[p]]
<1>2. o.phase = p /\ o.latest = dot[p]
    BY DEF Idle
<1> HIDE DEF o
<1>3. op' = [f \in Editor |-> IF f = e THEN o ELSE op[f]]
    BY <1>1, BegunOp DEF Begin, o
<1>4. p < nextId
    BY DEF StructureInv, TypeOK
<1>5. DotStaysWherePlaced'
    BY <1>1 DEF DotInv, DotStaysWherePlaced
<1>6. OneUpdateAtATime'
    BY <1>1, <1>2, <1>3 DEF DotInv, OneUpdateAtATime
<1>7. ASSUME NEW f \in Editor PROVE Steady(op[f])'
    BY <1>1, <1>2, <1>3, <1>4 DEF DotInv, Steady
<1> QED  BY <1>5, <1>6, <1>7 DEF DotInv

LEMMA DotHillWrite ==
    ASSUME StructureInv, DotInv, NEW e \in Editor, HillWrite(e)
    PROVE  DotInv'
<1> DEFINE o == op[e]
<1>1. /\ op' = [f \in Editor |-> IF f = e THEN Idle ELSE op[f]]
      /\ UNCHANGED <<phases, nextId, blurred>>
    BY BegunOp DEF HillWrite, Finish
<1>2. CASE o.phase \notin phases
    <2>1. UNCHANGED <<dot, placed>>
        BY <1>2 DEF HillWrite
    <2>2. \A f \in Editor : op'[f] = op[f] \/ op'[f].phase = None
        BY <1>1 DEF Idle
    <2> QED  BY <1>1, <2>1, <2>2, DotsStay DEF StructureInv, TypeOK
<1>3. CASE o.phase \in phases
    <2> DEFINE p == o.phase
    <2>1. /\ dot' = [x \in Id |-> IF x = p THEN Carried(o) ELSE dot[x]]
          /\ placed' = [x \in Id |-> IF x = p THEN (IF o.at = Blank THEN placed[p] ELSE o.at) ELSE placed[x]]
        BY <1>3 DEF HillWrite, StructureInv, TypeOK
    <2>2. p \in Id /\ phases \subseteq Id /\ p # None
        <3>1. phases \subseteq Id
            BY DEF StructureInv, TypeOK
        <3>2. 0 \notin Id
            BY BoundsAssumption DEF BoundsAssumption
        <3> QED  BY <1>3, <3>1, <3>2
    <2>3. p \notin blurred => dot'[p] = placed'[p]
        BY <1>3, <2>1, <2>2 DEF Carried, DotInv, Steady, DotStaysWherePlaced
    <2>4. DotStaysWherePlaced'
        BY <1>1, <2>1, <2>2, <2>3 DEF DotInv, DotStaysWherePlaced
    <2>5. OneUpdateAtATime'
        BY <1>1 DEF DotInv, OneUpdateAtATime, Idle
    <2>6. ASSUME NEW f \in Editor PROVE Steady(op[f])'
        <3>1. CASE f = e
            BY <1>1, <3>1 DEF Steady, Idle
        <3>2. CASE f # e
            <4>1. op'[f] = op[f] /\ Steady(op[f])
                BY <1>1, <3>2 DEF DotInv
            <4>2. op[f].phase \in phases \ blurred => op[f].phase # p
                BY <2>2, <3>2 DEF DotInv, OneUpdateAtATime
            <4> QED  BY <1>1, <2>1, <2>2, <4>1, <4>2 DEF Steady
        <3> QED  BY <3>1, <3>2
    <2> QED  BY <2>4, <2>5, <2>6 DEF DotInv
<1> QED  BY <1>2, <1>3

LEMMA DotNext == StructureInv /\ DotInv /\ [Next]_vars => DotInv'
<1> SUFFICES ASSUME StructureInv, DotInv, [Next]_vars PROVE DotInv'
    OBVIOUS
<1>1. CASE UNCHANGED vars
    BY <1>1 DEF vars, DotInv, DotStaysWherePlaced, OneUpdateAtATime, Steady
<1> QED  BY <1>1, DotOthers, DotSaveWrite, DotPostPhase, DotHillRead, DotHillWrite DEF Next

(* An update that carries no position leaves the dot where a person last put  *)
(* it, however many people edit the structure meanwhile, unless another update *)
(* of the phase was recorded between its read and its write.                  *)
THEOREM DotsHold == Spec => []DotStaysWherePlaced
<1>1. Init => DotInv
    BY DEF Init, DotInv, DotStaysWherePlaced, OneUpdateAtATime, Steady, Idle
<1>2. DotInv => DotStaysWherePlaced
    BY DEF DotInv
<1> QED  BY <1>1, <1>2, DotNext, StructureHolds, PTL DEF Spec

-----------------------------------------------------------------------------
(* The critical chain.  What the provers do not know of recursion is proved   *)
(* here: that the equations of DaysAhead, of the path and of PathDays have a  *)
(* solution, by way of a least set or number without one.                     *)

LEMMA Lowest ==
    ASSUME NEW S \in SUBSET Nat, S # {}
    PROVE  \E k \in S : \A o \in S : k <= o
<1> DEFINE R == OpToRel(<, Nat)
<1>1. \A o, k \in Nat : o < k => <<o, k>> \in R
    BY DEF OpToRel
<1>2. IsWellFoundedOn(R, Nat)
    BY NatLessThanWellFounded
<1> HIDE DEF R
<1>3. PICK k \in S : \A o \in S : <<o, k>> \notin R
    BY <1>2, WFMin
<1>4. ASSUME NEW o \in S PROVE k <= o
    <2>1. o \in Nat /\ k \in Nat /\ ~(o < k)
        BY <1>1, <1>3
    <2> QED  BY <2>1
<1> QED  BY <1>4

(* A collection of subsets of a finite set has one with no other inside.      *)
LEMMA LeastSubset ==
    ASSUME NEW S, IsFiniteSet(S), NEW Sets \in SUBSET (SUBSET S), Sets # {}
    PROVE  \E T \in Sets : \A x \in T : T \ {x} \notin Sets
<1> DEFINE R == StrictSubsetOrdering(S)
<1>1. IsWellFoundedOn(R, FiniteSubsetsOf(S))
    BY FS_StrictSubsetOrderingWellFounded
<1>2. Sets \subseteq FiniteSubsetsOf(S)
    BY FS_Subset DEF FiniteSubsetsOf
<1>3. \A T \in SUBSET S : \A x \in T : <<T \ {x}, T>> \in R
    BY DEF StrictSubsetOrdering
<1> HIDE DEF R
<1>4. PICK T \in Sets : \A U \in Sets : <<U, T>> \notin R
    BY <1>1, <1>2, WFMin
<1> QED  BY <1>3, <1>4

LEMMA Greatest ==
    ASSUME NEW S \in SUBSET Nat, IsFiniteSet(S), S # {}
    PROVE  \E k \in S : \A o \in S : o <= k
<1> DEFINE Sets == {T \in SUBSET S : T # {} /\ ~\E k \in T : \A o \in T : o <= k}
<1>1. SUFFICES ASSUME Sets # {} PROVE FALSE
    OBVIOUS
<1>2. PICK T \in Sets : \A x \in T : T \ {x} \notin Sets
    <2> HIDE DEF Sets
    <2>1. Sets \in SUBSET (SUBSET S)
        BY DEF Sets
    <2> QED  BY <1>1, <2>1, LeastSubset
<1>3. PICK x \in T : TRUE
    BY <1>2
<1>4. CASE T \ {x} = {}
    BY <1>2, <1>3, <1>4
<1>5. CASE T \ {x} # {}
    <2>1. PICK k \in T \ {x} : \A o \in T \ {x} : o <= k
        BY <1>2, <1>3, <1>5
    <2>2. x \in Nat /\ k \in Nat /\ k \in T
        BY <1>2, <1>3, <2>1
    <2>3. x <= k \/ k <= x
        BY <2>2
    <2>4. CASE x <= k
        BY <1>2, <2>1, <2>2, <2>4
    <2>5. CASE k <= x
        <3>1. \A o \in T : o \in Nat /\ o <= x
            BY <1>2, <1>3, <2>1, <2>2, <2>5
        <3> QED  BY <1>2, <1>3, <3>1
    <2> QED  BY <2>3, <2>4, <2>5
<1> QED  BY <1>4, <1>5

(* Acyclic says that every set has a phase that waits for none of it; so does *)
(* every finite one have a phase that none of it waits for.                   *)
LEMMA NoneWaits ==
    ASSUME NEW E, Acyclic(E), NEW S, IsFiniteSet(S), S # {}
    PROVE  \E n \in S : \A m \in S : <<m, n>> \notin E
<1> DEFINE Sets == {T \in SUBSET S : T # {} /\ \A n \in T : \E m \in T : <<m, n>> \in E}
<1>1. SUFFICES ASSUME Sets # {} PROVE FALSE
    OBVIOUS
<1>2. PICK T \in Sets : \A x \in T : T \ {x} \notin Sets
    <2> HIDE DEF Sets
    <2>1. Sets \in SUBSET (SUBSET S)
        BY DEF Sets
    <2> QED  BY <1>1, <2>1, LeastSubset
<1>3. T \in SUBSET Ends(E)
    <2> SUFFICES ASSUME NEW n \in T PROVE n \in Ends(E)
        OBVIOUS
    <2>1. PICK m \in T : <<m, n>> \in E
        BY <1>2
    <2>2. <<m, n>>[2] = n
        OBVIOUS
    <2> QED  BY <2>1, <2>2 DEF Ends
<1>4. PICK n \in T : \A m \in T : <<n, m>> \notin E
    BY <1>2, <1>3 DEF Acyclic
<1>5. T \ {n} \in Sets
    BY <1>2, <1>4
<1> QED  BY <1>2, <1>4, <1>5

\* Induction up an interval, and downstream along the dependencies, for sets.
LEMMA Climb ==
    ASSUME NEW lo \in Nat, NEW hi \in Nat, NEW S, lo <= hi => lo \in S,
           \A k \in lo .. hi - 1 : k \in S => k + 1 \in S
    PROVE  lo .. hi \subseteq S
<1> SUFFICES ASSUME (lo .. hi) \ S # {} PROVE FALSE
    OBVIOUS
<1>1. PICK k \in (lo .. hi) \ S : \A o \in (lo .. hi) \ S : k <= o
    <2>1. (lo .. hi) \ S \in SUBSET Nat
        OBVIOUS
    <2> QED  BY <2>1, Lowest
<1>2. k # lo
    BY <1>1
<1>3. k - 1 \in lo .. hi - 1 /\ (k - 1) + 1 = k
    BY <1>1, <1>2
<1>4. k - 1 \in S
    BY <1>1, <1>3
<1> QED  BY <1>1, <1>3, <1>4

LEMMA ChildrenOf ==
    ASSUME NEW N, NEW E \in SUBSET (N \X N), NEW n, NEW c
    PROVE  c \in Children(n, E) <=> <<c, n>> \in E
<1>1. \A e \in E : e = <<e[1], e[2]>>
    OBVIOUS
<1>2. <<c, n>>[1] = c /\ <<c, n>>[2] = n
    OBVIOUS
<1> QED  BY <1>1, <1>2 DEF Children

LEMMA Downstream ==
    ASSUME NEW N, IsFiniteSet(N), NEW E \in SUBSET (N \X N), Acyclic(E), NEW S,
           \A n \in N : Children(n, E) \cap N \subseteq S => n \in S
    PROVE  N \subseteq S
<1> SUFFICES ASSUME N \ S # {} PROVE FALSE
    OBVIOUS
<1>1. IsFiniteSet(N \ S)
    BY FS_Subset
<1>2. PICK n \in N \ S : \A m \in N \ S : <<m, n>> \notin E
    BY <1>1, NoneWaits
<1>3. Children(n, E) \cap N \subseteq S
    BY <1>2, ChildrenOf
<1> QED  BY <1>2, <1>3

LEMMA LongestIs ==
    ASSUME NEW days \in SUBSET Nat, IsFiniteSet(days)
    PROVE  /\ Longest(days) \in Nat /\ \A d \in days : d <= Longest(days)
           /\ days = {} => Longest(days) = 0
           /\ days # {} => Longest(days) \in days
<1>1. CASE days = {}
    BY <1>1 DEF Longest
<1>2. CASE days # {}
    <2>1. \E d \in days : \A o \in days : o <= d
        BY <1>2, Greatest
    <2>2. Longest(days) \in days /\ \A o \in days : o <= Longest(days)
        BY <1>2, <2>1 DEF Longest
    <2> QED  BY <1>2, <2>2
<1> QED  BY <1>1, <1>2

\* What is asked of phases, dependencies, estimates and positions.
Chain(N, E, plan, done) ==
    /\ IsFiniteSet(N) /\ 0 \notin N
    /\ E \in SUBSET (N \X N) /\ Acyclic(E)
    /\ \A n \in N : Remaining(n, plan, done) \in Nat

\* A solution on part of the graph from which no dependency leads out downstream.
Solves(f, D, N, E, plan, done) ==
    \A n \in D : /\ Children(n, E) \cap N \subseteq D
                 /\ f[n] = Remaining(n, plan, done) + Longest({f[c] : c \in Children(n, E) \cap N})

LEMMA AheadExists ==
    ASSUME NEW N, NEW E, NEW plan, NEW done, Chain(N, E, plan, done)
    PROVE  \E f : f = [n \in N |-> Remaining(n, plan, done) + Longest({f[c] : c \in Children(n, E) \cap N})]
<1> DEFINE R(n) == Remaining(n, plan, done)
           C(n) == Children(n, E) \cap N
           Open == {T \in SUBSET N : \E f : Solves(f, N \ T, N, E, plan, done)}
<1>1. IsFiniteSet(N) /\ E \in SUBSET (N \X N) /\ Acyclic(E)
    BY DEF Chain
<1>2. Open # {}
    <2>1. Solves(<<>>, N \ N, N, E, plan, done)
        BY DEF Solves
    <2> QED  BY <2>1
<1>3. PICK T \in Open : \A x \in T : T \ {x} \notin Open
    <2> HIDE DEF Open
    <2>1. Open \in SUBSET (SUBSET N)
        BY DEF Open
    <2> QED  BY <1>1, <1>2, <2>1, LeastSubset
<1>4. PICK f : Solves(f, N \ T, N, E, plan, done)
    BY <1>3
<1>5. T \subseteq N /\ IsFiniteSet(T)
    BY <1>1, <1>3, FS_Subset
<1>6. CASE T # {}
    <2>1. PICK n \in T : \A m \in T : <<m, n>> \notin E
        BY <1>1, <1>5, <1>6, NoneWaits
    <2>2. C(n) \subseteq N \ T
        BY <1>1, <2>1, ChildrenOf
    <2> DEFINE g == [m \in N |-> IF m = n THEN R(n) + Longest({f[c] : c \in C(n)}) ELSE f[m]]
    <2>3. \A m \in N \ T : g[m] = f[m]
        BY <2>1
    <2>4. g[n] = R(n) + Longest({f[c] : c \in C(n)})
        BY <1>5, <2>1
    <2> HIDE DEF g
    <2>5. \A m : C(m) \subseteq N \ T => {g[c] : c \in C(m)} = {f[c] : c \in C(m)}
        BY <2>3
    <2>6. ASSUME NEW m \in N \ (T \ {n})
          PROVE  /\ C(m) \subseteq N \ (T \ {n})
                 /\ g[m] = R(m) + Longest({g[c] : c \in C(m)})
        <3>1. CASE m = n
            BY <2>2, <2>4, <2>5, <3>1
        <3>2. CASE m # n
            <4>1. m \in N \ T
                BY <3>2
            <4>2. C(m) \subseteq N \ T /\ f[m] = R(m) + Longest({f[c] : c \in C(m)})
                BY <1>4, <4>1 DEF Solves
            <4> QED  BY <2>3, <2>5, <4>1, <4>2
        <3> QED  BY <3>1, <3>2
    <2>7. Solves(g, N \ (T \ {n}), N, E, plan, done)
        BY <2>6 DEF Solves
    <2> QED  BY <1>3, <1>5, <2>1, <2>7
<1>7. CASE T = {}
    <2> DEFINE h == [n \in N |-> f[n]]
    <2>1. \A n \in N : h[n] = f[n]
        OBVIOUS
    <2> HIDE DEF h
    <2>2. \A n : {h[c] : c \in C(n)} = {f[c] : c \in C(n)}
        BY <2>1
    <2>3. \A n \in N : f[n] = R(n) + Longest({f[c] : c \in C(n)})
        BY <1>4, <1>7 DEF Solves
    <2>4. h = [n \in N |-> R(n) + Longest({h[c] : c \in C(n)})]
        BY <2>2, <2>3 DEF h
    <2> QED  BY <2>4
<1> QED  BY <1>6, <1>7

LEMMA AheadSolves ==
    ASSUME NEW N, NEW E, NEW plan, NEW done, Chain(N, E, plan, done)
    PROVE  \A n \in N :
               DaysAhead(N, E, plan, done)[n]
                   = Remaining(n, plan, done)
                         + Longest({DaysAhead(N, E, plan, done)[c] : c \in Children(n, E) \cap N})
<1>1. PICK f : f = DaysAhead(N, E, plan, done)
    OBVIOUS
<1>2. f = [n \in N |-> Remaining(n, plan, done) + Longest({f[c] : c \in Children(n, E) \cap N})]
    <2>1. \E g : g = [n \in N |-> Remaining(n, plan, done) + Longest({g[c] : c \in Children(n, E) \cap N})]
        BY AheadExists
    <2>2. f = CHOOSE g : g = [n \in N |-> Remaining(n, plan, done)
                                           + Longest({g[c] : c \in Children(n, E) \cap N})]
        BY <1>1, Zenon DEF DaysAhead
    <2> QED  BY <2>1, <2>2, Zenon
<1>3. \A n \in N : f[n] = Remaining(n, plan, done) + Longest({f[c] : c \in Children(n, E) \cap N})
    BY <1>2
<1> QED  BY <1>1, <1>3

LEMMA ImageIsFinite ==
    ASSUME NEW S, IsFiniteSet(S), NEW a
    PROVE  IsFiniteSet({a[c] : c \in S})
<1> DEFINE T == {a[c] : c \in S}
           f == [c \in S |-> a[c]]
<1>1. f \in Surjection(S, T)
    BY DEF Surjection
<1> HIDE DEF T, f
<1>2. IsFiniteSet(T)
    BY <1>1, FS_Surjection
<1> QED  BY <1>2 DEF T

LEMMA NextIs ==
    ASSUME NEW N, NEW E, NEW ahead, NEW n, E \in SUBSET (N \X N), 0 \notin N,
           NextOnChain(n, N, E, ahead) # 0
    PROVE  LET c == NextOnChain(n, N, E, ahead) IN
           /\ c \in N /\ <<c, n>> \in E /\ ahead[c] > 0
           /\ \A o \in Children(n, E) \cap N : ahead[o] <= ahead[c]
<1> DEFINE ways == {c \in Children(n, E) \cap N :
                        /\ ahead[c] > 0
                        /\ \A o \in Children(n, E) \cap N : ahead[o] <= ahead[c]}
<1>1. NextOnChain(n, N, E, ahead) = IF ways = {} THEN 0 ELSE CHOOSE c \in ways : TRUE
    BY DEF NextOnChain
<1>2. NextOnChain(n, N, E, ahead) \in ways
    <2> HIDE DEF ways
    <2> QED  BY <1>1
<1> QED  BY <1>2, ChildrenOf

\* The days ahead are those of the phase and of the best way on.
LEMMA AheadIs ==
    ASSUME NEW N, NEW E, NEW plan, NEW done, Chain(N, E, plan, done)
    PROVE  LET ahead == DaysAhead(N, E, plan, done) IN
           \A n \in N :
               /\ ahead[n] \in Nat
               /\ \A c \in N : <<c, n>> \in E => Remaining(n, plan, done) + ahead[c] <= ahead[n]
               /\ LET next == NextOnChain(n, N, E, ahead) IN
                  ahead[n] = Remaining(n, plan, done) + IF next = 0 THEN 0 ELSE ahead[next]
<1>1. PICK a : a = DaysAhead(N, E, plan, done)
    OBVIOUS
<1> DEFINE R(n) == Remaining(n, plan, done)
           C(n) == Children(n, E) \cap N
           Days(n) == {a[c] : c \in C(n)}
<1>2. IsFiniteSet(N) /\ 0 \notin N /\ E \in SUBSET (N \X N) /\ Acyclic(E) /\ \A n \in N : R(n) \in Nat
    BY DEF Chain
<1>3. \A n \in N : a[n] = R(n) + Longest(Days(n))
    BY <1>1, AheadSolves
<1>4. \A n : IsFiniteSet(Days(n))
    <2> TAKE n
    <2>1. IsFiniteSet(C(n))
        BY <1>2, FS_Subset
    <2> QED  BY <2>1, ImageIsFinite
<1> HIDE DEF R
<1>5. \A n \in N : a[n] \in Nat
    <2> DEFINE S == {n \in N : a[n] \in Nat}
    <2>1. ASSUME NEW n \in N, C(n) \subseteq S PROVE n \in S
        <3>1. Days(n) \in SUBSET Nat
            BY <2>1
        <3>2. Longest(Days(n)) \in Nat
            BY <1>4, <3>1, LongestIs
        <3> QED  BY <1>2, <1>3, <3>2
    <2> HIDE DEF S
    <2>2. N \subseteq S
        BY <1>2, <2>1, Downstream
    <2> QED  BY <2>2 DEF S
<1>6. \A n \in N : Days(n) \in SUBSET Nat
    BY <1>5
<1>7. ASSUME NEW n \in N
      PROVE  /\ \A c \in N : <<c, n>> \in E => R(n) + a[c] <= a[n]
             /\ a[n] = R(n) + IF NextOnChain(n, N, E, a) = 0 THEN 0 ELSE a[NextOnChain(n, N, E, a)]
    <2>1. /\ Longest(Days(n)) \in Nat /\ \A d \in Days(n) : d <= Longest(Days(n))
          /\ Days(n) = {} => Longest(Days(n)) = 0
          /\ Days(n) # {} => Longest(Days(n)) \in Days(n)
        <3>1. IsFiniteSet(Days(n)) /\ Days(n) \in SUBSET Nat
            BY <1>4, <1>6
        <3> HIDE DEF Days
        <3> QED  BY <3>1, LongestIs
    <2>2. \A c \in C(n) : a[c] \in Nat /\ a[c] <= Longest(Days(n))
        BY <1>5, <2>1
    <2>3. \A c \in N : <<c, n>> \in E => c \in C(n)
        BY <1>2, ChildrenOf
    <2>4. a[n] = R(n) + Longest(Days(n)) /\ R(n) \in Nat
        BY <1>2, <1>3
    <2>5. NextOnChain(n, N, E, a) # 0 => a[NextOnChain(n, N, E, a)] = Longest(Days(n))
        <3> SUFFICES ASSUME NextOnChain(n, N, E, a) # 0
                     PROVE  a[NextOnChain(n, N, E, a)] = Longest(Days(n))
            OBVIOUS
        <3>1. PICK c : c = NextOnChain(n, N, E, a)
            OBVIOUS
        <3>2. c \in N /\ <<c, n>> \in E /\ \A o \in C(n) : a[o] <= a[c]
            BY <1>2, <3>1, NextIs
        <3>3. c \in C(n)
            BY <2>3, <3>2
        <3>4. PICK o \in C(n) : a[o] = Longest(Days(n))
            BY <2>1, <3>3
        <3> QED  BY <2>2, <3>1, <3>2, <3>3, <3>4
    <2>6. NextOnChain(n, N, E, a) = 0 => Longest(Days(n)) = 0
        <3> SUFFICES ASSUME NextOnChain(n, N, E, a) = 0, Days(n) # {} PROVE Longest(Days(n)) = 0
            BY <2>1
        <3> DEFINE ways == {c \in C(n) : a[c] > 0 /\ \A o \in C(n) : a[o] <= a[c]}
        <3>1. NextOnChain(n, N, E, a) = IF ways = {} THEN 0 ELSE CHOOSE c \in ways : TRUE
            BY DEF NextOnChain
        <3>2. ways = {}
            <4>1. ways \subseteq N
                OBVIOUS
            <4> HIDE DEF ways
            <4>2. ways # {} => (CHOOSE c \in ways : TRUE) \in ways
                OBVIOUS
            <4> QED  BY <1>2, <3>1, <4>1, <4>2
        <3>3. PICK c \in C(n) : a[c] = Longest(Days(n))
            BY <2>1
        <3>4. \A o \in C(n) : a[o] <= a[c]
            BY <2>2, <3>3
        <3>5. ~(a[c] > 0)
            BY <3>2, <3>4
        <3> QED  BY <2>1, <3>3, <3>5
    <2> HIDE DEF Days
    <2>7. \A c \in N : <<c, n>> \in E => R(n) + a[c] <= a[n]
        BY <2>1, <2>2, <2>3, <2>4
    <2> QED  BY <2>4, <2>5, <2>6, <2>7
<1> QED  BY <1>1, <1>5, <1>7 DEF R

\* A function by recursion along an interval: F has the step from k - 1 to k.
Steps(F, lo, hi, S) == \A k \in lo + 1 .. hi, x \in S : F[k][x] \in S

Follows(f, F, lo, hi, S, a) ==
    /\ f \in [lo .. hi -> S]
    /\ \A k \in lo .. hi : f[k] = IF k = lo THEN a ELSE F[k][f[k - 1]]

LEMMA Recursion ==
    ASSUME NEW lo \in Nat, NEW hi \in Nat, NEW S, NEW a \in S, NEW F, Steps(F, lo, hi, S)
    PROVE  \E f : Follows(f, F, lo, hi, S, a)
<1> DEFINE Done(f, m) == \A k \in lo .. m : f[k] \in S /\ f[k] = IF k = lo THEN a ELSE F[k][f[k - 1]]
           Reached == {m \in Nat : m <= hi /\ \E f : Done(f, m)}
<1>1. CASE lo <= hi
    <2>1. lo \in Reached
        <3>1. PICK f : f = [k \in {lo} |-> a]
            OBVIOUS
        <3>2. Done(f, lo)
            BY <3>1
        <3> QED  BY <1>1, <3>2
    <2>2. ASSUME NEW m \in lo .. hi - 1, m \in Reached PROVE m + 1 \in Reached
        <3>1. PICK f : Done(f, m)
            BY <2>2
        <3>2. m \in Nat /\ m + 1 \in Nat /\ m + 1 <= hi /\ lo <= m
            BY <2>2
        <3> DEFINE x == F[m + 1][f[m]]
                   g == [k \in Nat |-> IF k = m + 1 THEN x ELSE f[k]]
        <3>3. x \in S
            <4>1. m + 1 \in lo + 1 .. hi /\ m \in lo .. m
                BY <3>2
            <4>2. f[m] \in S
                BY <3>1, <4>1
            <4> QED  BY <4>1, <4>2 DEF Steps
        <3> HIDE DEF x
        <3>4. g[m + 1] = x /\ \A k \in lo .. m : g[k] = f[k]
            BY <3>2
        <3> HIDE DEF g
        <3>5. ASSUME NEW k \in lo .. m + 1
              PROVE  g[k] \in S /\ g[k] = IF k = lo THEN a ELSE F[k][g[k - 1]]
            <4>1. CASE k = m + 1
                <5>1. k # lo /\ k - 1 = m /\ m \in lo .. m
                    BY <3>2, <4>1
                <5> QED  BY <3>3, <3>4, <4>1, <5>1 DEF x
            <4>2. CASE k # m + 1
                <5>1. k \in lo .. m /\ (k # lo => k - 1 \in lo .. m)
                    BY <3>2, <4>2
                <5> QED  BY <3>1, <3>4, <5>1
            <4> QED  BY <4>1, <4>2
        <3>6. Done(g, m + 1)
            BY <3>5
        <3> QED  BY <3>2, <3>6
    <2> HIDE DEF Reached
    <2>3. hi \in Reached
        <3>1. lo .. hi \subseteq Reached
            BY <1>1, <2>1, <2>2, Climb
        <3> QED  BY <1>1, <3>1
    <2>4. PICK f : Done(f, hi)
        BY <2>3 DEF Reached
    <2>5. PICK g : g = [k \in lo .. hi |-> f[k]]
        OBVIOUS
    <2>6. g \in [lo .. hi -> S] /\ \A k \in lo .. hi : g[k] = f[k]
        BY <2>4, <2>5
    <2>7. \A k \in lo .. hi : k # lo => k - 1 \in lo .. hi
        OBVIOUS
    <2> QED  BY <2>4, <2>6, <2>7 DEF Follows
<1>2. CASE ~(lo <= hi)
    <2>1. lo .. hi = {}
        BY <1>2
    <2>2. [k \in lo .. hi |-> a] \in [lo .. hi -> S]
        OBVIOUS
    <2> QED  BY <2>1, <2>2 DEF Follows
<1> QED  BY <1>1, <1>2

\* Running totals of what the phases of s have left.
Totals(total, s, plan, done) ==
    /\ total[0] = 0
    /\ \A k \in 0 .. Len(s) : total[k] \in Nat
    /\ \A k \in 1 .. Len(s) : total[k] = total[k - 1] + Remaining(s[k], plan, done)

LEMMA DaysSolve ==
    ASSUME NEW N, NEW E, NEW plan, NEW done, Chain(N, E, plan, done), NEW s \in Seq(N)
    PROVE  Totals(DaysSoFar(s, plan, done), s, plan, done)
<1> DEFINE R(k) == Remaining(s[k], plan, done)
<1>1. Len(s) \in Nat /\ \A k \in 1 .. Len(s) : R(k) \in Nat
    BY LenProperties, ElementOfSeq DEF Chain
<1>2. \E f : f = [k \in 0 .. Len(s) |-> IF k = 0 THEN 0 ELSE f[k - 1] + R(k)]
    <2> DEFINE F == [k \in 1 .. Len(s) |-> [x \in Nat |-> x + R(k)]]
    <2> HIDE DEF R
    <2>1. \A k \in 0 + 1 .. Len(s), x \in Nat : F[k][x] \in Nat /\ F[k][x] = x + R(k)
        BY <1>1
    <2> HIDE DEF F
    <2>2. PICK f : Follows(f, F, 0, Len(s), Nat, 0)
        <3>1. Steps(F, 0, Len(s), Nat)
            BY <2>1 DEF Steps
        <3> QED  BY <1>1, <3>1, Recursion
    <2>3. ASSUME NEW k \in 0 .. Len(s), k # 0 PROVE F[k][f[k - 1]] = f[k - 1] + R(k)
        <3>1. k \in 0 + 1 .. Len(s) /\ k - 1 \in 0 .. Len(s)
            BY <1>1, <2>3
        <3> QED  BY <2>1, <2>2, <3>1 DEF Follows
    <2>4. f = [k \in 0 .. Len(s) |-> IF k = 0 THEN 0 ELSE f[k - 1] + R(k)]
        BY <2>2, <2>3 DEF Follows
    <2> QED  BY <2>4
<1>3. PICK total : total = DaysSoFar(s, plan, done)
    OBVIOUS
<1>4. total = CHOOSE f : f = [k \in 0 .. Len(s) |-> IF k = 0 THEN 0 ELSE f[k - 1] + R(k)]
    BY <1>3, Zenon DEF DaysSoFar
<1>5. total = [k \in 0 .. Len(s) |-> IF k = 0 THEN 0 ELSE total[k - 1] + R(k)]
    BY <1>2, <1>4, Zenon
<1> HIDE DEF R
<1>6. \A k \in 0 .. Len(s) : total[k] = IF k = 0 THEN 0 ELSE total[k - 1] + R(k)
    BY <1>5
<1> DEFINE Fine == {k \in Nat : total[k] \in Nat}
<1>7. 0 .. Len(s) \subseteq Fine
    <2>1. 0 \in Fine
        BY <1>1, <1>6
    <2>2. ASSUME NEW k \in 0 .. Len(s) - 1, k \in Fine PROVE k + 1 \in Fine
        <3>1. k + 1 \in 0 .. Len(s) /\ k + 1 # 0 /\ (k + 1) - 1 = k /\ k + 1 \in 1 .. Len(s) /\ k + 1 \in Nat
            BY <1>1
        <3>2. total[k + 1] = total[k] + R(k + 1)
            BY <1>6, <3>1
        <3> QED  BY <1>1, <2>2, <3>1, <3>2
    <2> HIDE DEF Fine
    <2> QED  BY <1>1, <2>1, <2>2, Climb
<1>8. total[0] = 0 /\ \A k \in 1 .. Len(s) : total[k] = total[k - 1] + R(k)
    BY <1>1, <1>6
<1> QED  BY <1>3, <1>7, <1>8 DEF R, Totals

\* What a path has left is at most what its first phase has ahead ...
LEMMA DaysBound ==
    ASSUME NEW N, NEW E, NEW plan, NEW done, Chain(N, E, plan, done),
           NEW s \in Seq(N), Len(s) # 0, \A k \in 1 .. Len(s) - 1 : <<s[k + 1], s[k]>> \in E
    PROVE  PathDays(s, plan, done) \in Nat /\ PathDays(s, plan, done) <= DaysAhead(N, E, plan, done)[s[1]]
<1> DEFINE R(k) == Remaining(s[k], plan, done)
<1>1. PICK a, total : a = DaysAhead(N, E, plan, done) /\ total = DaysSoFar(s, plan, done)
    OBVIOUS
<1>2. Len(s) \in Nat /\ \A k \in 1 .. Len(s) : s[k] \in N /\ R(k) \in Nat
    BY LenProperties, ElementOfSeq DEF Chain
<1>3. /\ total[0] = 0
      /\ \A k \in 0 .. Len(s) : total[k] \in Nat
      /\ \A k \in 1 .. Len(s) : total[k] = total[k - 1] + R(k)
    <2>1. Totals(total, s, plan, done)
        BY <1>1, DaysSolve
    <2> QED  BY <2>1 DEF Totals
<1>4. \A n \in N : /\ a[n] \in Nat
                   /\ \A c \in N : <<c, n>> \in E => Remaining(n, plan, done) + a[c] <= a[n]
    BY <1>1, AheadIs
<1>5. \A k \in 1 .. Len(s) : a[s[k]] \in Nat
    BY <1>2, <1>4
<1>6. \A k \in 1 .. Len(s) - 1 : R(k) + a[s[k + 1]] <= a[s[k]]
    <2> SUFFICES ASSUME NEW k \in 1 .. Len(s) - 1 PROVE R(k) + a[s[k + 1]] <= a[s[k]]
        OBVIOUS
    <2>1. k \in 1 .. Len(s) /\ k + 1 \in 1 .. Len(s)
        BY <1>2
    <2>2. s[k] \in N /\ s[k + 1] \in N /\ <<s[k + 1], s[k]>> \in E
        BY <1>2, <2>1
    <2> QED  BY <1>4, <2>2
<1>7. \A k \in 1 .. Len(s) : R(k) <= a[s[k]]
    <2> SUFFICES ASSUME NEW k \in 1 .. Len(s) PROVE R(k) <= a[s[k]]
        OBVIOUS
    <2>1. PICK n \in N : n = s[k]
        BY <1>2
    <2>2. a[n] = Remaining(n, plan, done) + IF NextOnChain(n, N, E, a) = 0 THEN 0 ELSE a[NextOnChain(n, N, E, a)]
        BY <1>1, AheadIs
    <2>3. Remaining(n, plan, done) \in Nat
        BY DEF Chain
    <2>4. NextOnChain(n, N, E, a) # 0 => a[NextOnChain(n, N, E, a)] \in Nat
        BY <1>4, NextIs DEF Chain
    <2> QED  BY <2>1, <2>2, <2>3, <2>4
<1> HIDE DEF R
<1> DEFINE Below == {k \in Nat : total[k - 1] + a[s[k]] <= a[s[1]]}
<1>8. 1 .. Len(s) \subseteq Below
    <2>1. 1 \in Below
        BY <1>2, <1>3, <1>5
    <2>2. ASSUME NEW k \in 1 .. Len(s) - 1, k \in Below PROVE k + 1 \in Below
        <3>1. k + 1 \in 1 .. Len(s) /\ k \in 1 .. Len(s) /\ k - 1 \in 0 .. Len(s) /\ k + 1 \in Nat /\ (k + 1) - 1 = k
            BY <1>2
        <3>2. /\ total[k] = total[k - 1] + R(k) /\ R(k) + a[s[k + 1]] <= a[s[k]]
              /\ total[k - 1] \in Nat /\ R(k) \in Nat /\ a[s[k + 1]] \in Nat /\ a[s[k]] \in Nat /\ a[s[1]] \in Nat
            BY <1>2, <1>3, <1>5, <1>6, <3>1
        <3>3. total[k - 1] + a[s[k]] <= a[s[1]]
            BY <2>2
        <3>4. PICK t \in Nat, r \in Nat, x \in Nat, y \in Nat, z \in Nat :
                  /\ t = total[k - 1] /\ r = R(k) /\ x = a[s[k + 1]]
                  /\ y = a[s[k]] /\ z = a[s[1]]
            BY <3>2, Zenon
        <3>5. total[k] + a[s[k + 1]] <= a[s[1]]
            <4>1. total[k] = t + r /\ r + x <= y /\ t + y <= z
                BY <3>2, <3>3, <3>4, Zenon
            <4>2. (t + r) + x <= z
                BY <4>1
            <4> QED  BY <3>4, <4>1, <4>2, Zenon
        <3> QED  BY <3>1, <3>5
    <2> HIDE DEF Below
    <2> QED  BY <1>2, <2>1, <2>2, Climb
<1>9. total[Len(s)] \in Nat /\ total[Len(s)] <= a[s[1]]
    <2>1. Len(s) \in 1 .. Len(s) /\ Len(s) - 1 \in 0 .. Len(s) /\ Len(s) \in 0 .. Len(s) /\ 1 \in 1 .. Len(s)
        BY <1>2
    <2>2. /\ total[Len(s)] = total[Len(s) - 1] + R(Len(s)) /\ R(Len(s)) <= a[s[Len(s)]]
          /\ total[Len(s) - 1] \in Nat /\ R(Len(s)) \in Nat /\ a[s[Len(s)]] \in Nat /\ a[s[1]] \in Nat
        BY <1>2, <1>3, <1>5, <1>7, <2>1
    <2>3. total[Len(s) - 1] + a[s[Len(s)]] <= a[s[1]]
        BY <1>8, <2>1
    <2> QED  BY <2>2, <2>3
<1> QED  BY <1>1, <1>9 DEF PathDays

\* ... and just that on the way along next to its end.
Followed(s, N, E, ahead) ==
    \A k \in 1 .. Len(s) - 1 : s[k + 1] = NextOnChain(s[k], N, E, ahead)

LEMMA DaysExact ==
    ASSUME NEW N, NEW E, NEW plan, NEW done, Chain(N, E, plan, done),
           NEW s \in Seq(N), Len(s) # 0, Followed(s, N, E, DaysAhead(N, E, plan, done)),
           NextOnChain(s[Len(s)], N, E, DaysAhead(N, E, plan, done)) = 0
    PROVE  PathDays(s, plan, done) = DaysAhead(N, E, plan, done)[s[1]]
<1> DEFINE R(k) == Remaining(s[k], plan, done)
<1>1. PICK a, total : a = DaysAhead(N, E, plan, done) /\ total = DaysSoFar(s, plan, done)
    OBVIOUS
<1>2. Len(s) \in Nat /\ \A k \in 1 .. Len(s) : s[k] \in N /\ R(k) \in Nat
    BY LenProperties, ElementOfSeq DEF Chain
<1>3. /\ total[0] = 0
      /\ \A k \in 0 .. Len(s) : total[k] \in Nat
      /\ \A k \in 1 .. Len(s) : total[k] = total[k - 1] + R(k)
    <2>1. Totals(total, s, plan, done)
        BY <1>1, DaysSolve
    <2> QED  BY <2>1 DEF Totals
<1>4. \A n \in N : /\ a[n] \in Nat
                   /\ a[n] = Remaining(n, plan, done)
                                + IF NextOnChain(n, N, E, a) = 0 THEN 0 ELSE a[NextOnChain(n, N, E, a)]
    BY <1>1, AheadIs
<1>5. \A k \in 1 .. Len(s) : a[s[k]] \in Nat
    BY <1>2, <1>4
<1>6. \A k \in 1 .. Len(s) - 1 : R(k) + a[s[k + 1]] = a[s[k]]
    <2> SUFFICES ASSUME NEW k \in 1 .. Len(s) - 1 PROVE R(k) + a[s[k + 1]] = a[s[k]]
        OBVIOUS
    <2>1. PICK n \in N : n = s[k]
        BY <1>2
    <2>2. k + 1 \in 1 .. Len(s) /\ s[k + 1] = NextOnChain(n, N, E, a)
        BY <1>1, <1>2, <2>1 DEF Followed
    <2>3. NextOnChain(n, N, E, a) # 0
        BY <1>2, <2>2 DEF Chain
    <2> QED  BY <1>4, <2>1, <2>2, <2>3
<1>7. a[s[Len(s)]] = R(Len(s))
    <2>1. Len(s) \in 1 .. Len(s)
        BY <1>2
    <2>2. PICK n \in N : n = s[Len(s)]
        BY <1>2, <2>1
    <2>3. a[n] = Remaining(n, plan, done) + 0 /\ Remaining(n, plan, done) \in Nat
        BY <1>1, <1>4, <2>2 DEF Chain
    <2> QED  BY <2>2, <2>3
<1> HIDE DEF R
<1> DEFINE Level == {k \in Nat : total[k - 1] + a[s[k]] = a[s[1]]}
<1>8. 1 .. Len(s) \subseteq Level
    <2>1. 1 \in Level
        BY <1>2, <1>3, <1>5
    <2>2. ASSUME NEW k \in 1 .. Len(s) - 1, k \in Level PROVE k + 1 \in Level
        <3>1. k + 1 \in 1 .. Len(s) /\ k \in 1 .. Len(s) /\ k - 1 \in 0 .. Len(s) /\ k + 1 \in Nat /\ (k + 1) - 1 = k
            BY <1>2
        <3>2. /\ total[k] = total[k - 1] + R(k) /\ R(k) + a[s[k + 1]] = a[s[k]]
              /\ total[k - 1] \in Nat /\ R(k) \in Nat /\ a[s[k + 1]] \in Nat /\ a[s[k]] \in Nat /\ a[s[1]] \in Nat
            BY <1>2, <1>3, <1>5, <1>6, <3>1
        <3>3. total[k - 1] + a[s[k]] = a[s[1]]
            BY <2>2
        <3>4. total[k] + a[s[k + 1]] = a[s[1]]
            BY <3>2, <3>3
        <3> QED  BY <3>1, <3>4
    <2> HIDE DEF Level
    <2> QED  BY <1>2, <2>1, <2>2, Climb
<1>9. total[Len(s)] = a[s[1]]
    <2>1. Len(s) \in 1 .. Len(s)
        BY <1>2
    <2>2. total[Len(s)] = total[Len(s) - 1] + R(Len(s))
        BY <1>2, <1>3, <2>1
    <2>3. total[Len(s) - 1] + a[s[Len(s)]] = a[s[1]]
        BY <1>8, <2>1
    <2> QED  BY <1>7, <2>2, <2>3
<1> QED  BY <1>1, <1>9 DEF PathDays

\* A walk against the dependencies of an acyclic graph meets no phase twice.
LEMMA NoneTwice ==
    ASSUME NEW N, NEW E \in SUBSET (N \X N), Acyclic(E), NEW s \in Seq(N),
           \A k \in 1 .. Len(s) - 1 : <<s[k + 1], s[k]>> \in E,
           NEW i \in 1 .. Len(s), NEW j \in 1 .. Len(s), i < j
    PROVE  s[i] # s[j]
<1> SUFFICES ASSUME s[i] = s[j] PROVE FALSE
    OBVIOUS
<1>1. Len(s) \in Nat
    BY LenProperties
<1> DEFINE S == {s[k] : k \in i + 1 .. j}
<1>2. ASSUME NEW k \in i + 1 .. j PROVE <<s[k], s[k - 1]>> \in E /\ s[k - 1] \in S
    <2>1. k - 1 \in 1 .. Len(s) - 1 /\ (k - 1) + 1 = k
        BY <1>1
    <2>2. <<s[k], s[k - 1]>> \in E
        BY <2>1
    <2>3. CASE k = i + 1
        <3>1. k - 1 = i /\ j \in i + 1 .. j
            BY <1>1, <2>3
        <3> QED  BY <2>2, <3>1
    <2>4. CASE k # i + 1
        <3>1. k - 1 \in i + 1 .. j
            BY <1>1, <2>4
        <3> QED  BY <2>2, <3>1
    <2> QED  BY <2>3, <2>4
<1>3. S # {}
    <2>1. j \in i + 1 .. j
        BY <1>1
    <2> QED  BY <2>1
<1>4. S \in SUBSET Ends(E)
    <2> SUFFICES ASSUME NEW k \in i + 1 .. j PROVE s[k] \in Ends(E)
        OBVIOUS
    <2>1. <<s[k], s[k - 1]>> \in E /\ <<s[k], s[k - 1]>>[1] = s[k]
        BY <1>2
    <2> QED  BY <2>1 DEF Ends
<1>5. \A n \in S : \E m \in S : <<n, m>> \in E
    BY <1>2
<1> HIDE DEF S
<1> QED  BY <1>3, <1>4, <1>5 DEF Acyclic

\* So it has no more phases than there are.
LEMMA NoLonger ==
    ASSUME NEW N, IsFiniteSet(N), NEW E \in SUBSET (N \X N), Acyclic(E), NEW s \in Seq(N),
           \A k \in 1 .. Len(s) - 1 : <<s[k + 1], s[k]>> \in E
    PROVE  Len(s) <= Cardinality(N)
<1>1. Len(s) \in Nat /\ Cardinality(N) \in Nat /\ s \in [1 .. Len(s) -> N]
    BY LenProperties, FS_CardinalityType
<1> SUFFICES ASSUME Cardinality(N) < Len(s) PROVE FALSE
    BY <1>1
<1>2. IsFiniteSet(1 .. Len(s)) /\ Cardinality(1 .. Len(s)) = Len(s)
    <2>1. 1 \in Int /\ Len(s) \in Int /\ ~(1 > Len(s)) /\ Len(s) - 1 + 1 = Len(s)
        BY <1>1
    <2> QED  BY <2>1, FS_Interval
<1>3. PICK i \in 1 .. Len(s) : \E j \in 1 .. Len(s) : i # j /\ s[i] = s[j]
    BY <1>1, <1>2, FS_PigeonHole
<1>4. PICK j \in 1 .. Len(s) : i # j /\ s[i] = s[j]
    BY <1>3
<1>5. i < j \/ j < i
    BY <1>1, <1>4
<1> QED  BY <1>4, <1>5, NoneTwice

\* What the path is after k phases: so far all of them, unless it has ended.
SoFar(w, k, start, N, E, ahead) ==
    /\ w \in Seq(N) /\ Len(w) \in 1 .. k /\ w[1] = start
    /\ Followed(w, N, E, ahead)
    /\ Len(w) = k \/ NextOnChain(w[Len(w)], N, E, ahead) = 0

LEMMA FollowedIsPath ==
    ASSUME NEW N, NEW E \in SUBSET (N \X N), 0 \notin N, NEW a, NEW w \in Seq(N), Followed(w, N, E, a)
    PROVE  \A k \in 1 .. Len(w) - 1 : <<w[k + 1], w[k]>> \in E
<1> SUFFICES ASSUME NEW k \in 1 .. Len(w) - 1 PROVE <<w[k + 1], w[k]>> \in E
    OBVIOUS
<1>1. k + 1 \in 1 .. Len(w)
    BY LenProperties
<1>2. w[k + 1] \in N /\ w[k + 1] = NextOnChain(w[k], N, E, a)
    BY <1>1, ElementOfSeq DEF Followed
<1> QED  BY <1>2, NextIs

LEMMA PathOn ==
    ASSUME NEW N, NEW E \in SUBSET (N \X N), 0 \notin N, NEW a, NEW start, NEW k \in Nat,
           NEW w, SoFar(w, k, start, N, E, a), NEW next, next = NextOnChain(w[Len(w)], N, E, a)
    PROVE  SoFar(IF next = 0 THEN w ELSE Append(w, next), k + 1, start, N, E, a)
<1>1. w \in Seq(N) /\ Len(w) \in 1 .. k /\ w[1] = start /\ Followed(w, N, E, a) /\ Len(w) \in Nat
    BY LenProperties DEF SoFar
<1>2. CASE next = 0
    <2>1. Len(w) \in 1 .. k + 1
        BY <1>1
    <2>2. NextOnChain(w[Len(w)], N, E, a) = 0
        BY <1>2
    <2>3. SoFar(w, k + 1, start, N, E, a)
        BY <1>1, <2>1, <2>2 DEF SoFar
    <2> QED  BY <1>2, <2>3
<1>3. CASE next # 0
    <2>1. Len(w) = k
        BY <1>3 DEF SoFar
    <2>2. next \in N
        BY <1>3, NextIs
    <2>3. PICK v : v = Append(w, next)
        OBVIOUS
    <2>4. /\ v \in Seq(N) /\ Len(v) = k + 1 /\ v[k + 1] = next
          /\ \A i \in 1 .. k : v[i] = w[i]
        BY <1>1, <2>1, <2>2, <2>3, AppendProperties
    <2>5. ASSUME NEW i \in 1 .. Len(v) - 1 PROVE v[i + 1] = NextOnChain(v[i], N, E, a)
        <3>1. CASE i = k
            <4>1. k \in 1 .. k
                BY <1>1, <2>1
            <4> QED  BY <2>1, <2>4, <3>1, <4>1
        <3>2. CASE i # k
            <4>1. i \in 1 .. Len(w) - 1 /\ i \in 1 .. k /\ i + 1 \in 1 .. k
                BY <2>1, <2>4, <3>2
            <4> QED  BY <1>1, <2>4, <4>1 DEF Followed
        <3> QED  BY <3>1, <3>2
    <2>6. v[1] = start /\ Len(v) \in 1 .. k + 1
        BY <1>1, <2>1, <2>4
    <2>7. SoFar(v, k + 1, start, N, E, a)
        BY <2>4, <2>5, <2>6 DEF SoFar, Followed
    <2> QED  BY <1>3, <2>3, <2>7
<1> QED  BY <1>2, <1>3

LEMMA PathSolves ==
    ASSUME NEW N, IsFiniteSet(N), NEW E \in SUBSET (N \X N), 0 \notin N, NEW a, NEW start \in N
    PROVE  \A k \in 1 .. Cardinality(N) : SoFar(PathFrom(start, N, E, a)[k], k, start, N, E, a)
<1> DEFINE On(w) == IF NextOnChain(w[Len(w)], N, E, a) = 0 THEN w
                    ELSE Append(w, NextOnChain(w[Len(w)], N, E, a))
           M == Cardinality(N)
<1>1. M \in Nat
    BY FS_CardinalityType
<1>2. \E f : f = [k \in 1 .. M |-> IF k = 1 THEN <<start>> ELSE On(f[k - 1])]
    <2> DEFINE S == Seq(N)
               F == [k \in 1 .. M |-> [x \in S |-> On(x)]]
    <2>1. ASSUME NEW w \in S PROVE On(w) \in S
        <3>1. NextOnChain(w[Len(w)], N, E, a) # 0 => NextOnChain(w[Len(w)], N, E, a) \in N
            BY NextIs
        <3> QED  BY <3>1, AppendProperties
    <2>2. <<start>> \in S
        OBVIOUS
    <2> HIDE DEF On, S, M
    <2>3. \A k \in 1 + 1 .. M, x \in S : F[k][x] \in S /\ F[k][x] = On(x)
        BY <1>1, <2>1
    <2> HIDE DEF F
    <2>4. PICK f : Follows(f, F, 1, M, S, <<start>>)
        <3>1. Steps(F, 1, M, S)
            BY <2>3 DEF Steps
        <3> QED  BY <1>1, <2>2, <3>1, Recursion
    <2>5. ASSUME NEW k \in 1 .. M, k # 1 PROVE F[k][f[k - 1]] = On(f[k - 1])
        <3>1. k \in 1 + 1 .. M /\ k - 1 \in 1 .. M
            BY <1>1, <2>5
        <3> QED  BY <2>3, <2>4, <3>1 DEF Follows
    <2>6. f = [k \in 1 .. M |-> IF k = 1 THEN <<start>> ELSE On(f[k - 1])]
        BY <2>4, <2>5 DEF Follows
    <2> QED  BY <2>6
<1>3. PICK path : path = PathFrom(start, N, E, a)
    OBVIOUS
<1>4. path = CHOOSE f : f = [k \in 1 .. M |-> IF k = 1 THEN <<start>> ELSE On(f[k - 1])]
    BY <1>3, Zenon DEF PathFrom
<1>5. path = [k \in 1 .. M |-> IF k = 1 THEN <<start>> ELSE On(path[k - 1])]
    BY <1>2, <1>4, Zenon
<1> HIDE DEF On, M
<1>6. \A k \in 1 .. M : path[k] = IF k = 1 THEN <<start>> ELSE On(path[k - 1])
    BY <1>5
<1> DEFINE Fine == {k \in Nat : SoFar(path[k], k, start, N, E, a)}
<1>7. 1 .. M \subseteq Fine
    <2>1. 1 <= M => 1 \in Fine
        <3> SUFFICES ASSUME 1 <= M PROVE SoFar(path[1], 1, start, N, E, a)
            OBVIOUS
        <3>1. PICK w : w = <<start>>
            OBVIOUS
        <3>2. path[1] = w
            BY <1>1, <1>6, <3>1
        <3>3. w \in Seq(N) /\ Len(w) = 1 /\ w[1] = start
            BY <3>1
        <3> QED  BY <3>2, <3>3 DEF SoFar, Followed
    <2>2. ASSUME NEW k \in 1 .. M - 1, k \in Fine PROVE k + 1 \in Fine
        <3>1. k + 1 \in 1 .. M /\ k + 1 # 1 /\ (k + 1) - 1 = k /\ k + 1 \in Nat /\ k \in Nat
            BY <1>1
        <3>2. PICK w : w = path[k]
            OBVIOUS
        <3>3. path[k + 1] = On(w)
            BY <1>6, <3>1, <3>2
        <3>4. SoFar(w, k, start, N, E, a)
            BY <2>2, <3>2
        <3>5. SoFar(On(w), k + 1, start, N, E, a)
            BY <3>1, <3>4, PathOn DEF On
        <3> QED  BY <3>1, <3>3, <3>5
    <2> HIDE DEF Fine
    <2> QED  BY <1>1, <2>1, <2>2, Climb
<1> QED  BY <1>3, <1>7 DEF M

\* After as many phases as there are, the path has ended.
LEMMA PathEnds ==
    ASSUME NEW N, IsFiniteSet(N), NEW E \in SUBSET (N \X N), 0 \notin N, Acyclic(E),
           NEW a, NEW start \in N
    PROVE  LET w == PathFrom(start, N, E, a)[Cardinality(N)] IN
           /\ w \in Seq(N) /\ Len(w) \in 1 .. Cardinality(N) /\ w[1] = start
           /\ Followed(w, N, E, a) /\ NextOnChain(w[Len(w)], N, E, a) = 0
<1>1. PICK M : M = Cardinality(N)
    OBVIOUS
<1>2. M \in 1 .. M
    <2>1. M \in Nat /\ M # 0
        BY <1>1, FS_CardinalityType, FS_EmptySet
    <2> QED  BY <2>1
<1>3. PICK w : w = PathFrom(start, N, E, a)[M]
    OBVIOUS
<1>4. SoFar(w, M, start, N, E, a)
    BY <1>1, <1>2, <1>3, PathSolves
<1>5. ASSUME NEW next, next = NextOnChain(w[Len(w)], N, E, a), next # 0 PROVE FALSE
    <2>1. M \in Nat /\ M + 1 \in Nat
        BY <1>2
    <2>2. SoFar(Append(w, next), M + 1, start, N, E, a)
        BY <1>4, <1>5, <2>1, PathOn
    <2>3. PICK v : v = Append(w, next)
        OBVIOUS
    <2>4. v \in Seq(N) /\ Followed(v, N, E, a)
        BY <2>2, <2>3 DEF SoFar
    <2>5. Len(v) <= M
        <3>1. \A k \in 1 .. Len(v) - 1 : <<v[k + 1], v[k]>> \in E
            BY <2>4, FollowedIsPath
        <3> QED  BY <1>1, <2>4, <3>1, NoLonger
    <2>6. Len(w) = M /\ w \in Seq(N) /\ next \in N
        BY <1>4, <1>5, NextIs DEF SoFar
    <2>7. Len(v) = M + 1
        BY <2>3, <2>6, AppendProperties
    <2> QED  BY <2>1, <2>5, <2>7
<1> QED  BY <1>1, <1>3, <1>4, <1>5 DEF SoFar

LEMMA PathsAre ==
    ASSUME NEW N, NEW E, NEW s
    PROVE  s \in Paths(N, E) <=>
               /\ s \in Seq(N) /\ Len(s) \in 1 .. Cardinality(N)
               /\ \A k \in 1 .. Len(s) - 1 : <<s[k + 1], s[k]>> \in E
<1>1. ASSUME NEW k \in Nat, s \in [1 .. k -> N] PROVE s \in Seq(N) /\ Len(s) = k
    BY <1>1, LenProperties DEF Seq
<1>2. s \in Seq(N) => s \in [1 .. Len(s) -> N] /\ Len(s) \in Nat
    BY LenProperties
<1>3. (\E k \in 1 .. Cardinality(N) : s \in [1 .. k -> N]) <=> s \in Seq(N) /\ Len(s) \in 1 .. Cardinality(N)
    <2>1. \A k \in 1 .. Cardinality(N) : k \in Nat
        OBVIOUS
    <2> QED  BY <1>1, <1>2, <2>1
<1> QED  BY <1>3 DEF Paths

\* Where no phase has the most days ahead, none has any.
LEMMA NoStart ==
    ASSUME NEW N, NEW E, NEW plan, NEW done, Chain(N, E, plan, done), NEW a, a = DaysAhead(N, E, plan, done),
           {n \in N : a[n] > 0 /\ \A o \in N : a[o] <= a[n]} = {}
    PROVE  \A n \in N : a[n] = 0
<1> SUFFICES ASSUME N # {} PROVE \A n \in N : a[n] = 0
    OBVIOUS
<1>1. \A n \in N : a[n] \in Nat
    BY AheadIs
<1>2. PICK days : days = {a[n] : n \in N}
    OBVIOUS
<1>3. days \in SUBSET Nat /\ days # {} /\ IsFiniteSet(days)
    BY <1>1, <1>2, ImageIsFinite DEF Chain
<1>4. PICK d \in days : \A o \in days : o <= d
    BY <1>3, Greatest
<1>5. PICK n \in N : a[n] = d
    BY <1>2, <1>4
<1>6. \A o \in N : a[o] <= a[n]
    BY <1>2, <1>4, <1>5
<1>7. ~(a[n] > 0)
    BY <1>6
<1> QED  BY <1>1, <1>6, <1>7

LEMMA LeftAhead ==
    ASSUME NEW N, NEW E, NEW plan, NEW done, Chain(N, E, plan, done), NEW n \in N
    PROVE  /\ Remaining(n, plan, done) \in Nat /\ DaysAhead(N, E, plan, done)[n] \in Nat
           /\ Remaining(n, plan, done) <= DaysAhead(N, E, plan, done)[n]
<1>1. PICK a : a = DaysAhead(N, E, plan, done)
    OBVIOUS
<1>2. PICK next : next = NextOnChain(n, N, E, a)
    OBVIOUS
<1>3. a[n] \in Nat /\ a[n] = Remaining(n, plan, done) + IF next = 0 THEN 0 ELSE a[next]
    BY <1>1, <1>2, AheadIs
<1>4. next # 0 => a[next] \in Nat
    BY <1>1, <1>2, AheadIs, NextIs DEF Chain
<1>5. Remaining(n, plan, done) \in Nat
    BY DEF Chain
<1> QED  BY <1>1, <1>3, <1>4, <1>5

\* The path from a phase with the most days ahead.
LEMMA TheChain ==
    ASSUME NEW N, NEW E, NEW plan, NEW done, Chain(N, E, plan, done)
    PROVE  LET path == CriticalPath(N, E, plan, done) IN
           /\ path = <<>> => \A n \in N : DaysAhead(N, E, plan, done)[n] = 0
           /\ path # <<>> => /\ path \in Paths(N, E) /\ PathDays(path, plan, done) > 0
                             /\ \A n \in N : DaysAhead(N, E, plan, done)[n] <= PathDays(path, plan, done)
<1>1. PICK a : a = DaysAhead(N, E, plan, done)
    OBVIOUS
<1>2. PICK starts : starts = {n \in N : a[n] > 0 /\ \A o \in N : a[o] <= a[n]}
    OBVIOUS
<1>3. PICK start : start = CHOOSE n \in starts : TRUE
    OBVIOUS
<1>4. PICK path : path = CriticalPath(N, E, plan, done)
    OBVIOUS
<1>5. path = IF starts = {} THEN <<>> ELSE PathFrom(start, N, E, a)[Cardinality(N)]
    BY <1>1, <1>2, <1>3, <1>4 DEF CriticalPath
<1>6. IsFiniteSet(N) /\ E \in SUBSET (N \X N) /\ 0 \notin N /\ Acyclic(E)
    BY DEF Chain
<1>7. CASE starts = {}
    BY <1>1, <1>2, <1>4, <1>5, <1>7, NoStart
<1>8. CASE starts # {}
    <2>1. start \in N /\ a[start] > 0 /\ \A o \in N : a[o] <= a[start]
        <3>1. start \in starts
            BY <1>3, <1>8
        <3> QED  BY <1>2, <3>1
    <2>2. /\ path \in Seq(N) /\ Len(path) \in 1 .. Cardinality(N) /\ path[1] = start
          /\ Followed(path, N, E, a) /\ NextOnChain(path[Len(path)], N, E, a) = 0
        BY <1>5, <1>6, <1>8, <2>1, PathEnds
    <2>3. path \in Paths(N, E)
        BY <1>6, <2>2, FollowedIsPath, PathsAre
    <2>4. PathDays(path, plan, done) = a[start]
        <3>1. Len(path) # 0
            BY <2>2
        <3> QED  BY <1>1, <2>2, <3>1, DaysExact
    <2>5. path # <<>>
        BY <2>2
    <2> QED  BY <1>1, <1>4, <2>1, <2>3, <2>4, <2>5
<1> QED  BY <1>7, <1>8

\* A path with days left has a phase with work left.
LEMMA WorkLeft ==
    ASSUME NEW N, NEW E, NEW plan, NEW done, Chain(N, E, plan, done), NEW s \in Seq(N),
           PathDays(s, plan, done) > 0
    PROVE  \E k \in 1 .. Len(s) : Remaining(s[k], plan, done) > 0
<1> SUFFICES ASSUME \A k \in 1 .. Len(s) : ~(Remaining(s[k], plan, done) > 0) PROVE FALSE
    OBVIOUS
<1>1. PICK total : total = DaysSoFar(s, plan, done)
    OBVIOUS
<1>2. Totals(total, s, plan, done)
    BY <1>1, DaysSolve
<1>3. Len(s) \in Nat /\ \A k \in 1 .. Len(s) : Remaining(s[k], plan, done) = 0
    <2>1. \A k \in 1 .. Len(s) : Remaining(s[k], plan, done) \in Nat
        BY LenProperties, ElementOfSeq DEF Chain
    <2> QED  BY <2>1, LenProperties
<1> DEFINE Zero == {k \in Nat : total[k] = 0}
<1>4. 0 .. Len(s) \subseteq Zero
    <2>1. 0 \in Zero
        BY <1>2 DEF Totals
    <2>2. ASSUME NEW k \in 0 .. Len(s) - 1, k \in Zero PROVE k + 1 \in Zero
        <3>1. k + 1 \in 1 .. Len(s) /\ (k + 1) - 1 = k /\ k + 1 \in Nat
            BY <1>3
        <3>2. total[k + 1] = total[k] + 0
            BY <1>2, <1>3, <3>1 DEF Totals
        <3> QED  BY <2>2, <3>1, <3>2
    <2> HIDE DEF Zero
    <2> QED  BY <1>3, <2>1, <2>2, Climb
<1>5. total[Len(s)] = 0
    <2>1. Len(s) \in 0 .. Len(s)
        BY <1>3
    <2> QED  BY <1>4, <2>1
<1> QED  BY <1>1, <1>5 DEF PathDays

LEMMA ConstraintIs ==
    ASSUME NEW N, 0 \notin N, NEW done, NEW s \in Seq(N)
    PROVE  Constraint(s, done) # 0 <=> \E k \in 1 .. Len(s) : done[s[k]] < 100
<1>1. PICK unfinished : unfinished = {k \in 1 .. Len(s) : done[s[k]] < 100}
    OBVIOUS
<1>2. PICK first : first = CHOOSE k \in unfinished : \A o \in unfinished : k <= o
    OBVIOUS
<1>3. Constraint(s, done) = IF unfinished = {} THEN 0 ELSE s[first]
    BY <1>1, <1>2 DEF Constraint
<1>4. unfinished # {} => s[first] # 0
    <2> SUFFICES ASSUME unfinished # {} PROVE s[first] # 0
        OBVIOUS
    <2>1. unfinished \in SUBSET Nat
        BY <1>1
    <2>2. \E k \in unfinished : \A o \in unfinished : k <= o
        BY <2>1, Lowest
    <2>3. first \in unfinished
        BY <1>2, <2>2
    <2>4. s[first] \in N
        BY <1>1, <2>3, LenProperties, ElementOfSeq
    <2> QED  BY <2>4
<1> QED  BY <1>1, <1>3, <1>4

\* computeCriticalChain on any acyclic graph: a longest path, and a constraint
\* on it as long as there is work.
LEMMA LongestChain ==
    ASSUME NEW N, NEW E, NEW plan, NEW done, IsFiniteSet(N), 0 \notin N, E \in SUBSET (N \X N), Acyclic(E),
           \A n \in N : plan[n] \in Nat /\ done[n] \in 0 .. 100
    PROVE  LET path == CriticalPath(N, E, plan, done) IN
           /\ path = <<>> \/ path \in Paths(N, E)
           /\ \A s \in Paths(N, E) : PathDays(s, plan, done) <= PathDays(path, plan, done)
           /\ Constraint(path, done) # 0 <=> \E n \in N : Remaining(n, plan, done) > 0
<1>1. \A n \in N : Remaining(n, plan, done) \in Nat /\ (Remaining(n, plan, done) > 0 => done[n] < 100)
    BY DEF Remaining
<1>2. Chain(N, E, plan, done)
    BY <1>1 DEF Chain
<1>3. PICK a, path : a = DaysAhead(N, E, plan, done) /\ path = CriticalPath(N, E, plan, done)
    OBVIOUS
<1>4. \A s \in Paths(N, E) :
          /\ s \in Seq(N) /\ PathDays(s, plan, done) \in Nat
          /\ \E n \in N : PathDays(s, plan, done) <= a[n]
    <2> SUFFICES ASSUME NEW s \in Paths(N, E)
                 PROVE  /\ s \in Seq(N) /\ PathDays(s, plan, done) \in Nat
                        /\ \E n \in N : PathDays(s, plan, done) <= a[n]
        OBVIOUS
    <2>1. /\ s \in Seq(N) /\ Len(s) \in 1 .. Cardinality(N)
          /\ \A k \in 1 .. Len(s) - 1 : <<s[k + 1], s[k]>> \in E
        BY PathsAre
    <2>2. Len(s) # 0 /\ s[1] \in N
        BY <2>1, LenProperties, ElementOfSeq
    <2> QED  BY <1>2, <1>3, <2>1, <2>2, DaysBound
<1>5. \A n \in N : a[n] \in Nat /\ Remaining(n, plan, done) <= a[n]
    BY <1>2, <1>3, LeftAhead
<1>6. CASE path = <<>>
    <2>1. \A n \in N : a[n] = 0
        <3>1. \A n \in N : DaysAhead(N, E, plan, done)[n] = 0
            <4>1. CriticalPath(N, E, plan, done) = <<>>
                BY <1>3, <1>6
            <4> HIDE <1>3, <1>6
            <4> QED  BY <1>2, <4>1, TheChain
        <3> QED  BY <1>3, <3>1
    <2>2. PathDays(path, plan, done) = 0 /\ path \in Seq(N) /\ Len(path) = 0
        <3>1. path \in Seq(N) /\ Len(path) = 0
            BY <1>6
        <3>2. Totals(DaysSoFar(path, plan, done), path, plan, done)
            BY <1>2, <3>1, DaysSolve
        <3> QED  BY <3>1, <3>2 DEF PathDays, Totals
    <2>3. \A s \in Paths(N, E) : PathDays(s, plan, done) <= PathDays(path, plan, done)
        BY <1>4, <2>1, <2>2
    <2>4. Constraint(path, done) = 0
        <3>1. \A s \in Seq(N) : Len(s) = 0 => Constraint(s, done) = 0
            <4> SUFFICES ASSUME NEW s \in Seq(N), Len(s) = 0 PROVE Constraint(s, done) = 0
                OBVIOUS
            <4>1. ~\E k \in 1 .. Len(s) : done[s[k]] < 100
                OBVIOUS
            <4> QED  BY <4>1, ConstraintIs
        <3> QED  BY <2>2, <3>1
    <2>5. \A n \in N : ~(Remaining(n, plan, done) > 0)
        BY <1>1, <1>5, <2>1
    <2> QED  BY <1>3, <1>6, <2>3, <2>4, <2>5
<1>7. CASE path # <<>>
    <2>1. /\ path \in Paths(N, E) /\ PathDays(path, plan, done) > 0
          /\ \A n \in N : a[n] <= PathDays(path, plan, done)
        BY <1>2, <1>3, <1>7, TheChain
    <2>2. path \in Seq(N) /\ PathDays(path, plan, done) \in Nat
        BY <1>4, <2>1
    <2>3. \A s \in Paths(N, E) : PathDays(s, plan, done) <= PathDays(path, plan, done)
        <3> SUFFICES ASSUME NEW s \in Paths(N, E) PROVE PathDays(s, plan, done) <= PathDays(path, plan, done)
            OBVIOUS
        <3>1. PICK n \in N : PathDays(s, plan, done) <= a[n]
            BY <1>4
        <3>2. /\ PathDays(s, plan, done) \in Nat /\ a[n] \in Nat /\ a[n] <= PathDays(path, plan, done)
            BY <1>4, <1>5, <2>1
        <3> QED  BY <2>2, <3>1, <3>2
    <2>4. PICK k \in 1 .. Len(path) : Remaining(path[k], plan, done) > 0
        BY <1>2, <2>1, <2>2, WorkLeft
    <2>5. path[k] \in N
        BY <2>2, <2>4, LenProperties, ElementOfSeq
    <2>6. done[path[k]] < 100
        BY <1>1, <2>4, <2>5
    <2>7. Constraint(path, done) # 0
        BY <2>2, <2>6, ConstraintIs
    <2> QED  BY <1>3, <2>1, <2>3, <2>4, <2>5, <2>7
<1> QED  BY <1>6, <1>7

(* Whatever graph the edits have come to, and wherever the dots are, as long *)
(* as it is acyclic the chain the page draws is a path, no other path has    *)
(* more left to do, and while there is work it names the constraint.         *)
THEOREM TheDrawnChainIsLongest == Spec => []ChainIsLongest
<1>1. TypeOK => ChainIsLongest
    <2> SUFFICES ASSUME TypeOK, Acyclic(deps)
                 PROVE  LET path == CriticalPath(phases, deps, Plan, dot) IN
                        /\ path = <<>> \/ path \in Paths(phases, deps)
                        /\ \A s \in Paths(phases, deps) : PathDays(s, Plan, dot) <= PathDays(path, Plan, dot)
                        /\ Constraint(path, dot) # 0 <=> \E p \in phases : Remaining(p, Plan, dot) > 0
        BY DEF ChainIsLongest, None
    <2>1. IsFiniteSet(Id) /\ 0 \notin Id
        BY FS_Interval, BoundsAssumption DEF Id
    <2>2. IsFiniteSet(phases) /\ 0 \notin phases /\ deps \in SUBSET (phases \X phases)
        BY <2>1, FS_Subset DEF TypeOK
    <2>3. \A p \in phases : Plan[p] \in Nat /\ dot[p] \in 0 .. 100
        BY PlanAssumption, DotAssumption DEF TypeOK, Id
    <2> QED  BY <2>2, <2>3, LongestChain
<1> QED  BY <1>1, TypeCorrect, PTL
=============================================================================
