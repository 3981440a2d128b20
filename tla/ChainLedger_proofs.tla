--------------------------- MODULE ChainLedger_proofs ---------------------------
(***************************************************************************)
(* What ChainLedger promises, for every program: however many phases, and  *)
(* whatever dots, dates and estimates.  The next steps (HeadingsAreAnswered) *)
(* follow from the rows as they come.  The story of the finish, the idle   *)
(* days and the books rest on LedgerInv, and on what Schedule gives: a row *)
(* for each phase of the chain, each from the one before (ScheduleIs).     *)
(* What ChainViews draws of the rows follows from where they lie in time   *)
(* (RowsPlaced), and from what stays of them when the next instant comes   *)
(* (RowsKept).                                                             *)
(***************************************************************************)
EXTENDS ChainViews, FiniteSetTheorems, SequenceTheorems, WellFoundedInduction, TLAPS

LEMMA Lowest ==
    ASSUME NEW S \in SUBSET Nat, S # {}
    PROVE  \E k \in S : \A o \in S : k <= o
<1>1. IsWellFoundedOn(OpToRel(<, Nat), Nat)
    BY NatLessThanWellFounded
<1>2. \E k \in S : \A o \in S : ~(<<o, k>> \in OpToRel(<, Nat))
    BY <1>1, WFMin
<1>3. \A o, k \in Nat : o < k => <<o, k>> \in OpToRel(<, Nat)
    BY DEF OpToRel
<1> DEFINE R == OpToRel(<, Nat)
<1>4. \A o, k \in Nat : o < k => <<o, k>> \in R
    BY <1>3
<1>5. PICK k \in S : \A o \in S : <<o, k>> \notin R
    BY <1>2
<1> HIDE DEF R
<1>6. ASSUME NEW o \in S PROVE k <= o
    <2>1. o \in Nat /\ k \in Nat /\ ~(o < k)
        BY <1>4, <1>5
    <2> QED  BY <2>1
<1> QED  BY <1>6

(* What yieldsStep counts on is among the bullets: an overrun with a plan, a   *)
(* contended phase, the date, or the first handoff, which gives way only to a  *)
(* contended phase.                                                            *)
LEMMA StepsAreYielded ==
    ASSUME NEW facts, NEW rows, YieldsStep(rows), Register(facts, rows) # "none"
    PROVE  NextSteps(facts, rows) # {}
<1>1. CASE \E r \in LiveOverruns(rows) \cup SunkOverruns(rows) : PlanOf(r) > 0
    <2>1. PICK r \in LiveOverruns(rows) \cup SunkOverruns(rows) : PlanOf(r) > 0
        BY <1>1
    <2>2. <<"overrun", r.phase>> \in NextSteps(facts, rows)
        BY <2>1 DEF NextSteps
    <2> QED  BY <2>2
<1>2. CASE Oversubscribed(rows) # {}
    <2>1. PICK r : r \in Oversubscribed(rows)
        BY <1>2
    <2>2. <<"oversubscribed", r.phase>> \in NextSteps(facts, rows)
        BY <2>1 DEF NextSteps
    <2> QED  BY <2>2
<1>3. CASE Handoffs(rows) # {} /\ Oversubscribed(rows) = {}
    <2>1. Handoffs(rows) \in SUBSET Nat
        BY DEF Handoffs
    <2>2. PICK k \in Handoffs(rows) : \A o \in Handoffs(rows) : k <= o
        BY <1>3, <2>1, Lowest
    <2>3. <<"handoff", rows[k].phase>> \in NextSteps(facts, rows)
        BY <1>3, <2>2 DEF NextSteps
    <2> QED  BY <2>3
<1>4. CASE Overshot(rows)
    <2>1. <<"sop", None>> \in NextSteps(facts, rows)
        BY <1>4 DEF NextSteps
    <2> QED  BY <2>1
<1> QED  BY <1>1, <1>2, <1>3, <1>4 DEF YieldsStep

LEMMA FloorIsShown ==
    ASSUME NEW facts, NEW rows, ~YieldsStep(rows), Register(facts, rows) # "none"
    PROVE  NextSteps(facts, rows) = {<<"floor", FloorStep(rows).floor>>}
<1>1. Floor(facts, rows) = {FloorStep(rows)}
    BY DEF Floor
<1>2. /\ {r \in LiveOverruns(rows) \cup SunkOverruns(rows) : PlanOf(r) > 0} = {}
      /\ Oversubscribed(rows) = {} /\ Handoffs(rows) = {} /\ ~Overshot(rows)
    BY DEF YieldsStep
<1> QED  BY <1>1, <1>2 DEF NextSteps

(* A heading that asks for a step has one under it, and the fallback stands    *)
(* alone: the ledger's yieldsStep and the bullets the component puts together  *)
(* from the same rows never disagree.                                          *)
THEOREM HeadingsAreAnswered == Spec => []AskedMeansTold
<1>1. ASSUME NEW facts, NEW rows
      PROVE  /\ Register(facts, rows) # "none" => NextSteps(facts, rows) # {}
             /\ Floor(facts, rows) # {} => Cardinality(NextSteps(facts, rows)) = 1
    <2>1. Register(facts, rows) # "none" => NextSteps(facts, rows) # {}
        BY StepsAreYielded, FloorIsShown
    <2>2. ASSUME Floor(facts, rows) # {} PROVE Cardinality(NextSteps(facts, rows)) = 1
        <3>1. Register(facts, rows) # "none" /\ ~YieldsStep(rows)
            BY <2>2 DEF Floor
        <3> QED  BY <3>1, FloorIsShown, FS_Singleton
    <2> QED  BY <2>1, <2>2
<1>2. AskedMeansTold
    <2> DEFINE rows == Schedule(OnPage, now)
    <2>1. /\ Register(OnPage, rows) # "none" => NextSteps(OnPage, rows) # {}
          /\ Floor(OnPage, rows) # {} => Cardinality(NextSteps(OnPage, rows)) = 1
        BY <1>1
    <2> QED  BY <2>1 DEF AskedMeansTold
<1> QED  BY <1>2, PTL


-----------------------------------------------------------------------------
(* Induction up an interval, and functions by recursion along one.           *)
LEMMA Climb ==
    ASSUME NEW lo \in Nat, NEW hi \in Nat, NEW S, lo <= hi => lo \in S,
           \A k \in lo .. hi - 1 : k \in S => k + 1 \in S
    PROVE  lo .. hi \subseteq S
<1> SUFFICES ASSUME (lo .. hi) \ S # {} PROVE FALSE
    OBVIOUS
<1>1. PICK k \in (lo .. hi) \ S : \A o \in (lo .. hi) \ S : k <= o
    <2>1. (lo .. hi) \ S \in SUBSET Nat
        OBVIOUS
    <2> QED  BY <2>1, Lowest
<1>2. k # lo
    BY <1>1
<1>3. k - 1 \in lo .. hi - 1 /\ (k - 1) + 1 = k
    BY <1>1, <1>2
<1>4. k - 1 \in S
    BY <1>1, <1>3
<1> QED  BY <1>1, <1>3, <1>4

\* A function by recursion along an interval: F has the step from k - 1 to k.
Steps(F, lo, hi, S) == \A k \in lo + 1 .. hi, x \in S : F[k][x] \in S

Follows(f, F, lo, hi, S, a) ==
    /\ f \in [lo .. hi -> S]
    /\ \A k \in lo .. hi : f[k] = IF k = lo THEN a ELSE F[k][f[k - 1]]

LEMMA Recursion ==
    ASSUME NEW lo \in Nat, NEW hi \in Nat, NEW S, NEW a \in S, NEW F, Steps(F, lo, hi, S)
    PROVE  \E f : Follows(f, F, lo, hi, S, a)
<1> DEFINE Done(f, m) == \A k \in lo .. m : f[k] \in S /\ f[k] = IF k = lo THEN a ELSE F[k][f[k - 1]]
           Reached == {m \in Nat : m <= hi /\ \E f : Done(f, m)}
<1>1. CASE lo <= hi
    <2>1. lo \in Reached
        <3>1. PICK f : f = [k \in {lo} |-> a]
            OBVIOUS
        <3>2. Done(f, lo)
            BY <3>1
        <3> QED  BY <1>1, <3>2
    <2>2. ASSUME NEW m \in lo .. hi - 1, m \in Reached PROVE m + 1 \in Reached
        <3>1. PICK f : Done(f, m)
            BY <2>2
        <3>2. m \in Nat /\ m + 1 \in Nat /\ m + 1 <= hi /\ lo <= m
            BY <2>2
        <3> DEFINE x == F[m + 1][f[m]]
                   g == [k \in Nat |-> IF k = m + 1 THEN x ELSE f[k]]
        <3>3. x \in S
            <4>1. m + 1 \in lo + 1 .. hi /\ m \in lo .. m
                BY <3>2
            <4>2. f[m] \in S
                BY <3>1, <4>1
            <4> QED  BY <4>1, <4>2 DEF Steps
        <3> HIDE DEF x
        <3>4. g[m + 1] = x /\ \A k \in lo .. m : g[k] = f[k]
            BY <3>2
        <3> HIDE DEF g
        <3>5. ASSUME NEW k \in lo .. m + 1
              PROVE  g[k] \in S /\ g[k] = IF k = lo THEN a ELSE F[k][g[k - 1]]
            <4>1. CASE k = m + 1
                <5>1. k # lo /\ k - 1 = m /\ m \in lo .. m
                    BY <3>2, <4>1
                <5> QED  BY <3>3, <3>4, <4>1, <5>1 DEF x
            <4>2. CASE k # m + 1
                <5>1. k \in lo .. m /\ (k # lo => k - 1 \in lo .. m)
                    BY <3>2, <4>2
                <5> QED  BY <3>1, <3>4, <5>1
            <4> QED  BY <4>1, <4>2
        <3>6. Done(g, m + 1)
            BY <3>5
        <3> QED  BY <3>2, <3>6
    <2> HIDE DEF Reached
    <2>3. hi \in Reached
        <3>1. lo .. hi \subseteq Reached
            BY <1>1, <2>1, <2>2, Climb
        <3> QED  BY <1>1, <3>1
    <2>4. PICK f : Done(f, hi)
        BY <2>3 DEF Reached
    <2>5. PICK g : g = [k \in lo .. hi |-> f[k]]
        OBVIOUS
    <2>6. g \in [lo .. hi -> S] /\ \A k \in lo .. hi : g[k] = f[k]
        BY <2>4, <2>5
    <2>7. \A k \in lo .. hi : k # lo => k - 1 \in lo .. hi
        OBVIOUS
    <2> QED  BY <2>4, <2>6, <2>7 DEF Follows
<1>2. CASE ~(lo <= hi)
    <2>1. lo .. hi = {}
        BY <1>2
    <2>2. [k \in lo .. hi |-> a] \in [lo .. hi -> S]
        OBVIOUS
    <2> QED  BY <2>1, <2>2 DEF Follows
<1> QED  BY <1>1, <1>2

-----------------------------------------------------------------------------
(* The planned chain is a path of phases.                                    *)

LEMMA NextOf ==
    ASSUME NEW N, NEW E, NEW a, NEW n
    PROVE  NextOnChain(n, N, E, a) \in N \cup {0}
<1> DEFINE ways == {c \in Children(n, E) \cap N :
                        /\ a[c] > 0
                        /\ \A o \in Children(n, E) \cap N : a[o] <= a[c]}
<1>1. NextOnChain(n, N, E, a) = IF ways = {} THEN 0 ELSE CHOOSE c \in ways : TRUE
    BY DEF NextOnChain
<1>2. ways \subseteq N
    OBVIOUS
<1> HIDE DEF ways
<1> QED  BY <1>1, <1>2

LEMMA PathIsOfPhases ==
    ASSUME NEW N, IsFiniteSet(N), 0 \notin N, NEW E, NEW a, NEW start \in N
    PROVE  PathFrom(start, N, E, a)[Cardinality(N)] \in Seq(N)
<1> DEFINE On(w) == IF NextOnChain(w[Len(w)], N, E, a) = 0 THEN w
                    ELSE Append(w, NextOnChain(w[Len(w)], N, E, a))
           M == Cardinality(N)
<1>1. M \in Nat /\ M >= 1
    <2>1. M \in Nat
        BY FS_CardinalityType
    <2>2. M # 0
        BY FS_EmptySet
    <2> QED  BY <2>1, <2>2
<1>2. PICK f : /\ f = [k \in 1 .. M |-> IF k = 1 THEN <<start>> ELSE On(f[k - 1])]
               /\ f \in [1 .. M -> Seq(N)]
    <2> DEFINE S == Seq(N)
               F == [k \in 1 .. M |-> [x \in S |-> On(x)]]
    <2>1. ASSUME NEW w \in S PROVE On(w) \in S
        <3>1. NextOnChain(w[Len(w)], N, E, a) # 0 => NextOnChain(w[Len(w)], N, E, a) \in N
            BY NextOf
        <3> QED  BY <3>1, AppendProperties
    <2>2. <<start>> \in S
        OBVIOUS
    <2> HIDE DEF On, S, M
    <2>3. \A k \in 1 + 1 .. M, x \in S : F[k][x] \in S /\ F[k][x] = On(x)
        BY <1>1, <2>1
    <2> HIDE DEF F
    <2>4. PICK f : Follows(f, F, 1, M, S, <<start>>)
        <3>1. Steps(F, 1, M, S)
            BY <2>3 DEF Steps
        <3> QED  BY <1>1, <2>2, <3>1, Recursion
    <2>5. ASSUME NEW k \in 1 .. M, k # 1 PROVE F[k][f[k - 1]] = On(f[k - 1])
        <3>1. k \in 1 + 1 .. M /\ k - 1 \in 1 .. M
            BY <1>1, <2>5
        <3> QED  BY <2>3, <2>4, <3>1 DEF Follows
    <2>6. f = [k \in 1 .. M |-> IF k = 1 THEN <<start>> ELSE On(f[k - 1])]
        BY <2>4, <2>5 DEF Follows
    <2> QED  BY <2>4, <2>6 DEF Follows, S
<1>3. PICK path : path = PathFrom(start, N, E, a)
    OBVIOUS
<1>4. path = CHOOSE g : g = [k \in 1 .. M |-> IF k = 1 THEN <<start>> ELSE On(g[k - 1])]
    BY <1>3, Zenon DEF PathFrom
<1>5. path = [k \in 1 .. M |-> IF k = 1 THEN <<start>> ELSE On(path[k - 1])]
    BY <1>2, <1>4, Zenon
<1>6. \A w \in Seq(N) : On(w) \in Seq(N)
    <2> SUFFICES ASSUME NEW w \in Seq(N) PROVE On(w) \in Seq(N)
        OBVIOUS
    <2>1. NextOnChain(w[Len(w)], N, E, a) # 0 => NextOnChain(w[Len(w)], N, E, a) \in N
        BY NextOf
    <2> QED  BY <2>1, AppendProperties
<1> HIDE DEF On, M
<1>7. \A k \in 1 .. M : path[k] = IF k = 1 THEN <<start>> ELSE On(path[k - 1])
    BY <1>5
<1> DEFINE Fine == {k \in Nat : path[k] \in Seq(N)}
<1>8. 1 .. M \subseteq Fine
    <2>1. 1 \in Fine
        <3>1. path[1] = <<start>>
            BY <1>1, <1>7
        <3>2. <<start>> \in Seq(N)
            OBVIOUS
        <3> QED  BY <3>1, <3>2
    <2>2. ASSUME NEW k \in 1 .. M - 1, k \in Fine PROVE k + 1 \in Fine
        <3>1. k + 1 \in 1 .. M /\ k + 1 # 1 /\ (k + 1) - 1 = k /\ k + 1 \in Nat
            BY <1>1
        <3> QED  BY <1>6, <1>7, <2>2, <3>1
    <2> HIDE DEF Fine
    <2> QED  BY <1>1, <2>1, <2>2, Climb
<1> QED  BY <1>1, <1>3, <1>8 DEF M

LEMMA ChainIsOfPhases ==
    ASSUME NEW g \in Programs
    PROVE  PlannedChainOf[g] \in Seq(Phase)
<1>1. PICK chain : chain = PlannedChainOf[g]
    OBVIOUS
<1>2. PICK zero : zero = [p \in Phase |-> 0]
    OBVIOUS
<1>3. chain = CriticalPath(Phase, g.deps, g.plan, zero)
    BY <1>1, <1>2 DEF PlannedChainOf
<1> DEFINE a == DaysAhead(Phase, g.deps, g.plan, zero)
           starts == {n \in Phase : a[n] > 0 /\ \A o \in Phase : a[o] <= a[n]}
<1>5. chain = IF starts = {} THEN <<>>
              ELSE PathFrom(CHOOSE n \in starts : TRUE, Phase, g.deps, a)[Cardinality(Phase)]
    BY <1>3, Zenon DEF CriticalPath
<1>6. starts \subseteq Phase
    OBVIOUS
<1> HIDE DEF starts, a
<1>7. CASE starts = {}
    BY <1>1, <1>5, <1>7
<1>8. CASE starts # {}
    <2>1. PICK s : s = CHOOSE n \in starts : TRUE
        OBVIOUS
    <2>2. s \in Phase
        BY <1>6, <1>8, <2>1
    <2>3. IsFiniteSet(Phase) /\ 0 \notin Phase
        BY LedgerAssumption
    <2>4. PathFrom(s, Phase, g.deps, a)[Cardinality(Phase)] \in Seq(Phase)
        BY <2>2, <2>3, PathIsOfPhases
    <2> QED  BY <1>1, <1>5, <1>8, <2>1, <2>4
<1> QED  BY <1>7, <1>8

-----------------------------------------------------------------------------
(* One row of the schedule, by its kind.                                     *)

Fact == [dot : 0 .. 100, completed : Int, started : Int]

Row == [phase : Phase, kind : {"done", "active", "notStarted"}, start : Int, end : Int,
        variance : Int, remaining : Int, gap : Int]

Full(p) == Ticks * program.plan[p]
Rest(p, f) == (Full(p) * (100 - f.dot)) \div 100

LEMMA FullTyped ==
    ASSUME program \in Programs, NEW p \in Phase
    PROVE  Full(p) \in Nat
<1>1. program.plan[p] \in Nat /\ Ticks \in Nat
    BY LedgerAssumption
<1> QED  BY <1>1 DEF Full

LEMMA PlanTyped ==
    ASSUME program \in Programs, NEW p \in Phase, NEW f \in Fact
    PROVE  program.plan[p] \in Nat /\ Full(p) \in Nat /\ Rest(p, f) \in Nat
<1>1. program.plan[p] \in Nat
    BY LedgerAssumption
<1>2. Full(p) \in Nat
    BY FullTyped
<1>3. PICK left : left = 100 - f.dot /\ left \in Nat
    BY DEF Fact
<1>4. PICK part : part = Full(p) * left /\ part \in Nat
    BY <1>2, <1>3
<1>5. part \div 100 \in Nat
    BY <1>4
<1>6. Rest(p, f) = part \div 100
    BY <1>3, <1>4 DEF Rest
<1> QED  BY <1>1, <1>2, <1>5, <1>6

LEMMA Quotient ==
    ASSUME NEW a \in Int, NEW b \in Nat, b >= 1
    PROVE  a \div b \in Int /\ b * (a \div b) <= a /\ a < b * (a \div b) + b
OBVIOUS

LEMMA Multiples ==
    ASSUME NEW x \in Int, NEW y \in Int, NEW b \in Nat, x <= y
    PROVE  b * x <= b * y
OBVIOUS

LEMMA TicksTyped == Ticks \in Nat /\ Ticks >= 1
BY LedgerAssumption

\* Days in half ticks, and the days nearest to a span, half a day up.
Worth(days) == 2 * (Ticks * days)

Rounds(days, span) == Worth(days) <= 2 * span + Ticks /\ 2 * span < Worth(days) + Ticks

LEMMA WorthIs ==
    ASSUME NEW x \in Int
    PROVE  Worth(x) \in Int /\ Worth(x + 1) = Worth(x) + 2 * Ticks
<1>1. PICK p \in Int : p = Ticks * x
    BY TicksTyped
<1>2. Ticks * (x + 1) = p + Ticks
    BY <1>1, TicksTyped
<1> QED  BY <1>1, <1>2, TicksTyped DEF Worth

LEMMA WorthOfSum ==
    ASSUME NEW x \in Int, NEW y \in Int
    PROVE  Worth(x + y) = Worth(x) + Worth(y) /\ Worth(x - y) = Worth(x) - Worth(y)
<1>1. PICK p \in Int : p = Ticks * x
    BY TicksTyped
<1>2. PICK q \in Int : q = Ticks * y
    BY TicksTyped
<1>3. Ticks * (x + y) = p + q /\ Ticks * (x - y) = p - q
    BY <1>1, <1>2, TicksTyped
<1> QED  BY <1>1, <1>2, <1>3 DEF Worth

LEMMA WorthUp ==
    ASSUME NEW x \in Int, NEW y \in Int, x <= y
    PROVE  Worth(x) <= Worth(y)
<1>1. PICK p \in Int : p = Ticks * x
    BY TicksTyped
<1>2. PICK q \in Int : q = Ticks * y
    BY TicksTyped
<1>3. p <= q
    BY <1>1, <1>2, Multiples, TicksTyped
<1> QED  BY <1>1, <1>2, <1>3 DEF Worth

LEMMA WorthOf ==
    /\ Worth(-1) = -(2 * Ticks) /\ Worth(0) = 0
    /\ Worth(1) = 2 * Ticks /\ Worth(2) = 4 * Ticks
BY TicksTyped DEF Worth

LEMMA DaysAre ==
    ASSUME NEW span \in Int
    PROVE  Days(span) \in Int /\ Rounds(Days(span), span)
<1>1. PICK b \in Nat : b = 2 * Ticks /\ b >= 1
    BY TicksTyped
<1>2. PICK a \in Int : a = 2 * span + Ticks
    BY TicksTyped
<1>3. PICK q \in Int : q = a \div b /\ b * q <= a /\ a < b * q + b
    BY <1>1, Quotient
<1>4. Days(span) = q
    BY <1>1, <1>2, <1>3 DEF Days
<1>5. PICK p \in Int : p = Ticks * q
    BY TicksTyped
<1>6. b * q = 2 * p
    BY <1>1, <1>5, TicksTyped
<1>7. 2 * p <= 2 * span + Ticks /\ 2 * span < 2 * p + Ticks
    BY <1>1, <1>2, <1>3, <1>6, TicksTyped
<1> QED  BY <1>4, <1>5, <1>7 DEF Rounds, Worth

\* More of a span is never fewer days.
LEMMA RoundsUp ==
    ASSUME NEW x \in Int, NEW y \in Int, NEW a \in Int, NEW b \in Int, Rounds(a, x), Rounds(b, y), x <= y
    PROVE  a <= b
<1>1. PICK p \in Int : p = Worth(a)
    BY WorthIs
<1>2. PICK q \in Int : q = Worth(b)
    BY WorthIs
<1>3. p < q + 2 * Ticks
    BY <1>1, <1>2, TicksTyped DEF Rounds
<1>4. SUFFICES ASSUME b + 1 <= a PROVE FALSE
    OBVIOUS
<1>5. Worth(b + 1) <= p
    BY <1>1, <1>4, WorthUp
<1>6. Worth(b + 1) = q + 2 * Ticks
    BY <1>2, WorthIs
<1> QED  BY <1>3, <1>5, <1>6, TicksTyped

LEMMA IdleIs ==
    ASSUME NEW prev, prev.end \in Int, NEW start \in Int
    PROVE  IdleBefore(prev, start) \in Int
<1>1. start - prev.end \in Int
    OBVIOUS
<1>2. Days(start - prev.end) \in Int
    BY <1>1, DaysAre
<1> QED  BY <1>2 DEF IdleBefore, Later

LEMMA DoneRow ==
    ASSUME program \in Programs, NEW p \in Phase, NEW f \in Fact, NEW prev, prev.end \in Int,
           NEW at \in Int, f.dot >= 100, NEW r, r = RowOf(p, f, prev, at)
    PROVE  /\ r \in Row /\ r.phase = p /\ r.kind = "done"
           /\ r.start = Known(f.started, prev.end)
           /\ r.end = Known(f.completed, r.start + Full(p))
           /\ r.variance = Days(r.end - r.start) - program.plan[p]
           /\ r.gap = IF f.started = None THEN 0 ELSE IdleBefore(prev, r.start)
<1>1. PICK start : start = Known(f.started, prev.end) /\ start \in Int
    BY DEF Known, Fact
<1>2. PICK end : end = Known(f.completed, start + Full(p)) /\ end \in Int
    BY <1>1, PlanTyped DEF Known, Fact
<1>3. PICK v : v = Days(end - start) - program.plan[p] /\ v \in Int
    <2>1. end - start \in Int
        BY <1>1, <1>2
    <2>2. Days(end - start) \in Int /\ program.plan[p] \in Nat
        BY <2>1, DaysAre, PlanTyped
    <2> QED  BY <2>2
<1>4. PICK gap : gap = (IF f.started = None THEN 0 ELSE IdleBefore(prev, start)) /\ gap \in Int
    BY <1>1, IdleIs
<1>5. r = [phase |-> p, kind |-> "done", start |-> start, end |-> end, variance |-> v,
           remaining |-> 0, gap |-> gap]
    BY <1>1, <1>2, <1>3, <1>4 DEF RowOf, Full
<1> QED  BY <1>1, <1>2, <1>3, <1>4, <1>5 DEF Row

LEMMA ActiveRow ==
    ASSUME program \in Programs, NEW p \in Phase, NEW f \in Fact, NEW prev, prev.end \in Int,
           NEW at \in Int, f.dot < 100, f.started # None, NEW r, r = RowOf(p, f, prev, at)
    PROVE  /\ r \in Row /\ r.phase = p /\ r.kind = "active"
           /\ r.start = f.started /\ r.end = at + Rest(p, f)
           /\ r.variance = Days(r.end - r.start - Full(p))
           /\ r.gap = IdleBefore(prev, r.start)
<1>1. f.started \in Int /\ f.dot \in 0 .. 100
    BY DEF Fact
<1>2. PICK rest, full : rest = Rest(p, f) /\ rest \in Nat /\ full = Full(p) /\ full \in Nat
    BY PlanTyped
<1>3. PICK end : end = at + rest /\ end \in Int
    BY <1>2
<1>4. PICK v : v = Days(end - f.started - full) /\ v \in Int
    <2>1. end - f.started - full \in Int
        BY <1>1, <1>2, <1>3
    <2> QED  BY <2>1, DaysAre
<1>5. PICK gap : gap = IdleBefore(prev, f.started) /\ gap \in Int
    BY <1>1, IdleIs
<1>6. PICK left : left = Days(rest) /\ left \in Int
    BY <1>2, DaysAre
<1>7. r = [phase |-> p, kind |-> "active", start |-> f.started, end |-> end, variance |-> v,
           remaining |-> left, gap |-> gap]
    BY <1>1, <1>2, <1>3, <1>4, <1>5, <1>6 DEF RowOf, Full, Rest
<1> QED  BY <1>1, <1>2, <1>3, <1>4, <1>5, <1>6, <1>7 DEF Row

LEMMA WaitingRow ==
    ASSUME program \in Programs, NEW p \in Phase, NEW f \in Fact, NEW prev, prev.end \in Int,
           NEW at \in Int, f.dot < 100, f.started = None, NEW r, r = RowOf(p, f, prev, at)
    PROVE  /\ r \in Row /\ r.phase = p /\ r.kind = "notStarted"
           /\ r.start = EarliestStart(prev, at) /\ r.end = r.start + Full(p)
           /\ r.variance = 0 /\ r.gap = IdleBefore(prev, r.start)
<1>1. f.dot \in 0 .. 100
    BY DEF Fact
<1>2. PICK rest, full : rest = Rest(p, f) /\ rest \in Nat /\ full = Full(p) /\ full \in Nat
    BY PlanTyped
<1>3. PICK start : start = EarliestStart(prev, at) /\ start \in Int
    BY DEF EarliestStart, Later
<1>4. PICK end : end = start + full /\ end \in Int
    BY <1>2, <1>3
<1>5. PICK gap : gap = IdleBefore(prev, start) /\ gap \in Int
    BY <1>3, IdleIs
<1>6. PICK left : left = Days(rest) /\ left \in Int
    BY <1>2, DaysAre
<1>7. r = [phase |-> p, kind |-> "notStarted", start |-> start, end |-> end, variance |-> 0,
           remaining |-> left, gap |-> gap]
    BY <1>1, <1>2, <1>3, <1>4, <1>5, <1>6 DEF RowOf, Full, Rest
<1> QED  BY <1>2, <1>3, <1>4, <1>5, <1>6, <1>7 DEF Row

LEMMA RowTyped ==
    ASSUME program \in Programs, NEW p \in Phase, NEW f \in Fact, NEW prev, prev.end \in Int,
           NEW at \in Int
    PROVE  RowOf(p, f, prev, at) \in Row /\ RowOf(p, f, prev, at).phase = p
<1>1. PICK r : r = RowOf(p, f, prev, at)
    OBVIOUS
<1>2. f.dot >= 100 \/ f.dot < 100
    BY DEF Fact
<1> QED  BY <1>1, <1>2, DoneRow, ActiveRow, WaitingRow

-----------------------------------------------------------------------------
(* The schedule is a row for each phase of the chain, in its order.          *)

PrevOf(rows, k, at) == IF k = 1 THEN [kind |-> "none", end |-> at] ELSE rows[k - 1]

Scheduled(rows, n, facts, at) ==
    /\ rows \in Seq(Row) /\ Len(rows) = n
    /\ \A k \in 1 .. n : LET p == PlannedChainOf[program][k]
                         IN  rows[k] = RowOf(p, facts[p], PrevOf(rows, k, at), at)

LEMMA OneRowMore ==
    ASSUME program \in Programs, NEW facts \in [Phase -> Fact], NEW at \in Int, NEW n \in Nat,
           NEW rows, Scheduled(rows, n, facts, at), NEW p \in Phase,
           p = PlannedChainOf[program][n + 1], NEW prev,
           prev = IF rows = <<>> THEN [kind |-> "none", end |-> at] ELSE Last(rows)
    PROVE  Scheduled(Append(rows, RowOf(p, facts[p], prev, at)), n + 1, facts, at)
<1>1. rows \in Seq(Row) /\ Len(rows) = n
    BY DEF Scheduled
<1>2. prev = PrevOf(rows, n + 1, at)
    <2>1. CASE n = 0
        <3>1. rows = <<>>
            BY <1>1, <2>1, EmptySeq
        <3> QED  BY <2>1, <3>1 DEF PrevOf
    <2>2. CASE n # 0
        <3>1. rows # <<>>
            BY <1>1, <2>2
        <3>2. n + 1 # 1 /\ (n + 1) - 1 = n
            BY <2>2
        <3> QED  BY <1>1, <3>1, <3>2 DEF PrevOf, Last
    <2> QED  BY <2>1, <2>2
<1>3. prev.end \in Int
    <2>1. CASE rows = <<>>
        BY <2>1
    <2>2. CASE rows # <<>>
        <3>1. n \in 1 .. Len(rows)
            BY <1>1, <2>2, EmptySeq
        <3>2. Last(rows) = rows[n] /\ rows[n] \in Row
            BY <1>1, <3>1, ElementOfSeq DEF Last
        <3> QED  BY <2>2, <3>2 DEF Row
    <2> QED  BY <2>1, <2>2
<1>4. PICK r : r = RowOf(p, facts[p], prev, at)
    OBVIOUS
<1>5. r \in Row
    BY <1>3, <1>4, RowTyped
<1>6. PICK more : more = Append(rows, r)
    OBVIOUS
<1>7. /\ more \in Seq(Row) /\ Len(more) = n + 1 /\ more[n + 1] = r
      /\ \A i \in 1 .. n : more[i] = rows[i]
    BY <1>1, <1>5, <1>6, AppendProperties
<1>8. \A k \in 1 .. n + 1 : PrevOf(more, k, at) = PrevOf(rows, k, at)
    <2> SUFFICES ASSUME NEW k \in 1 .. n + 1, k # 1 PROVE more[k - 1] = rows[k - 1]
        BY DEF PrevOf
    <2>1. k - 1 \in 1 .. n
        OBVIOUS
    <2> QED  BY <1>7, <2>1
<1>9. ASSUME NEW k \in 1 .. n + 1
      PROVE  LET q == PlannedChainOf[program][k]
             IN  more[k] = RowOf(q, facts[q], PrevOf(more, k, at), at)
    <2>1. CASE k = n + 1
        <3>1. PICK before : before = PrevOf(more, k, at)
            OBVIOUS
        <3>2. before = prev
            BY <1>2, <1>8, <2>1, <3>1
        <3> QED  BY <1>4, <1>7, <2>1, <3>1, <3>2
    <2>2. CASE k # n + 1
        <3>1. k \in 1 .. n
            BY <2>2
        <3>2. PICK before : before = PrevOf(more, k, at)
            OBVIOUS
        <3>3. before = PrevOf(rows, k, at)
            BY <1>8, <3>2
        <3>4. LET q == PlannedChainOf[program][k] IN rows[k] = RowOf(q, facts[q], before, at)
            BY <3>1, <3>3 DEF Scheduled
        <3> QED  BY <1>7, <3>1, <3>2, <3>4
    <2> QED  BY <2>1, <2>2
<1>10. Scheduled(more, n + 1, facts, at)
    BY <1>7, <1>9 DEF Scheduled
<1> QED  BY <1>4, <1>6, <1>10

LEMMA ScheduleIs ==
    ASSUME program \in Programs, NEW facts \in [Phase -> Fact], NEW at \in Int
    PROVE  Scheduled(Schedule(facts, at), Len(PlannedChainOf[program]), facts, at)
<1> DEFINE chain == PlannedChainOf[program]
           more(k, before) == NextRow(before, chain[k], facts, at)
           N == Len(chain)
<1>1. N \in Nat /\ \A k \in 1 .. N : chain[k] \in Phase
    BY ChainIsOfPhases, LenProperties, ElementOfSeq
<1>2. ASSUME NEW k \in 1 .. N, NEW before \in Seq(Row) PROVE more(k, before) \in Seq(Row)
    <2>1. RowBefore(before, at).end \in Int
        <3>1. CASE before = <<>>
            BY <3>1 DEF RowBefore
        <3>2. CASE before # <<>>
            <4>1. Len(before) \in 1 .. Len(before)
                BY <3>2, EmptySeq, LenProperties
            <4>2. Last(before) = before[Len(before)] /\ before[Len(before)] \in Row
                BY <4>1, ElementOfSeq DEF Last
            <4> QED  BY <3>2, <4>2 DEF Row, RowBefore
        <3> QED  BY <3>1, <3>2
    <2>2. PICK prev : prev = RowBefore(before, at) /\ prev.end \in Int
        BY <2>1
    <2>3. chain[k] \in Phase /\ facts[chain[k]] \in Fact
        BY <1>1
    <2>4. RowOf(chain[k], facts[chain[k]], prev, at) \in Row
        BY <2>2, <2>3, RowTyped
    <2> QED  BY <2>2, <2>4, AppendProperties DEF NextRow
<1>3. \E f : f = [k \in 0 .. N |-> IF k = 0 THEN <<>> ELSE more(k, f[k - 1])]
    <2> DEFINE S == Seq(Row)
               F == [k \in 1 .. N |-> [x \in S |-> more(k, x)]]
    <2>1. <<>> \in S
        OBVIOUS
    <2> HIDE DEF more, chain, N, S
    <2>2. \A k \in 0 + 1 .. N, x \in S : F[k][x] \in S /\ F[k][x] = more(k, x)
        BY <1>1, <1>2 DEF S
    <2> HIDE DEF F
    <2>3. PICK f : Follows(f, F, 0, N, S, <<>>)
        <3>1. Steps(F, 0, N, S)
            BY <2>2 DEF Steps
        <3> QED  BY <1>1, <2>1, <3>1, Recursion
    <2>4. ASSUME NEW k \in 0 .. N, k # 0 PROVE F[k][f[k - 1]] = more(k, f[k - 1])
        <3>1. k \in 0 + 1 .. N /\ k - 1 \in 0 .. N
            BY <1>1, <2>4
        <3> QED  BY <2>2, <2>3, <3>1 DEF Follows
    <2>5. f = [k \in 0 .. N |-> IF k = 0 THEN <<>> ELSE more(k, f[k - 1])]
        BY <2>3, <2>4 DEF Follows
    <2> QED  BY <2>5
<1>4. PICK rows : Schedule(facts, at) = rows[N] /\
         rows = CHOOSE f : f = [k \in 0 .. N |-> IF k = 0 THEN <<>> ELSE more(k, f[k - 1])]
    BY Zenon DEF Schedule, RowsAlong
<1>5. rows = [k \in 0 .. N |-> IF k = 0 THEN <<>> ELSE more(k, rows[k - 1])]
    BY <1>3, <1>4, Zenon
<1> HIDE DEF more, N
<1>6. \A k \in 0 .. N : rows[k] = IF k = 0 THEN <<>> ELSE more(k, rows[k - 1])
    BY <1>5
<1> DEFINE Fine == {k \in Nat : Scheduled(rows[k], k, facts, at)}
<1>7. 0 .. N \subseteq Fine
    <2>1. 0 \in Fine
        <3>1. rows[0] = <<>>
            BY <1>1, <1>6
        <3>2. Scheduled(<<>>, 0, facts, at)
            BY DEF Scheduled
        <3> QED  BY <3>1, <3>2
    <2>2. ASSUME NEW k \in 0 .. N - 1, k \in Fine PROVE k + 1 \in Fine
        <3>1. k + 1 \in 0 .. N /\ k + 1 # 0 /\ (k + 1) - 1 = k /\ k + 1 \in Nat /\ k \in Nat
              /\ k + 1 \in 1 .. N
            BY <1>1
        <3>2. PICK before, p, prev : before = rows[k] /\ p = chain[k + 1] /\ prev = RowBefore(before, at)
            OBVIOUS
        <3>3. rows[k + 1] = Append(before, RowOf(p, facts[p], prev, at))
            BY <1>6, <3>1, <3>2 DEF more, NextRow
        <3>4. Scheduled(before, k, facts, at) /\ p \in Phase
            BY <1>1, <2>2, <3>1, <3>2
        <3>5. Scheduled(rows[k + 1], k + 1, facts, at)
            BY <3>1, <3>2, <3>3, <3>4, OneRowMore DEF RowBefore
        <3> QED  BY <3>1, <3>5
    <2> HIDE DEF Fine
    <2> QED  BY <1>1, <2>1, <2>2, Climb
<1>8. N \in Fine
    <2>1. N \in 0 .. N
        BY <1>1
    <2> HIDE DEF Fine
    <2> QED  BY <1>7, <2>1
<1>9. Scheduled(rows[N], N, facts, at)
    BY <1>8
<1> QED  BY <1>4, <1>9 DEF N

-----------------------------------------------------------------------------
(* What a phase's rows say.                                                  *)

Point == [at : Nat, dot : 0 .. 100]

LEMMA Highest ==
    ASSUME NEW n \in Nat, NEW K \in SUBSET (1 .. n), K # {}
    PROVE  \E k \in K : \A o \in K : o <= k
<1> DEFINE S == {n - k : k \in K}
<1>1. S \in SUBSET Nat /\ S # {}
    <2>1. \A k \in K : n - k \in Nat
        OBVIOUS
    <2>2. PICK k : k \in K
        OBVIOUS
    <2>3. n - k \in S
        BY <2>2
    <2> QED  BY <2>1, <2>3
<1>2. PICK s \in S : \A o \in S : s <= o
    BY <1>1, Lowest
<1>3. PICK k \in K : s = n - k
    BY <1>2
<1>4. \A o \in K : n - k <= n - o
    BY <1>2, <1>3
<1> QED  BY <1>3, <1>4

LEMMA RowsOf ==
    ASSUME NEW h \in Seq(Point)
    PROVE  \A k \in DOMAIN h : h[k] \in Point /\ h[k].at \in Nat /\ h[k].dot \in 0 .. 100
<1>1. \A k \in 1 .. Len(h) : h[k] \in Point
    BY ElementOfSeq
<1>2. DOMAIN h = 1 .. Len(h)
    BY LenProperties
<1> QED  BY <1>1, <1>2 DEF Point

LEMMA LatestIs ==
    ASSUME NEW h \in Seq(Point), NEW K \in SUBSET DOMAIN h, K # {}
    PROVE  \E k \in K : (\A o \in K : o <= k) /\ Latest(h, K) = h[k].dot
<1>1. Len(h) \in Nat /\ DOMAIN h = 1 .. Len(h)
    BY LenProperties
<1>2. \E k \in K : \A o \in K : o <= k
    BY <1>1, Highest
<1>3. PICK k : k = CHOOSE i \in K : \A o \in K : o <= i
    OBVIOUS
<1>4. k \in K /\ \A o \in K : o <= k
    BY <1>2, <1>3, Zenon
<1> QED  BY <1>3, <1>4 DEF Latest

LEMMA LatestTyped ==
    ASSUME NEW h \in Seq(Point), NEW K \in SUBSET DOMAIN h
    PROVE  Latest(h, K) \in 0 .. 100
<1>1. CASE K = {}
    BY <1>1 DEF Latest
<1>2. CASE K # {}
    BY <1>2, LatestIs, RowsOf
<1> QED  BY <1>1, <1>2

LEMMA FirstIs ==
    ASSUME NEW h \in Seq(Point), NEW K \in SUBSET DOMAIN h, NEW d,
           NEW k \in K, h[k].dot >= d
    PROVE  \E f \in K : /\ h[f].dot >= d /\ FirstFrom(h, K, d) = h[f].at
                        /\ \A o \in K : h[o].dot >= d => h[f].at <= h[o].at
<1> DEFINE reached == {h[i].at : i \in {n \in K : h[n].dot >= d}}
<1>1. reached \in SUBSET Nat /\ reached # {}
    BY RowsOf
<1>2. PICK t : t = CHOOSE i \in reached : \A o \in reached : i <= o
    OBVIOUS
<1>3. \E i \in reached : \A o \in reached : i <= o
    <2> HIDE DEF reached
    <2> QED  BY <1>1, Lowest
<1>4. t \in reached /\ \A o \in reached : t <= o
    <2> HIDE DEF reached
    <2> QED  BY <1>2, <1>3, Zenon
<1>5. FirstFrom(h, K, d) = t
    <2>1. FirstFrom(h, K, d) = IF reached = {} THEN None
                               ELSE CHOOSE i \in reached : \A o \in reached : i <= o
        BY DEF FirstFrom
    <2> HIDE DEF reached
    <2> QED  BY <1>1, <1>2, <2>1
<1> QED  BY <1>4, <1>5

LEMMA FirstIsNone ==
    ASSUME NEW h, NEW K, NEW d, \A k \in K : ~(h[k].dot >= d)
    PROVE  FirstFrom(h, K, d) = None
BY DEF FirstFrom

LEMMA FirstTyped ==
    ASSUME NEW h \in Seq(Point), NEW K \in SUBSET DOMAIN h, NEW d
    PROVE  /\ FirstFrom(h, K, d) \in Int
           /\ FirstFrom(h, K, d) # None =>
                \E k \in K : h[k].dot >= d /\ FirstFrom(h, K, d) = h[k].at
<1>1. CASE \E k \in K : h[k].dot >= d
    BY <1>1, FirstIs, RowsOf
<1>2. CASE ~ \E k \in K : h[k].dot >= d
    BY <1>2, FirstIsNone DEF None
<1> QED  BY <1>1, <1>2

\* What was reached by t is found among the rows up to t.
LEMMA FirstOfThen ==
    ASSUME NEW h \in Seq(Point), NEW t \in Int, NEW d, NEW first,
           first = FirstFrom(h, DOMAIN h, d), first # None, first <= t
    PROVE  FirstFrom(h, Upto(h, t), d) = first
<1>1. PICK k \in DOMAIN h : h[k].dot >= d /\ first = h[k].at
    BY FirstTyped
<1>2. PICK f \in DOMAIN h : /\ h[f].dot >= d /\ first = h[f].at
                            /\ \A o \in DOMAIN h : h[o].dot >= d => h[f].at <= h[o].at
    BY <1>1, FirstIs
<1>3. Upto(h, t) \in SUBSET DOMAIN h /\ f \in Upto(h, t)
    BY <1>2 DEF Upto
<1>4. PICK g \in Upto(h, t) : /\ h[g].dot >= d /\ FirstFrom(h, Upto(h, t), d) = h[g].at
                              /\ \A o \in Upto(h, t) : h[o].dot >= d => h[g].at <= h[o].at
    BY <1>2, <1>3, FirstIs
<1>5. h[f].at \in Nat /\ h[g].at \in Nat /\ h[f].at <= h[g].at /\ h[g].at <= h[f].at
    BY <1>2, <1>3, <1>4, RowsOf
<1> QED  BY <1>2, <1>4, <1>5

\* A phase at or beyond d was there once.
LEMMA ReachedOnce ==
    ASSUME NEW h \in Seq(Point), NEW K \in SUBSET DOMAIN h, NEW d \in 1 .. 100,
           Latest(h, K) >= d
    PROVE  FirstFrom(h, K, d) # None
<1>1. K # {}
    BY DEF Latest
<1>2. PICK k \in K : Latest(h, K) = h[k].dot
    BY <1>1, LatestIs
<1>3. PICK f \in K : FirstFrom(h, K, d) = h[f].at
    BY <1>2, FirstIs
<1> QED  BY <1>3, RowsOf DEF None

\* Rows that are the same say the same.
Agree(h, g, K) == (\A k \in K : g[k] = h[k]) /\ \E k \in K : \A o \in K : o <= k

LEMMA SameRows ==
    ASSUME NEW h, NEW g, NEW K, Agree(h, g, K), NEW d
    PROVE  Latest(g, K) = Latest(h, K) /\ FirstFrom(g, K, d) = FirstFrom(h, K, d)
<1>1. Latest(g, K) = Latest(h, K)
    <2>1. PICK k : k = CHOOSE i \in K : \A o \in K : o <= i
        OBVIOUS
    <2>2. k \in K /\ g[k] = h[k]
        BY <2>1, Zenon DEF Agree
    <2>3. K # {}
        BY <2>2
    <2>4. Latest(g, K) = g[k].dot /\ Latest(h, K) = h[k].dot
        BY <2>1, <2>3, Zenon DEF Latest
    <2> QED  BY <2>2, <2>4
<1>2. PICK a, b : a = {g[k].at : k \in {n \in K : g[n].dot >= d}}
                 /\ b = {h[k].at : k \in {n \in K : h[n].dot >= d}}
    OBVIOUS
<1>3. a = b
    BY <1>2 DEF Agree
<1>4. /\ FirstFrom(g, K, d) = IF a = {} THEN None ELSE CHOOSE t \in a : \A o \in a : t <= o
      /\ FirstFrom(h, K, d) = IF b = {} THEN None ELSE CHOOSE t \in b : \A o \in b : t <= o
    BY <1>2 DEF FirstFrom
<1> QED  BY <1>1, <1>3, <1>4

-----------------------------------------------------------------------------
(* The inductive invariant: rows are reported as time goes by, and while     *)
(* nothing was restated, a start is stated on its day and what was shown of a *)
(* past instant is what the rows up to it still give.                        *)

LedgerTyped ==
    /\ program \in Programs /\ now \in Time
    /\ history \in [Phase -> Seq(Point)]
    /\ claimed \in [Phase -> Int]
    /\ shown \in [Time -> Int]
    /\ restated \in BOOLEAN

Reported == \A p \in Phase : \A k \in DOMAIN history[p] : history[p][k].at <= now

Unrestated == \A p \in Phase :
    LET h == history[p]
    IN  /\ claimed[p] <= now
        /\ claimed[p] = None /\ Latest(h, DOMAIN h) = 0 => FirstFrom(h, DOMAIN h, 1) = None

Then(t) ==
    [p \in Phase |->
        LET h == history[p]
            K == Upto(h, t)
        IN  [dot |-> Latest(h, K), completed |-> FirstFrom(h, K, 100),
             started |-> IF claimed[p] # None /\ claimed[p] <= t THEN claimed[p]
                         ELSE FirstFrom(h, K, 1)]]

Remembered == \A t \in 0 .. now - 1 : shown[t] = Finish(Schedule(Then(t), t))

LedgerInv == LedgerTyped /\ Reported /\ (~restated => Unrestated /\ Remembered)

-----------------------------------------------------------------------------
LEMMA FactsTyped ==
    ASSUME LedgerTyped, NEW t \in Int
    PROVE  OnPage \in [Phase -> Fact] /\ Then(t) \in [Phase -> Fact]
<1> SUFFICES ASSUME NEW p \in Phase PROVE OnPage[p] \in Fact /\ Then(t)[p] \in Fact
    BY DEF OnPage, Then
<1>1. PICK h, c : h = history[p] /\ h \in Seq(Point) /\ c = claimed[p] /\ c \in Int
    BY DEF LedgerTyped
<1>2. OnPage[p] \in Fact
    <2>1. PICK dot : dot = Latest(h, DOMAIN h) /\ dot \in 0 .. 100
        BY <1>1, LatestTyped
    <2>2. PICK done : done = FirstFrom(h, DOMAIN h, 100) /\ done \in Int
        BY <1>1, FirstTyped
    <2>3. PICK first : first = FirstFrom(h, DOMAIN h, 1) /\ first \in Int
        BY <1>1, FirstTyped
    <2>4. PICK started : started = EffectiveStartedAt(c, dot, first) /\ started \in Int
        BY <1>1, <2>1, <2>3 DEF EffectiveStartedAt, Known, None
    <2>5. OnPage[p] = [dot |-> dot, completed |-> done, started |-> started]
        BY <1>1, <2>1, <2>2, <2>3, <2>4 DEF OnPage
    <2> QED  BY <2>1, <2>2, <2>4, <2>5 DEF Fact
<1>3. Then(t)[p] \in Fact
    <2>1. PICK K : K = Upto(h, t) /\ K \in SUBSET DOMAIN h
        BY DEF Upto
    <2>2. PICK dot : dot = Latest(h, K) /\ dot \in 0 .. 100
        BY <1>1, <2>1, LatestTyped
    <2>3. PICK done : done = FirstFrom(h, K, 100) /\ done \in Int
        BY <1>1, <2>1, FirstTyped
    <2>4. PICK first : first = FirstFrom(h, K, 1) /\ first \in Int
        BY <1>1, <2>1, FirstTyped
    <2>5. PICK started : started = (IF c # None /\ c <= t THEN c ELSE first) /\ started \in Int
        BY <1>1, <2>4
    <2>6. Then(t)[p] = [dot |-> dot, completed |-> done, started |-> started]
        BY <1>1, <2>1, <2>2, <2>3, <2>4, <2>5 DEF Then
    <2> QED  BY <2>2, <2>3, <2>5, <2>6 DEF Fact
<1> QED  BY <1>2, <1>3

LEMMA FinishTyped ==
    ASSUME program \in Programs, NEW facts \in [Phase -> Fact], NEW at \in Int
    PROVE  Finish(Schedule(facts, at)) \in Int
<1>1. PICK rows : rows = Schedule(facts, at) /\ rows \in Seq(Row)
    BY ScheduleIs DEF Scheduled
<1>2. CASE rows = <<>>
    BY <1>1, <1>2 DEF Finish, None
<1>3. CASE rows # <<>>
    <2>1. Len(rows) \in 1 .. Len(rows)
        BY <1>1, <1>3, EmptySeq, LenProperties
    <2>2. Last(rows) \in Row
        BY <1>1, <2>1, ElementOfSeq DEF Last
    <2> QED  BY <1>1, <1>3, <2>2 DEF Finish, Row
<1> QED  BY <1>2, <1>3

LEMMA SameSchedule ==
    ASSUME program' = program, NEW CONSTANT facts, NEW CONSTANT at
    PROVE  Finish(Schedule(facts, at))' = Finish(Schedule(facts, at))
BY DEF Schedule, RowsAlong, NextRow, RowBefore, RowOf, PlannedChainOf, Finish

\* While nothing is restated, the replay knows a start as soon as the page does.
LEMMA StartOfThen ==
    ASSUME NEW c \in Int, NEW t \in Int, NEW dot \in 0 .. 100, NEW first \in Int, NEW then \in Int,
           c = None /\ dot = 0 => first = None, first # None /\ first <= t => then = first
    PROVE  LET claim == EffectiveStartedAt(c, dot, first)
           IN  (IF claim # None /\ claim <= t THEN claim ELSE then)
             = (IF c # None /\ c <= t THEN c ELSE then)
<1>1. CASE c # None
    BY <1>1 DEF EffectiveStartedAt, Known
<1>2. CASE c = None
    <2>1. EffectiveStartedAt(c, dot, first) = first
        <3>1. CASE dot > 0
            BY <1>2, <3>1 DEF EffectiveStartedAt, Known
        <3>2. CASE dot = 0
            BY <1>2, <3>2 DEF EffectiveStartedAt, Known
        <3> QED  BY <3>1, <3>2
    <2> QED  BY <1>2, <2>1
<1> QED  BY <1>1, <1>2

LEMMA AsOfIsThen ==
    ASSUME LedgerTyped, Unrestated, NEW t \in Int
    PROVE  AsOf(OnPage, t) = Then(t)
<1> SUFFICES ASSUME NEW p \in Phase PROVE AsOf(OnPage, t)[p] = Then(t)[p]
    BY DEF AsOf, Then
<1>1. PICK h, c : h = history[p] /\ h \in Seq(Point) /\ c = claimed[p] /\ c \in Int
    BY DEF LedgerTyped
<1>2. PICK dot \in 0 .. 100 : dot = Latest(h, DOMAIN h)
    BY <1>1, LatestTyped
<1>3. PICK first \in Int : first = FirstFrom(h, DOMAIN h, 1)
    BY <1>1, FirstTyped
<1>4. PICK then \in Int : then = FirstFrom(h, Upto(h, t), 1)
    <2>1. Upto(h, t) \in SUBSET DOMAIN h
        BY DEF Upto
    <2> QED  BY <1>1, <2>1, FirstTyped
<1>5. c = None /\ dot = 0 => first = None
    BY <1>1, <1>2, <1>3 DEF Unrestated
<1>6. first # None /\ first <= t => then = first
    BY <1>1, <1>3, <1>4, FirstOfThen
<1>7. PICK claim : claim = EffectiveStartedAt(c, dot, first)
    OBVIOUS
<1>8. OnPage[p].started = claim
    BY <1>1, <1>2, <1>3, <1>7 DEF OnPage
<1>9. (IF claim # None /\ claim <= t THEN claim ELSE then) = (IF c # None /\ c <= t THEN c ELSE then)
    <2>1. c \in Int
        BY <1>1
    <2>2. LET start == EffectiveStartedAt(c, dot, first)
          IN  (IF start # None /\ start <= t THEN start ELSE then)
            = (IF c # None /\ c <= t THEN c ELSE then)
        BY <1>5, <1>6, <2>1, StartOfThen, Zenon
    <2> QED  BY <1>7, <2>2, Zenon
<1> QED  BY <1>1, <1>4, <1>8, <1>9 DEF AsOf, Then

LEMMA ThenIsNow ==
    ASSUME LedgerTyped, Reported, Unrestated
    PROVE  Then(now) = OnPage /\ InPortfolio = OnPage
<1> SUFFICES ASSUME NEW p \in Phase PROVE Then(now)[p] = OnPage[p] /\ InPortfolio[p] = OnPage[p]
    BY DEF OnPage, Then, InPortfolio
<1>1. PICK h, c : h = history[p] /\ h \in Seq(Point) /\ c = claimed[p] /\ c \in Int
    BY DEF LedgerTyped
<1>2. PICK dot, first : dot = Latest(h, DOMAIN h) /\ first = FirstFrom(h, DOMAIN h, 1)
    OBVIOUS
<1>3. (c = None /\ dot = 0 => first = None) /\ c <= now
    BY <1>1, <1>2 DEF Unrestated
<1>4. Upto(h, now) = DOMAIN h
    BY <1>1 DEF Upto, Reported
<1>5. dot \in 0 .. 100
    BY <1>1, <1>2, LatestTyped
<1>6. /\ (IF c # None /\ c <= now THEN c ELSE first) = EffectiveStartedAt(c, dot, first)
      /\ Known(c, first) = EffectiveStartedAt(c, dot, first)
    BY <1>3, <1>5 DEF EffectiveStartedAt, Known
<1>7. Then(now)[p] = OnPage[p]
    BY <1>1, <1>2, <1>4, <1>6 DEF OnPage, Then
<1>8. InPortfolio[p] = OnPage[p]
    BY <1>1, <1>2, <1>6 DEF OnPage, InPortfolio
<1> QED  BY <1>7, <1>8

-----------------------------------------------------------------------------
(* What one more row says, and what it leaves as it was.                     *)

Extends(g, h, x) ==
    /\ g \in Seq(Point) /\ Latest(g, DOMAIN g) = x.dot
    /\ \A t \in Int : t < x.at =>
         /\ Upto(g, t) = Upto(h, t)
         /\ Latest(g, Upto(h, t)) = Latest(h, Upto(h, t))
         /\ \A d : FirstFrom(g, Upto(h, t), d) = FirstFrom(h, Upto(h, t), d)

LEMMA RowAdded ==
    ASSUME NEW h \in Seq(Point), NEW x \in Point, NEW g, g = Append(h, x)
    PROVE  Extends(g, h, x)
<1>1. PICK n : n = Len(h) /\ n \in Nat /\ DOMAIN h = 1 .. n
    BY LenProperties
<1>2. /\ g \in Seq(Point) /\ DOMAIN g = 1 .. n + 1 /\ g[n + 1] = x
      /\ \A i \in 1 .. n : g[i] = h[i]
    BY <1>1, AppendProperties, LenProperties
<1>3. Latest(g, DOMAIN g) = x.dot
    <2>1. n + 1 \in DOMAIN g
        BY <1>1, <1>2
    <2>2. PICK k \in DOMAIN g : (\A o \in DOMAIN g : o <= k) /\ Latest(g, DOMAIN g) = g[k].dot
        BY <1>2, <2>1, LatestIs
    <2>3. k = n + 1
        BY <1>1, <1>2, <2>1, <2>2
    <2> QED  BY <1>2, <2>2, <2>3
<1>4. ASSUME NEW t \in Int, t < x.at
      PROVE  /\ Upto(g, t) = Upto(h, t)
             /\ Latest(g, Upto(h, t)) = Latest(h, Upto(h, t))
             /\ \A d : FirstFrom(g, Upto(h, t), d) = FirstFrom(h, Upto(h, t), d)
    <2>1. Upto(g, t) = Upto(h, t)
        <3>1. n + 1 \notin Upto(g, t)
            BY <1>2, <1>4 DEF Upto, Point
        <3>2. \A i \in 1 .. n : i \in Upto(g, t) <=> i \in Upto(h, t)
            BY <1>1, <1>2 DEF Upto
        <3>3. \A i \in 1 .. n + 1 : i = n + 1 \/ i \in 1 .. n
            BY <1>1
        <3>4. Upto(g, t) \subseteq 1 .. n + 1 /\ Upto(h, t) \subseteq 1 .. n
            BY <1>1, <1>2 DEF Upto
        <3> QED  BY <3>1, <3>2, <3>3, <3>4
    <2>2. PICK K : K = Upto(h, t) /\ K \in SUBSET (1 .. n)
        BY <1>1 DEF Upto
    <2>3. CASE K = {}
        BY <2>1, <2>2, <2>3 DEF Latest, FirstFrom
    <2>4. CASE K # {}
        <3>1. \A k \in K : g[k] = h[k]
            BY <1>2, <2>2
        <3>2. \E k \in K : \A o \in K : o <= k
            BY <1>1, <2>2, <2>4, Highest
        <3>3. ASSUME NEW d
              PROVE  Latest(g, K) = Latest(h, K) /\ FirstFrom(g, K, d) = FirstFrom(h, K, d)
            <4>1. Agree(h, g, K)
                BY <3>1, <3>2 DEF Agree
            <4> QED  BY <4>1, SameRows
        <3> QED  BY <2>1, <2>2, <3>3, Zenon
    <2> QED  BY <2>3, <2>4
<1> QED  BY <1>2, <1>3, <1>4 DEF Extends

LEMMA Restating ==
    ASSUME restated \in BOOLEAN, shown \in [Time -> Int], NEW whether \in BOOLEAN, Restates(whether)
    PROVE  /\ restated' \in BOOLEAN /\ shown' \in [Time -> Int]
           /\ ~restated' => ~restated /\ ~whether /\ shown' = shown
<1>1. [t \in Time |-> None] \in [Time -> Int]
    BY DEF None
<1>2. CASE whether
    BY <1>1, <1>2 DEF Restates
<1>3. CASE ~whether
    BY <1>3 DEF Restates
<1> QED  BY <1>2, <1>3

\* The past stays as remembered where the rows and the starts up to it do.
LEMMA PastKept ==
    ASSUME LedgerTyped, Remembered, program' = program, shown' = shown, now' = now,
           \A t \in 0 .. now - 1 : Then(t)' = Then(t)
    PROVE  Remembered'
<1> SUFFICES ASSUME NEW t \in 0 .. now - 1 PROVE shown'[t] = Finish(Schedule(Then(t), t))'
    BY DEF Remembered
<1>1. PICK facts : facts = Then(t)
    OBVIOUS
<1>2. Then(t)' = facts
    BY <1>1
<1>3. Finish(Schedule(Then(t), t))' = Finish(Schedule(facts, t))'
    BY <1>2
<1>4. Finish(Schedule(facts, t))' = Finish(Schedule(facts, t))
    BY SameSchedule
<1>5. shown[t] = Finish(Schedule(facts, t))
    BY <1>1 DEF Remembered
<1> QED  BY <1>3, <1>4, <1>5

LEMMA InitLedger == Init => LedgerInv
<1> SUFFICES ASSUME Init PROVE LedgerInv
    OBVIOUS
<1>1. LedgerTyped
    <2>1. now \in Time /\ None \in Int
        BY LedgerAssumption DEF Init, Time, None
    <2>2. history \in [Phase -> Seq(Point)]
        BY EmptySeq DEF Init
    <2> QED  BY <2>1, <2>2 DEF Init, LedgerTyped
<1>2. Reported
    BY DEF Init, Reported
<1>3. Unrestated
    <2>1. \A p \in Phase : FirstFrom(history[p], DOMAIN history[p], 1) = None
        BY FirstIsNone DEF Init
    <2>2. \A p \in Phase : claimed[p] <= now
        BY DEF Init, None
    <2> QED  BY <2>1, <2>2 DEF Unrestated
<1>4. Remembered
    <2>1. now = 0
        BY DEF Init
    <2> QED  BY <2>1 DEF Remembered
<1> QED  BY <1>1, <1>2, <1>3, <1>4 DEF LedgerInv

LEMMA TickKeepsLedger == LedgerInv /\ Tick => LedgerInv'
<1> SUFFICES ASSUME LedgerInv, Tick PROVE LedgerInv'
    OBVIOUS
<1>1. LedgerTyped /\ Reported /\ now \in Nat /\ now < MaxNow /\ MaxNow \in Nat
    BY LedgerAssumption DEF LedgerInv, LedgerTyped, Time, Tick
<1>2. now' = now + 1 /\ UNCHANGED <<program, history, claimed, restated>>
    BY DEF Tick
<1>3. PICK facts \in [Phase -> Fact] : facts = OnPage
    BY <1>1, FactsTyped
<1>4. PICK finish \in Int : finish = Finish(Schedule(facts, now))
    <2>1. program \in Programs /\ now \in Int
        BY <1>1 DEF LedgerTyped
    <2>2. Finish(Schedule(facts, now)) \in Int
        BY <2>1, FinishTyped
    <2> QED  BY <2>2
<1>5. shown' = IF restated THEN shown ELSE [shown EXCEPT ![now] = finish]
    BY <1>3, <1>4 DEF Tick
<1>6. LedgerTyped'
    <2>1. now' \in Time
        BY <1>1, <1>2 DEF Time
    <2>2. shown' \in [Time -> Int]
        BY <1>1, <1>4, <1>5 DEF LedgerTyped
    <2> QED  BY <1>1, <1>2, <2>1, <2>2 DEF LedgerTyped
<1>7. Reported'
    <2> SUFFICES ASSUME NEW p \in Phase, NEW k \in DOMAIN history[p] PROVE history[p][k].at <= now + 1
        BY <1>2 DEF Reported
    <2>1. history[p] \in Seq(Point) /\ history[p][k].at <= now
        BY <1>1 DEF Reported, LedgerTyped
    <2>2. history[p][k].at \in Nat
        BY <2>1, RowsOf
    <2> QED  BY <1>1, <2>1, <2>2
<1>8. ASSUME ~restated' PROVE Unrestated' /\ Remembered'
    <2>1. ~restated /\ Unrestated /\ Remembered
        BY <1>2, <1>8 DEF LedgerInv
    <2>2. Unrestated'
        <3> SUFFICES ASSUME NEW p \in Phase PROVE claimed[p] <= now + 1
            BY <1>2, <2>1 DEF Unrestated
        <3>1. claimed[p] \in Int /\ claimed[p] <= now
            BY <1>1, <2>1 DEF Unrestated, LedgerTyped
        <3> QED  BY <1>1, <3>1
    <2>3. Remembered'
        <3> SUFFICES ASSUME NEW t \in 0 .. now' - 1 PROVE shown'[t] = Finish(Schedule(Then(t), t))'
            BY DEF Remembered
        <3>1. t \in 0 .. now /\ t \in Time
            BY <1>1, <1>2 DEF Time
        <3>2. PICK then : then = Then(t)
            OBVIOUS
        <3>3. Then(t)' = then
            BY <1>2, <3>2 DEF Then, Upto
        <3>4. Finish(Schedule(Then(t), t))' = Finish(Schedule(then, t))
            BY <1>2, <3>3, SameSchedule
        <3>5. shown'[t] = Finish(Schedule(then, t))
            <4>1. CASE t = now
                <5>1. then = facts
                    BY <1>1, <1>3, <2>1, <3>2, <4>1, ThenIsNow
                <5> QED  BY <1>1, <1>4, <1>5, <2>1, <3>1, <4>1, <5>1 DEF LedgerTyped
            <4>2. CASE t # now
                <5>1. t \in 0 .. now - 1
                    BY <1>1, <3>1, <4>2
                <5>2. shown[t] = Finish(Schedule(then, t))
                    BY <2>1, <3>2, <5>1 DEF Remembered
                <5> QED  BY <1>1, <1>5, <2>1, <3>1, <4>2, <5>2 DEF LedgerTyped
            <4> QED  BY <4>1, <4>2
        <3> QED  BY <3>4, <3>5
    <2> QED  BY <2>2, <2>3
<1> QED  BY <1>6, <1>7, <1>8 DEF LedgerInv

LEMMA UpdateKeepsLedger ==
    ASSUME LedgerInv, NEW p \in Phase, Update(p)
    PROVE  LedgerInv'
<1>1. LedgerTyped /\ Reported /\ now \in Nat
    BY LedgerAssumption DEF LedgerInv, LedgerTyped, Time
<1>2. PICK d \in Dot \ {OnPage[p].dot} :
         /\ history' = [history EXCEPT ![p] = Append(@, [at |-> now, dot |-> d])]
         /\ Restates(d = 0 /\ claimed[p] = None /\ OnPage[p].started # None)
    BY DEF Update
<1>3. UNCHANGED <<program, now, claimed>>
    BY DEF Update
<1>4. PICK x : x = [at |-> now, dot |-> d] /\ x \in Point
    <2>1. d \in 0 .. 100
        BY LedgerAssumption
    <2>2. [at |-> now, dot |-> d] \in Point
        BY <1>1, <2>1 DEF Point
    <2> QED  BY <2>2
<1>5. PICK h \in Seq(Point) : h = history[p]
    BY <1>1 DEF LedgerTyped
<1>6. PICK g : g = Append(h, x)
    OBVIOUS
<1>7. /\ g \in Seq(Point) /\ Latest(g, DOMAIN g) = d
      /\ \A t \in Int : t < now =>
           /\ Upto(g, t) = Upto(h, t)
           /\ Latest(g, Upto(h, t)) = Latest(h, Upto(h, t))
           /\ \A e : FirstFrom(g, Upto(h, t), e) = FirstFrom(h, Upto(h, t), e)
    <2>1. x.at = now /\ x.dot = d
        BY <1>4
    <2>2. Extends(g, h, x)
        <3>1. x \in Point
            BY <1>4
        <3> QED  BY <1>6, <3>1, RowAdded
    <2> QED  BY <2>1, <2>2, Zenon DEF Extends
<1>8. history' = [history EXCEPT ![p] = g]
    BY <1>2, <1>4, <1>5, <1>6
<1>9. history' \in [Phase -> Seq(Point)] /\ history'[p] = g /\ \A q \in Phase : q # p => history'[q] = history[q]
    BY <1>1, <1>7, <1>8 DEF LedgerTyped
<1>10. /\ restated' \in BOOLEAN /\ shown' \in [Time -> Int]
       /\ ~restated' => /\ ~restated /\ shown' = shown
                        /\ ~(d = 0 /\ claimed[p] = None /\ OnPage[p].started # None)
    <2>1. PICK w \in BOOLEAN : w = (d = 0 /\ claimed[p] = None /\ OnPage[p].started # None)
        OBVIOUS
    <2>2. Restates(w)
        BY <1>2, <2>1
    <2>3. restated \in BOOLEAN /\ shown \in [Time -> Int]
        BY <1>1 DEF LedgerTyped
    <2> QED  BY <2>1, <2>2, <2>3, Restating
<1>11. LedgerTyped'
    BY <1>1, <1>3, <1>9, <1>10 DEF LedgerTyped
<1>12. Reported'
    <2> SUFFICES ASSUME NEW q \in Phase, NEW k \in DOMAIN history'[q] PROVE history'[q][k].at <= now
        BY <1>3 DEF Reported
    <2>1. CASE q # p
        BY <1>1, <1>9, <2>1 DEF Reported
    <2>2. CASE q = p
        <3>1. k \in 1 .. Len(h) + 1 /\ Len(h) \in Nat
            BY <1>6, <1>9, <2>2, AppendProperties, LenProperties
        <3>2. CASE k = Len(h) + 1
            BY <1>1, <1>4, <1>6, <1>9, <2>2, <3>2, AppendProperties
        <3>3. CASE k # Len(h) + 1
            <4>1. k \in 1 .. Len(h) /\ k \in DOMAIN h
                BY <3>1, <3>3, LenProperties
            <4>2. g[k] = h[k]
                BY <1>6, <4>1, AppendProperties
            <4> QED  BY <1>1, <1>5, <1>9, <2>2, <4>1, <4>2 DEF Reported
        <3> QED  BY <3>2, <3>3
    <2> QED  BY <2>1, <2>2
<1>13. ASSUME ~restated' PROVE Unrestated' /\ Remembered'
    <2>1. ~restated /\ Unrestated /\ Remembered
        BY <1>10, <1>13 DEF LedgerInv
    <2>2. Unrestated'
        <3> SUFFICES ASSUME NEW q \in Phase
                     PROVE  LET k == history'[q]
                            IN  /\ claimed[q] <= now
                                /\ claimed[q] = None /\ Latest(k, DOMAIN k) = 0
                                     => FirstFrom(k, DOMAIN k, 1) = None
            BY <1>3 DEF Unrestated
        <3>1. CASE q # p
            BY <1>9, <2>1, <3>1 DEF Unrestated
        <3>2. CASE q = p
            <4>1. claimed[q] <= now
                BY <2>1 DEF Unrestated
            <4>2. ~(claimed[p] = None /\ d = 0)
                <5> SUFFICES ASSUME claimed[p] = None, d = 0 PROVE FALSE
                    OBVIOUS
                <5>1. PICK dot \in 0 .. 100 : dot = Latest(h, DOMAIN h)
                    BY LatestTyped
                <5>2. PICK first : first = FirstFrom(h, DOMAIN h, 1)
                    OBVIOUS
                <5>3. OnPage[p].dot = dot /\ OnPage[p].started = EffectiveStartedAt(None, dot, first)
                    BY <1>5, <5>1, <5>2 DEF OnPage
                <5>4. dot >= 1
                    <6>1. d # OnPage[p].dot
                        OBVIOUS
                    <6>2. dot # 0
                        BY <5>3, <6>1
                    <6> QED  BY <6>2
                <5>5. first # None
                    BY <5>1, <5>2, <5>4, ReachedOnce
                <5>6. EffectiveStartedAt(None, dot, first) = first
                    BY <5>4 DEF EffectiveStartedAt, Known
                <5> QED  BY <1>10, <1>13, <5>3, <5>5, <5>6
            <4> QED  BY <1>7, <1>9, <3>2, <4>1, <4>2
        <3> QED  BY <3>1, <3>2
    <2>3. ASSUME NEW t \in 0 .. now - 1 PROVE Then(t)' = Then(t)
        <3>1. t \in Int /\ t < now
            BY <1>1
        <3> SUFFICES ASSUME NEW q \in Phase PROVE Then(t)'[q] = Then(t)[q]
            BY DEF Then
        <3>2. PICK k, c : k = history[q] /\ c = claimed[q]
            OBVIOUS
        <3>3. PICK l : l = history'[q]
            OBVIOUS
        <3>4. /\ Upto(l, t) = Upto(k, t)
              /\ Latest(l, Upto(k, t)) = Latest(k, Upto(k, t))
              /\ FirstFrom(l, Upto(k, t), 1) = FirstFrom(k, Upto(k, t), 1)
              /\ FirstFrom(l, Upto(k, t), 100) = FirstFrom(k, Upto(k, t), 100)
            <4>1. CASE q = p
                BY <1>5, <1>7, <1>9, <3>1, <3>2, <3>3, <4>1
            <4>2. CASE q # p
                BY <1>9, <3>2, <3>3, <4>2
            <4> QED  BY <4>1, <4>2
        <3>5. Then(t)[q] = [dot |-> Latest(k, Upto(k, t)), completed |-> FirstFrom(k, Upto(k, t), 100),
                            started |-> IF c # None /\ c <= t THEN c ELSE FirstFrom(k, Upto(k, t), 1)]
            BY <3>2 DEF Then
        <3>6. Then(t)'[q] = [dot |-> Latest(l, Upto(l, t)), completed |-> FirstFrom(l, Upto(l, t), 100),
                             started |-> IF c # None /\ c <= t THEN c ELSE FirstFrom(l, Upto(l, t), 1)]
            BY <1>3, <3>2, <3>3 DEF Then
        <3> QED  BY <3>4, <3>5, <3>6
    <2>4. Remembered'
        BY <1>1, <1>3, <1>10, <1>13, <2>1, <2>3, PastKept
    <2> QED  BY <2>2, <2>4
<1> QED  BY <1>11, <1>12, <1>13 DEF LedgerInv

LEMMA ClaimKeepsLedger ==
    ASSUME LedgerInv, NEW p \in Phase, Claim(p)
    PROVE  LedgerInv'
<1>1. LedgerTyped /\ Reported /\ now \in Nat
    BY LedgerAssumption DEF LedgerInv, LedgerTyped, Time
<1>2. PICK d \in (ClaimDate \cup {now, None}) \ {claimed[p]} :
         /\ claimed' = [claimed EXCEPT ![p] = d]
         /\ Restates(~(claimed[p] = None /\ d = now))
    BY DEF Claim
<1>3. UNCHANGED <<program, now, history>>
    BY DEF Claim
<1>4. d \in Int
    <2>1. ClaimDate \subseteq Int
        BY LedgerAssumption
    <2>2. None \in Int
        BY DEF None
    <2> QED  BY <1>1, <2>1, <2>2
<1>5. claimed' \in [Phase -> Int] /\ claimed'[p] = d /\ \A q \in Phase : q # p => claimed'[q] = claimed[q]
    BY <1>1, <1>2, <1>4 DEF LedgerTyped
<1>6. /\ restated' \in BOOLEAN /\ shown' \in [Time -> Int]
      /\ ~restated' => ~restated /\ shown' = shown /\ claimed[p] = None /\ d = now
    <2>1. PICK w \in BOOLEAN : w = ~(claimed[p] = None /\ d = now)
        OBVIOUS
    <2>2. Restates(w)
        BY <1>2, <2>1
    <2>3. restated \in BOOLEAN /\ shown \in [Time -> Int]
        BY <1>1 DEF LedgerTyped
    <2> QED  BY <2>1, <2>2, <2>3, Restating
<1>7. LedgerTyped'
    BY <1>1, <1>3, <1>5, <1>6 DEF LedgerTyped
<1>8. Reported'
    BY <1>1, <1>3 DEF Reported
<1>9. ASSUME ~restated' PROVE Unrestated' /\ Remembered'
    <2>1. ~restated /\ Unrestated /\ Remembered /\ claimed[p] = None /\ claimed'[p] = now
        BY <1>5, <1>6, <1>9 DEF LedgerInv
    <2>2. now # None
        BY <1>1 DEF None
    <2>3. Unrestated'
        <3> SUFFICES ASSUME NEW q \in Phase
                     PROVE  LET k == history[q]
                            IN  /\ claimed'[q] <= now
                                /\ claimed'[q] = None /\ Latest(k, DOMAIN k) = 0
                                     => FirstFrom(k, DOMAIN k, 1) = None
            BY <1>3 DEF Unrestated
        <3>1. CASE q # p
            BY <1>5, <2>1, <3>1 DEF Unrestated
        <3>2. CASE q = p
            BY <1>1, <2>1, <2>2, <3>2
        <3> QED  BY <3>1, <3>2
    <2>4. ASSUME NEW t \in 0 .. now - 1 PROVE Then(t)' = Then(t)
        <3>1. t \in Int /\ t < now
            BY <1>1
        <3> SUFFICES ASSUME NEW q \in Phase PROVE Then(t)'[q] = Then(t)[q]
            BY DEF Then
        <3>2. PICK k, c : k = history[q] /\ c = claimed[q]
            OBVIOUS
        <3>3. PICK b : b = claimed'[q]
            OBVIOUS
        <3>4. PICK first : first = FirstFrom(k, Upto(k, t), 1)
            OBVIOUS
        <3>5. (IF b # None /\ b <= t THEN b ELSE first) = (IF c # None /\ c <= t THEN c ELSE first)
            <4>1. CASE q = p
                <5>1. b = now /\ ~(now <= t) /\ c = None
                    BY <1>1, <2>1, <3>1, <3>2, <3>3, <4>1
                <5> QED  BY <5>1
            <4>2. CASE q # p
                BY <1>5, <3>2, <3>3, <4>2
            <4> QED  BY <4>1, <4>2
        <3>6. Then(t)[q] = [dot |-> Latest(k, Upto(k, t)), completed |-> FirstFrom(k, Upto(k, t), 100),
                            started |-> IF c # None /\ c <= t THEN c ELSE first]
            BY <3>2, <3>4 DEF Then
        <3>7. Then(t)'[q] = [dot |-> Latest(k, Upto(k, t)), completed |-> FirstFrom(k, Upto(k, t), 100),
                             started |-> IF b # None /\ b <= t THEN b ELSE first]
            BY <1>3, <3>2, <3>3, <3>4 DEF Then
        <3> QED  BY <3>5, <3>6, <3>7
    <2>5. Remembered'
        BY <1>1, <1>3, <1>6, <1>9, <2>1, <2>4, PastKept
    <2> QED  BY <2>3, <2>5
<1> QED  BY <1>7, <1>8, <1>9 DEF LedgerInv

LEMMA StillLedger == LedgerInv /\ UNCHANGED vars => LedgerInv'
<1> SUFFICES ASSUME LedgerInv, UNCHANGED vars PROVE LedgerInv'
    OBVIOUS
<1>1. UNCHANGED <<program, now, history, claimed, shown, restated>>
    BY DEF vars
<1>2. LedgerTyped' /\ Reported'
    BY <1>1 DEF LedgerInv, LedgerTyped, Reported
<1>3. ASSUME ~restated' PROVE Unrestated' /\ Remembered'
    <2>1. LedgerTyped /\ Unrestated /\ Remembered
        BY <1>1, <1>3 DEF LedgerInv
    <2>2. Unrestated'
        BY <1>1, <2>1 DEF Unrestated
    <2>3. \A t \in 0 .. now - 1 : Then(t)' = Then(t)
        BY <1>1 DEF Then, Upto
    <2> QED  BY <1>1, <2>1, <2>2, <2>3, PastKept
<1> QED  BY <1>2, <1>3 DEF LedgerInv

(* Rows are reported as the calendar runs, and until somebody restates when a  *)
(* phase began, the rows up to a past instant and the starts claimed on their  *)
(* day give the finish that was on the page then.                              *)
THEOREM LedgerInvariant == Spec => []LedgerInv
<1>1. LedgerInv /\ [Next]_vars => LedgerInv'
    BY TickKeepsLedger, UpdateKeepsLedger, ClaimKeepsLedger, StillLedger DEF Next
<1> QED  BY <1>1, InitLedger, PTL DEF Spec

(* One ledger has one story, for every chain, any estimates and any order of   *)
(* updates, claims and days: as page, portfolio and replay feed it, it has one *)
(* finish today, and in the replay every past one, until a start is restated.  *)
THEOREM ProgramsHaveOneStory == Spec => []OneStory
<1>1. ASSUME LedgerInv PROVE OneStory
    <2> SUFFICES ASSUME ~restated
                 PROVE  /\ Finish(Schedule(InPortfolio, now)) = Finish(Schedule(OnPage, now))
                        /\ Finish(Schedule(AsOf(OnPage, now), now)) = Finish(Schedule(OnPage, now))
                        /\ \A t \in 0 .. now - 1 : Finish(Schedule(AsOf(OnPage, t), t)) = shown[t]
        BY DEF OneStory
    <2>1. LedgerTyped /\ Reported /\ Unrestated /\ Remembered /\ now \in Nat
        BY <1>1, LedgerAssumption DEF LedgerInv, LedgerTyped, Time
    <2>2. InPortfolio = OnPage /\ Then(now) = OnPage
        BY <2>1, ThenIsNow
    <2>3. AsOf(OnPage, now) = OnPage
        BY <2>1, <2>2, AsOfIsThen
    <2>4. ASSUME NEW t \in 0 .. now - 1 PROVE Finish(Schedule(AsOf(OnPage, t), t)) = shown[t]
        <3>1. AsOf(OnPage, t) = Then(t)
            BY <2>1, AsOfIsThen
        <3>2. shown[t] = Finish(Schedule(Then(t), t))
            BY <2>1 DEF Remembered
        <3> QED  BY <3>1, <3>2
    <2> QED  BY <2>2, <2>3, <2>4
<1> QED  BY <1>1, LedgerInvariant, PTL

-----------------------------------------------------------------------------
(* A day on which nobody does or reports anything: what is finished stays    *)
(* where it ended, everything else ends a day later.                         *)

Finished(facts, at) ==
    \A p \in Phase : facts[p].dot >= 100 => facts[p].completed # None /\ facts[p].completed <= at

LEMMA PageFinished ==
    ASSUME LedgerInv
    PROVE  Finished(OnPage, now)
<1> SUFFICES ASSUME NEW p \in Phase, OnPage[p].dot >= 100
             PROVE  OnPage[p].completed # None /\ OnPage[p].completed <= now
    BY DEF Finished
<1>1. PICK h \in Seq(Point) : h = history[p]
    BY DEF LedgerInv, LedgerTyped
<1>2. OnPage[p].dot = Latest(h, DOMAIN h) /\ OnPage[p].completed = FirstFrom(h, DOMAIN h, 100)
    BY <1>1 DEF OnPage
<1>3. FirstFrom(h, DOMAIN h, 100) # None
    BY <1>2, ReachedOnce
<1>4. PICK k \in DOMAIN h : FirstFrom(h, DOMAIN h, 100) = h[k].at
    BY <1>3, FirstTyped
<1>5. h[k].at <= now
    BY <1>1, <1>4 DEF LedgerInv, Reported
<1> QED  BY <1>2, <1>3, <1>4, <1>5

Passed(end, then, at) ==
    \/ end <= at /\ then = end
    \/ end >= at /\ then = end + 1

MovesOn(r, s, at) ==
    /\ s.kind = r.kind /\ Passed(r.end, s.end, at)
    /\ r.kind # "done" => s.end = r.end + 1

LEMMA RowMoves ==
    ASSUME program \in Programs, NEW p \in Phase, NEW f \in Fact, NEW at \in Int,
           f.dot >= 100 => f.completed # None /\ f.completed <= at,
           NEW prev, NEW then, prev.end \in Int, then.end \in Int, Passed(prev.end, then.end, at)
    PROVE  MovesOn(RowOf(p, f, prev, at), RowOf(p, f, then, at + 1), at)
<1>1. PICK r, s : r = RowOf(p, f, prev, at) /\ s = RowOf(p, f, then, at + 1)
    OBVIOUS
<1>2. at + 1 \in Int /\ Full(p) \in Nat /\ Rest(p, f) \in Nat
    BY PlanTyped
<1>3. CASE f.dot >= 100
    <2>1. r.kind = "done" /\ r.end = Known(f.completed, r.start + Full(p))
        BY <1>1, <1>3, DoneRow
    <2>2. s.kind = "done" /\ s.end = Known(f.completed, s.start + Full(p))
        BY <1>1, <1>2, <1>3, DoneRow
    <2>3. r.end = f.completed /\ s.end = f.completed /\ f.completed <= at
        BY <1>3, <2>1, <2>2 DEF Known
    <2> QED  BY <1>1, <2>1, <2>2, <2>3 DEF MovesOn, Passed
<1>4. CASE f.dot < 100 /\ f.started # None
    <2>1. r.kind = "active" /\ r.end = at + Rest(p, f)
        BY <1>1, <1>4, ActiveRow
    <2>2. s.kind = "active" /\ s.end = at + 1 + Rest(p, f)
        BY <1>1, <1>2, <1>4, ActiveRow
    <2>3. r.end >= at /\ s.end = r.end + 1
        BY <1>2, <2>1, <2>2
    <2> QED  BY <1>1, <2>1, <2>2, <2>3 DEF MovesOn, Passed
<1>5. CASE f.dot < 100 /\ f.started = None
    <2>1. r.kind = "notStarted" /\ r.end = EarliestStart(prev, at) + Full(p)
        BY <1>1, <1>5, WaitingRow
    <2>2. s.kind = "notStarted" /\ s.end = EarliestStart(then, at + 1) + Full(p)
        BY <1>1, <1>2, <1>5, WaitingRow
    <2>3. EarliestStart(prev, at) \in Int /\ EarliestStart(prev, at) >= at
          /\ EarliestStart(then, at + 1) = EarliestStart(prev, at) + 1
        BY DEF EarliestStart, Later, Passed
    <2>4. r.end >= at /\ s.end = r.end + 1
        BY <1>2, <2>1, <2>2, <2>3
    <2> QED  BY <1>1, <2>1, <2>2, <2>4 DEF MovesOn, Passed
<1>6. f.dot >= 100 \/ f.dot < 100
    BY DEF Fact
<1> QED  BY <1>3, <1>4, <1>5, <1>6

LEMMA RowsMove ==
    ASSUME program \in Programs, NEW facts \in [Phase -> Fact], NEW at \in Int, Finished(facts, at),
           NEW n \in Nat, NEW rows, NEW next,
           Scheduled(rows, n, facts, at), Scheduled(next, n, facts, at + 1),
           n = Len(PlannedChainOf[program]), NEW k \in 1 .. n
    PROVE  MovesOn(rows[k], next[k], at)
<1>1. at + 1 \in Int
    OBVIOUS
<1>2. ASSUME NEW i \in 1 .. n
      PROVE  rows[i] \in Row /\ next[i] \in Row /\ rows[i].end \in Int /\ next[i].end \in Int
    <2>1. rows \in Seq(Row) /\ next \in Seq(Row) /\ Len(rows) = n /\ Len(next) = n
        BY DEF Scheduled
    <2>2. rows[i] \in Row
        BY <2>1, ElementOfSeq
    <2>3. next[i] \in Row
        BY <2>1, ElementOfSeq
    <2> QED  BY <2>2, <2>3 DEF Row
<1>3. ASSUME NEW i \in 1 .. n, Passed(PrevOf(rows, i, at).end, PrevOf(next, i, at + 1).end, at),
             PrevOf(rows, i, at).end \in Int, PrevOf(next, i, at + 1).end \in Int
      PROVE  MovesOn(rows[i], next[i], at)
    <2>1. PICK p : p = PlannedChainOf[program][i]
        OBVIOUS
    <2>2. p \in Phase
        BY <2>1, ChainIsOfPhases, ElementOfSeq
    <2>3. PICK f \in Fact : f = facts[p]
        BY <2>2
    <2>4. f.dot >= 100 => f.completed # None /\ f.completed <= at
        BY <2>2, <2>3 DEF Finished
    <2>5. PICK prev, then : prev = PrevOf(rows, i, at) /\ then = PrevOf(next, i, at + 1)
        OBVIOUS
    <2>6. rows[i] = RowOf(p, f, prev, at) /\ next[i] = RowOf(p, f, then, at + 1)
        BY <2>1, <2>3, <2>5 DEF Scheduled
    <2> QED  BY <1>3, <2>2, <2>4, <2>5, <2>6, RowMoves
<1> DEFINE Fine == {i \in Nat : MovesOn(rows[i], next[i], at)}
<1>4. 1 .. n \subseteq Fine
    <2>1. 1 <= n => 1 \in Fine
        <3> SUFFICES ASSUME 1 <= n PROVE MovesOn(rows[1], next[1], at)
            OBVIOUS
        <3>1. PrevOf(rows, 1, at).end = at /\ PrevOf(next, 1, at + 1).end = at + 1
            BY DEF PrevOf
        <3>2. Passed(PrevOf(rows, 1, at).end, PrevOf(next, 1, at + 1).end, at)
            BY <3>1 DEF Passed
        <3> QED  BY <1>3, <3>1, <3>2
    <2>2. ASSUME NEW i \in 1 .. n - 1, i \in Fine PROVE i + 1 \in Fine
        <3>1. i \in 1 .. n /\ i + 1 \in 1 .. n /\ i + 1 # 1 /\ (i + 1) - 1 = i /\ i + 1 \in Nat
            OBVIOUS
        <3>2. PrevOf(rows, i + 1, at) = rows[i] /\ PrevOf(next, i + 1, at + 1) = next[i]
            BY <3>1 DEF PrevOf
        <3>3. Passed(rows[i].end, next[i].end, at)
            BY <2>2 DEF MovesOn
        <3>4. MovesOn(rows[i + 1], next[i + 1], at)
            BY <1>2, <1>3, <3>1, <3>2, <3>3
        <3> QED  BY <3>1, <3>4
    <2> HIDE DEF Fine
    <2> QED  BY <2>1, <2>2, Climb
<1> QED  BY <1>4

(* Time alone never flatters a program, for any chain and any estimates: a day *)
(* on which nobody works or reports moves an unfinished program's finish out   *)
(* by that day.                                                                *)
THEOREM IdleDaysAreAdded == Spec => IdleTimeIsPaid
<1>1. ASSUME LedgerInv, Tick, NEW rows, rows = Schedule(OnPage, now), rows # <<>>,
             Last(rows).kind # "done"
      PROVE  Finish(Schedule(OnPage', now')) = Finish(rows) + 1
    <2>1. LedgerTyped /\ program \in Programs /\ now \in Int /\ now' = now + 1
        BY <1>1, LedgerAssumption DEF LedgerInv, LedgerTyped, Time, Tick
    <2>2. PICK facts \in [Phase -> Fact] : facts = OnPage
        BY <2>1, FactsTyped
    <2>3. OnPage' = facts
        BY <1>1, <2>2 DEF Tick, OnPage
    <2>4. PICK next : next = Schedule(facts, now + 1)
        OBVIOUS
    <2>5. PICK n \in Nat : n = Len(PlannedChainOf[program])
        BY <2>1, ChainIsOfPhases, LenProperties
    <2>6. Scheduled(rows, n, facts, now) /\ Scheduled(next, n, facts, now + 1)
        BY <1>1, <2>1, <2>2, <2>4, <2>5, ScheduleIs
    <2>7. rows \in Seq(Row) /\ next \in Seq(Row) /\ Len(rows) = n /\ Len(next) = n
        BY <2>6 DEF Scheduled
    <2>8. n \in 1 .. n /\ next # <<>>
        BY <1>1, <2>7, EmptySeq, LenProperties
    <2>9. Last(rows) = rows[n] /\ Last(next) = next[n]
        BY <2>7 DEF Last
    <2>10. Finished(facts, now)
        BY <1>1, <2>2, PageFinished
    <2>11. MovesOn(rows[n], next[n], now)
        BY <2>1, <2>5, <2>6, <2>8, <2>10, RowsMove
    <2>12. next[n].end = rows[n].end + 1
        BY <1>1, <2>9, <2>11 DEF MovesOn
    <2> QED  BY <1>1, <2>1, <2>3, <2>4, <2>8, <2>9, <2>12 DEF Finish
<1>2. ASSUME LedgerInv, [Next]_vars
      PROVE  [Tick => LET rows == Schedule(OnPage, now)
                      IN  rows # <<>> /\ Last(rows).kind # "done" =>
                              Finish(Schedule(OnPage', now')) = Finish(rows) + 1]_vars
    BY <1>1, <1>2
<1> QED  BY <1>2, LedgerInvariant, PTL DEF Spec, IdleTimeIsPaid

-----------------------------------------------------------------------------
(* Sums along a sequence.                                                    *)

Sums(t, numbers) ==
    /\ t \in [0 .. Len(numbers) -> Int] /\ t[0] = 0
    /\ \A k \in 1 .. Len(numbers) : t[k] = t[k - 1] + numbers[k]

LEMMA TotalIs ==
    ASSUME NEW numbers \in Seq(Int)
    PROVE  \E t : Sums(t, numbers) /\ Total(numbers) = t[Len(numbers)]
<1> DEFINE N == Len(numbers)
<1>1. N \in Nat /\ \A k \in 1 .. N : numbers[k] \in Int
    BY LenProperties, ElementOfSeq
<1> HIDE DEF N
<1>2. PICK f : /\ f = [k \in 0 .. N |-> IF k = 0 THEN 0 ELSE f[k - 1] + numbers[k]]
               /\ f \in [0 .. N -> Int]
    <2> DEFINE F == [k \in 1 .. N |-> [x \in Int |-> x + numbers[k]]]
    <2>1. \A k \in 0 + 1 .. N, x \in Int : F[k][x] \in Int /\ F[k][x] = x + numbers[k]
        BY <1>1
    <2> HIDE DEF F
    <2>2. PICK f : Follows(f, F, 0, N, Int, 0)
        <3>1. Steps(F, 0, N, Int)
            BY <2>1 DEF Steps
        <3> QED  BY <1>1, <3>1, Recursion
    <2>3. ASSUME NEW k \in 0 .. N, k # 0 PROVE F[k][f[k - 1]] = f[k - 1] + numbers[k]
        <3>1. k \in 0 + 1 .. N /\ k - 1 \in 0 .. N
            BY <1>1, <2>3
        <3> QED  BY <2>1, <2>2, <3>1 DEF Follows
    <2>4. f = [k \in 0 .. N |-> IF k = 0 THEN 0 ELSE f[k - 1] + numbers[k]]
        BY <2>2, <2>3 DEF Follows
    <2> QED  BY <2>2, <2>4 DEF Follows
<1>3. PICK t : Total(numbers) = t[N] /\
         t = CHOOSE g : g = [k \in 0 .. N |-> IF k = 0 THEN 0 ELSE g[k - 1] + numbers[k]]
    BY Zenon DEF Total, N
<1>4. t = [k \in 0 .. N |-> IF k = 0 THEN 0 ELSE t[k - 1] + numbers[k]]
    BY <1>2, <1>3, Zenon
<1>5. \A k \in 0 .. N : t[k] = IF k = 0 THEN 0 ELSE t[k - 1] + numbers[k]
    BY <1>4
<1> DEFINE Fine == {k \in Nat : t[k] \in Int}
<1>6. 0 .. N \subseteq Fine
    <2>1. 0 \in Fine
        BY <1>1, <1>5
    <2>2. ASSUME NEW k \in 0 .. N - 1, k \in Fine PROVE k + 1 \in Fine
        <3>1. k + 1 \in 0 .. N /\ k + 1 # 0 /\ (k + 1) - 1 = k /\ k + 1 \in Nat /\ k + 1 \in 1 .. N
            BY <1>1
        <3>2. t[k + 1] = t[k] + numbers[k + 1]
            BY <1>5, <3>1
        <3> QED  BY <1>1, <2>2, <3>1, <3>2
    <2> HIDE DEF Fine
    <2> QED  BY <1>1, <2>1, <2>2, Climb
<1>7. t \in [0 .. N -> Int]
    BY <1>4, <1>6
<1>8. t[0] = 0
    BY <1>1, <1>5
<1>9. ASSUME NEW k \in 1 .. N PROVE t[k] = t[k - 1] + numbers[k]
    BY <1>1, <1>5
<1> QED  BY <1>3, <1>7, <1>8, <1>9 DEF Sums, N

-----------------------------------------------------------------------------
(* The books, row by row: what a row's own days and the days before it are   *)
(* off by, in half ticks, when they are counted in days.                     *)

Own(r) == IF Counts(r) THEN r.variance ELSE 0

LEMMA OwnDays ==
    ASSUME program \in Programs, NEW p \in Phase, NEW f \in Fact, NEW prev, prev.end \in Int,
           NEW at \in Int, NEW r, r = RowOf(p, f, prev, at), NEW off,
           off = Worth(Own(r)) - 2 * (r.end - r.start - Full(p))
    PROVE  /\ r \in Row /\ r.phase = p
           /\ r.kind = "done" => off \in -Ticks .. Ticks
           /\ r.kind = "active" => off \in -(3 * Ticks) .. 3 * Ticks /\ r.end >= at
           /\ r.kind = "notStarted" => off = 0 /\ r.end >= at
<1>1. r \in Row /\ r.phase = p
    BY RowTyped
<1>2. r.start \in Int /\ r.end \in Int /\ r.variance \in Int
    BY <1>1 DEF Row
<1>3. /\ Full(p) \in Nat /\ Worth(program.plan[p]) = 2 * Full(p)
      /\ program.plan[p] \in Nat /\ Rest(p, f) \in Nat
    BY PlanTyped DEF Full, Worth
<1>4. CASE f.dot >= 100
    <2>1. r.kind = "done" /\ r.variance = Days(r.end - r.start) - program.plan[p]
        BY <1>4, DoneRow
    <2>2. PICK span \in Int : span = r.end - r.start
        BY <1>2
    <2>3. PICK days \in Int : days = Days(span) /\ Rounds(days, span)
        BY DaysAre
    <2>4. Own(r) = r.variance
        BY <2>1 DEF Own, Counts
    <2>5. Worth(Own(r)) = Worth(days) - 2 * Full(p)
        <3>1. PICK plan \in Int : plan = program.plan[p]
            BY <1>3
        <3>2. Own(r) = days - plan
            BY <2>1, <2>2, <2>3, <2>4, <3>1
        <3>3. Worth(days - plan) = Worth(days) - Worth(plan)
            BY WorthOfSum
        <3> QED  BY <1>3, <3>1, <3>2, <3>3
    <2>6. PICK w \in Int : w = Worth(days) /\ w <= 2 * span + Ticks /\ 2 * span < w + Ticks
        BY <2>3, WorthIs DEF Rounds
    <2>7. off = w - 2 * span
        BY <1>2, <1>3, <2>2, <2>5, <2>6
    <2>8. off \in -Ticks .. Ticks
        BY <2>6, <2>7, TicksTyped
    <2> QED  BY <1>1, <2>1, <2>8
<1>5. CASE f.dot < 100 /\ f.started # None
    <2>1. r.kind = "active" /\ r.end = at + Rest(p, f) /\ r.variance = Days(r.end - r.start - Full(p))
        BY <1>5, ActiveRow
    <2>2. PICK span \in Int : span = r.end - r.start - Full(p)
        BY <1>2, <1>3
    <2>3. Rounds(r.variance, span)
        BY <2>1, <2>2, DaysAre
    <2>4. Own(r) = IF Size(r.variance) >= 2 THEN r.variance ELSE 0
        BY <2>1 DEF Own, Counts, ForecastNoise
    <2>5. PICK w \in Int : w = Worth(r.variance) /\ w <= 2 * span + Ticks /\ 2 * span < w + Ticks
        BY <1>2, <2>3, WorthIs DEF Rounds
    <2>6. off \in -(3 * Ticks) .. 3 * Ticks
        <3>1. CASE Own(r) = r.variance
            <4>1. off = w - 2 * span
                BY <2>2, <2>5, <3>1
            <4> QED  BY <2>5, <4>1, TicksTyped
        <3>2. CASE Own(r) = 0 /\ r.variance \in -1 .. 1
            <4>1. off = -(2 * span)
                BY <2>2, <3>2, WorthOf
            <4>2. r.variance = -1 \/ r.variance = 0 \/ r.variance = 1
                BY <3>2
            <4>3. w \in -(2 * Ticks) .. 2 * Ticks
                BY <2>5, <4>2, WorthOf, TicksTyped
            <4> QED  BY <2>5, <4>1, <4>3, TicksTyped
        <3>3. Size(r.variance) >= 2 \/ r.variance \in -1 .. 1
            BY <1>2 DEF Size
        <3>4. ~(Size(r.variance) >= 2) \/ Own(r) = r.variance
            BY <2>4
        <3>5. Size(r.variance) >= 2 \/ Own(r) = 0
            BY <2>4
        <3> QED  BY <3>1, <3>2, <3>3, <3>4, <3>5
    <2>7. r.end >= at
        BY <1>3, <2>1
    <2> QED  BY <1>1, <2>1, <2>6, <2>7
<1>6. CASE f.dot < 100 /\ f.started = None
    <2>1. r.kind = "notStarted" /\ r.start = EarliestStart(prev, at) /\ r.end = r.start + Full(p)
        BY <1>6, WaitingRow
    <2>2. Own(r) = 0
        BY <2>1 DEF Own, Counts
    <2>3. off = 0
        <3>1. r.end - r.start - Full(p) = 0
            BY <1>2, <1>3, <2>1
        <3> QED  BY <2>2, <3>1, WorthOf
    <2>4. r.start >= at
        BY <2>1 DEF EarliestStart, Later
    <2>5. r.end >= at
        BY <1>2, <1>3, <2>1, <2>4
    <2> QED  BY <1>1, <2>1, <2>3, <2>5
<1>7. f.dot >= 100 \/ f.dot < 100
    BY DEF Fact
<1> QED  BY <1>4, <1>5, <1>6, <1>7

\* A span that is not negative is not rounded to fewer days than none.
LEMMA NeverBefore ==
    ASSUME NEW span \in Int, NEW days \in Int, Rounds(days, span), 0 <= span
    PROVE  0 <= days
<1>1. Rounds(0, 0)
    BY WorthOf, TicksTyped DEF Rounds
<1> QED  BY <1>1, RoundsUp

LEMMA SomethingOfIt ==
    ASSUME NEW span \in Int, NEW days \in Int, Rounds(days, span), days >= 1
    PROVE  span >= 1
<1>1. Rounds(0, 0)
    BY WorthOf, TicksTyped DEF Rounds
<1> QED  BY <1>1, RoundsUp

LEMMA DaysBefore ==
    ASSUME program \in Programs, NEW p \in Phase, NEW f \in Fact, NEW prev, prev.end \in Int,
           NEW at \in Int, NEW r, r = RowOf(p, f, prev, at), NEW off,
           off = Worth(r.gap) - 2 * (r.start - prev.end)
    PROVE  /\ prev.kind = "done" /\ prev.end <= r.start => off \in -Ticks .. Ticks
           /\ prev.kind # "done" => r.gap = 0
           /\ r.kind = "notStarted" => prev.end <= r.start
           /\ r.kind = "notStarted" /\ prev.kind # "done" /\ prev.end >= at => off = 0
<1>1. r \in Row
    BY RowTyped
<1>2. r.start \in Int /\ r.gap \in Int
    BY <1>1 DEF Row
<1>3. PICK span \in Int : span = r.start - prev.end
    BY <1>2
<1>4. PICK days \in Int : days = Days(span) /\ Rounds(days, span)
    BY DaysAre
<1>5. IdleBefore(prev, r.start) = IF prev.kind = "done" THEN Later(0, days) ELSE 0
    BY <1>3, <1>4 DEF IdleBefore
<1>5a. ASSUME prev.kind = "done" /\ prev.end <= r.start, r.gap = IdleBefore(prev, r.start)
      PROVE  off \in -Ticks .. Ticks
    <2>1. r.gap = days
        <3>1. 0 <= days
            BY <1>2, <1>3, <1>4, <1>5a, NeverBefore
        <3> QED  BY <1>5, <1>5a, <3>1 DEF Later
    <2>2. PICK w \in Int : w = Worth(days) /\ w <= 2 * span + Ticks /\ 2 * span < w + Ticks
        BY <1>4, WorthIs DEF Rounds
    <2>3. off = w - 2 * span
        BY <1>3, <2>1, <2>2
    <2> QED  BY <2>2, <2>3, TicksTyped
<1>6. CASE f.dot >= 100
    <2>1. /\ r.kind = "done" /\ r.start = Known(f.started, prev.end)
          /\ r.gap = IF f.started = None THEN 0 ELSE IdleBefore(prev, r.start)
        BY <1>6, DoneRow
    <2>2. CASE f.started = None
        <3>1. r.start = prev.end /\ r.gap = 0
            BY <2>1, <2>2 DEF Known
        <3>2. off = 0
            BY <3>1, WorthOf
        <3> QED  BY <2>1, <3>1, <3>2, TicksTyped
    <2>3. CASE f.started # None
        <3>1. r.gap = IdleBefore(prev, r.start)
            BY <2>1, <2>3
        <3>2. prev.kind = "done" /\ prev.end <= r.start => off \in -Ticks .. Ticks
            BY <1>5a, <3>1
        <3> QED  BY <1>5, <2>1, <3>1, <3>2
    <2> QED  BY <2>2, <2>3
<1>7. CASE f.dot < 100
    <2>1. /\ r.gap = IdleBefore(prev, r.start)
          /\ r.kind = "notStarted" => r.start = EarliestStart(prev, at)
        BY <1>7, ActiveRow, WaitingRow
    <2>2. prev.kind = "done" /\ prev.end <= r.start => off \in -Ticks .. Ticks
        BY <1>5a, <2>1
    <2>3. prev.kind # "done" => r.gap = 0
        BY <1>5, <2>1
    <2>4. r.kind = "notStarted" => prev.end <= r.start
        BY <2>1 DEF EarliestStart, Later
    <2>5. r.kind = "notStarted" /\ prev.kind # "done" /\ prev.end >= at => off = 0
        BY <2>1, <2>3, WorthOf DEF EarliestStart, Later
    <2> QED  BY <2>2, <2>3, <2>4, <2>5
<1>8. f.dot >= 100 \/ f.dot < 100
    BY DEF Fact
<1> QED  BY <1>6, <1>7, <1>8

\* What the rows up to one are off by together.
Books(r, first, spent, planned) == Worth(spent) - 2 * (r.end - first - planned)

Balanced(r, k, off) ==
    /\ off \in -(Worth(k) + Ticks) .. Worth(k) + Ticks
    /\ r.kind = "done" => off \in -(Worth(k) - Ticks) .. Worth(k) - Ticks

InTurn(rows) ==
    \A k \in 2 .. Len(rows) : rows[k].kind # "notStarted" =>
        rows[k - 1].kind = "done" /\ rows[k - 1].end <= rows[k].start

Counted(r) ==
    /\ r.start \in Int /\ r.end \in Int /\ r.gap \in Int /\ Own(r) \in Int
    /\ Full(r.phase) \in Nat /\ r.kind \in {"done", "active", "notStarted"}

\* By how many half ticks a row's own variance and the gap before it are off.
OwnOff(r) == Worth(Own(r)) - 2 * (r.end - r.start - Full(r.phase))
GapOff(r, prev) == Worth(r.gap) - 2 * (r.start - prev.end)

OffBy(r, prev, at) ==
    /\ r.kind = "done" => OwnOff(r) \in -Ticks .. Ticks
    /\ r.kind = "active" => OwnOff(r) \in -(3 * Ticks) .. 3 * Ticks /\ r.end >= at
    /\ r.kind = "notStarted" => OwnOff(r) = 0 /\ r.end >= at
    /\ prev.kind = "done" /\ prev.end <= r.start => GapOff(r, prev) \in -Ticks .. Ticks
    /\ prev.kind # "done" => r.gap = 0
    /\ r.kind = "notStarted" => prev.end <= r.start
    /\ r.kind = "notStarted" /\ prev.kind # "done" /\ prev.end >= at => GapOff(r, prev) = 0

LEMMA WorthOfThree ==
    ASSUME NEW x \in Int, NEW y \in Int, NEW z \in Int
    PROVE  Worth(x + y + z) = Worth(x) + Worth(y) + Worth(z)
<1>1. PICK u \in Int : u = x + y
    OBVIOUS
<1>2. Worth(u) = Worth(x) + Worth(y) /\ Worth(u + z) = Worth(u) + Worth(z)
    BY <1>1, WorthOfSum
<1> QED  BY <1>1, <1>2

LEMMA OwnOffTyped ==
    ASSUME NEW r, Counted(r)
    PROVE  OwnOff(r) \in Int
BY WorthIs DEF OwnOff, Counted

LEMMA NextBalances ==
    ASSUME NEW j \in Nat, j >= 1, NEW at \in Int, NEW r, NEW prev, NEW first \in Int,
           NEW s \in Int, NEW u \in Int, Counted(r), Counted(prev), OffBy(r, prev, at),
           prev.kind # "done" => prev.end >= at,
           r.kind # "notStarted" => prev.kind = "done" /\ prev.end <= r.start,
           Balanced(prev, j, Books(prev, first, s, u))
    PROVE  Balanced(r, j + 1, Books(r, first, s + r.gap + Own(r), u + Full(r.phase)))
<1>1. PICK own \in Int : own = OwnOff(r)
    BY OwnOffTyped
<1>2. PICK before \in Int : before = GapOff(r, prev)
    BY WorthIs DEF GapOff, Counted
<1>3. PICK was \in Int : was = Books(prev, first, s, u)
    BY WorthIs DEF Books, Counted
<1>4. PICK is \in Int : is = was + own + before
    OBVIOUS
<1>5. Books(r, first, s + r.gap + Own(r), u + Full(r.phase)) = is
    <2>1. PICK g \in Int : g = r.gap
        BY DEF Counted
    <2>2. PICK o \in Int : o = Own(r)
        BY DEF Counted
    <2>3. PICK full \in Int : full = Full(r.phase)
        BY DEF Counted
    <2>4. PICK b \in Int : b = r.start
        BY DEF Counted
    <2>5. PICK e \in Int : e = r.end
        BY DEF Counted
    <2>6. PICK pe \in Int : pe = prev.end
        BY DEF Counted
    <2>7. PICK x \in Int : x = Worth(s)
        BY WorthIs
    <2>8. PICK y \in Int : y = Worth(g)
        BY WorthIs
    <2>9. PICK z \in Int : z = Worth(o)
        BY WorthIs
    <2>10. /\ own = z - 2 * (e - b - full) /\ before = y - 2 * (b - pe)
           /\ was = x - 2 * (pe - first - u)
        BY <1>1, <1>2, <1>3, <2>1, <2>2, <2>3, <2>4, <2>5, <2>6, <2>7, <2>8, <2>9
           DEF Books, OwnOff, GapOff
    <2>11. Worth(s + g + o) = x + y + z
        BY <2>7, <2>8, <2>9, WorthOfThree
    <2>12. is = x + y + z - 2 * (e - first - (u + full))
        BY <1>4, <2>10
    <2> QED  BY <2>1, <2>2, <2>3, <2>5, <2>11, <2>12 DEF Books
<1>6. PICK w \in Int : w = Worth(j) /\ Worth(j + 1) = w + 2 * Ticks
    BY WorthIs
<1>7. was \in -(w + Ticks) .. w + Ticks /\ (prev.kind = "done" => was \in -(w - Ticks) .. w - Ticks)
    BY <1>3, <1>6 DEF Balanced
<1>8. Balanced(r, j + 1, is)
    <2>1. CASE r.kind = "done"
        BY <1>1, <1>2, <1>4, <1>6, <1>7, TicksTyped, <2>1 DEF Balanced, OffBy
    <2>2. CASE r.kind = "active"
        BY <1>1, <1>2, <1>4, <1>6, <1>7, TicksTyped, <2>2 DEF Balanced, OffBy
    <2>3. CASE r.kind = "notStarted" /\ prev.kind = "done"
        BY <1>1, <1>2, <1>4, <1>6, <1>7, TicksTyped, <2>3 DEF Balanced, OffBy
    <2>4. CASE r.kind = "notStarted" /\ prev.kind # "done"
        BY <1>1, <1>2, <1>4, <1>6, <1>7, TicksTyped, <2>4 DEF Balanced, OffBy
    <2> QED  BY <2>1, <2>2, <2>3, <2>4 DEF Counted
<1> QED  BY <1>5, <1>8

\* The running sums of what the rows cost and of what they were planned to take.
SumsOf(rows, n, spent, planned, costs, plans) ==
    /\ Sums(spent, costs) /\ Sums(planned, plans) /\ Len(costs) = n /\ Len(plans) = n
    /\ \A k \in 1 .. n : costs[k] = rows[k].gap + Own(rows[k]) /\ plans[k] = Full(rows[k].phase)

Columns(rows, n, spent, planned) ==
    \E costs, plans : SumsOf(rows, n, spent, planned, costs, plans)

LEMMA RowsBalance ==
    ASSUME program \in Programs, NEW facts \in [Phase -> Fact], NEW at \in Int,
           NEW n \in Nat, n = Len(PlannedChainOf[program]), NEW rows, Scheduled(rows, n, facts, at),
           InTurn(rows), NEW spent, NEW planned, Columns(rows, n, spent, planned),
           NEW k \in 1 .. n
    PROVE  /\ Balanced(rows[k], k, Books(rows[k], rows[1].start, spent[k], planned[k]))
           /\ spent[k] \in Int /\ planned[k] \in Int
<1>0. PICK costs, plans : SumsOf(rows, n, spent, planned, costs, plans)
    BY DEF Columns
<1>1. rows \in Seq(Row) /\ Len(rows) = n
    BY DEF Scheduled
<1>2. ASSUME NEW i \in 0 .. n PROVE spent[i] \in Int /\ planned[i] \in Int
    BY <1>0 DEF Sums, SumsOf
<1>3. ASSUME NEW i \in 1 .. n
      PROVE  /\ spent[i] = spent[i - 1] + rows[i].gap + Own(rows[i])
             /\ planned[i] = planned[i - 1] + Full(rows[i].phase)
             /\ Counted(rows[i])
    <2>1. rows[i] \in Row
        BY <1>1, ElementOfSeq
    <2>2. /\ rows[i].phase \in Phase /\ rows[i].start \in Int /\ rows[i].end \in Int
          /\ rows[i].gap \in Int /\ rows[i].variance \in Int
          /\ rows[i].kind \in {"done", "active", "notStarted"}
        BY <2>1 DEF Row
    <2>3. Own(rows[i]) \in Int /\ Full(rows[i].phase) \in Nat
        <3>2. Full(rows[i].phase) \in Nat
            BY <2>2, FullTyped
        <3> QED  BY <2>2, <3>2 DEF Own
    <2>4. i - 1 \in 0 .. n /\ spent[i - 1] \in Int
        BY <1>2
    <2>5. spent[i] = spent[i - 1] + costs[i] /\ costs[i] = rows[i].gap + Own(rows[i])
        BY <1>0 DEF Sums, SumsOf
    <2>6. planned[i] = planned[i - 1] + Full(rows[i].phase)
        BY <1>0 DEF Sums, SumsOf
    <2>7. spent[i] = spent[i - 1] + rows[i].gap + Own(rows[i])
        BY <2>2, <2>3, <2>4, <2>5
    <2> QED  BY <2>2, <2>3, <2>6, <2>7 DEF Counted
<1>4. ASSUME NEW i \in 1 .. n
      PROVE  PrevOf(rows, i, at).end \in Int /\ OffBy(rows[i], PrevOf(rows, i, at), at)
    <2>1. PICK p : p = PlannedChainOf[program][i]
        OBVIOUS
    <2>2. p \in Phase
        BY <2>1, ChainIsOfPhases, ElementOfSeq
    <2>3. PICK f \in Fact : f = facts[p]
        BY <2>2
    <2>4. PICK prev : prev = PrevOf(rows, i, at)
        OBVIOUS
    <2>5. PICK r : r = rows[i]
        OBVIOUS
    <2>6. prev.end \in Int
        <3>1. CASE i = 1
            BY <2>4, <3>1 DEF PrevOf
        <3>2. CASE i # 1
            <4>1. i - 1 \in 1 .. n
                BY <3>2
            <4> QED  BY <1>3, <2>4, <3>2, <4>1 DEF PrevOf, Counted
        <3> QED  BY <3>1, <3>2
    <2>7. r = RowOf(p, f, prev, at)
        BY <2>1, <2>3, <2>4, <2>5 DEF Scheduled
    <2>8. r.phase = p
        BY <2>2, <2>6, <2>7, RowTyped
    <2>9. /\ r.kind = "done" => OwnOff(r) \in -Ticks .. Ticks
          /\ r.kind = "active" => OwnOff(r) \in -(3 * Ticks) .. 3 * Ticks /\ r.end >= at
          /\ r.kind = "notStarted" => OwnOff(r) = 0 /\ r.end >= at
        BY <2>2, <2>6, <2>7, <2>8, OwnDays DEF OwnOff
    <2>10. /\ prev.kind = "done" /\ prev.end <= r.start => GapOff(r, prev) \in -Ticks .. Ticks
           /\ prev.kind # "done" => r.gap = 0
           /\ r.kind = "notStarted" => prev.end <= r.start
           /\ r.kind = "notStarted" /\ prev.kind # "done" /\ prev.end >= at => GapOff(r, prev) = 0
        BY <2>2, <2>6, <2>7, DaysBefore DEF GapOff
    <2> QED  BY <2>4, <2>5, <2>6, <2>9, <2>10 DEF OffBy
<1> DEFINE off(i) == Books(rows[i], rows[1].start, spent[i], planned[i])
           Fine == {i \in Nat : Balanced(rows[i], i, off(i))}
<1>5. 1 \in Fine
    <2>1. 1 \in 1 .. n
        OBVIOUS
    <2>2. PICK r : r = rows[1]
        OBVIOUS
    <2>3. PrevOf(rows, 1, at).kind # "done"
        BY DEF PrevOf
    <2>4. OffBy(r, PrevOf(rows, 1, at), at) /\ Counted(r)
        BY <1>3, <1>4, <2>1, <2>2
    <2>5. r.gap = 0
        BY <2>3, <2>4 DEF OffBy
    <2>6. spent[1] = 0 + r.gap + Own(r) /\ planned[1] = 0 + Full(r.phase)
        <3>1. spent[0] = 0 /\ planned[0] = 0 /\ 1 - 1 = 0
            BY <1>0 DEF Sums, SumsOf
        <3> QED  BY <1>3, <2>1, <2>2, <3>1
    <2>7. off(1) = OwnOff(r)
        <3>1. r.start \in Int /\ r.end \in Int /\ Own(r) \in Int /\ Full(r.phase) \in Nat
            BY <2>4 DEF Counted
        <3> QED  BY <2>2, <2>5, <2>6, <3>1, WorthIs DEF Books, OwnOff
    <2>8. Balanced(r, 1, OwnOff(r))
        <3>1. Worth(1) + Ticks = 3 * Ticks /\ Worth(1) - Ticks = Ticks
            BY WorthOf, TicksTyped
        <3>2. PICK own \in Int : own = OwnOff(r)
            BY <2>4, OwnOffTyped
        <3>3. /\ r.kind = "done" => own \in -Ticks .. Ticks
              /\ r.kind = "active" => own \in -(3 * Ticks) .. 3 * Ticks
              /\ r.kind = "notStarted" => own = 0
            BY <2>4, <3>2 DEF OffBy
        <3>4. r.kind \in {"done", "active", "notStarted"}
            BY <2>4 DEF Counted
        <3>5. own \in -(3 * Ticks) .. 3 * Ticks
            <4>1. CASE r.kind = "done"
                BY <3>2, <3>3, <4>1, TicksTyped
            <4>2. CASE r.kind = "active"
                BY <3>3, <4>2
            <4>3. CASE r.kind = "notStarted"
                BY <3>3, <4>3, TicksTyped
            <4> QED  BY <3>4, <4>1, <4>2, <4>3
        <3> QED  BY <3>1, <3>2, <3>3, <3>5 DEF Balanced
    <2> QED  BY <2>2, <2>7, <2>8
<1>6. ASSUME NEW j \in 1 .. n - 1, j \in Fine PROVE j + 1 \in Fine
    <2>1. PICK i \in 2 .. n : i = j + 1
        OBVIOUS
    <2>2. i \in 1 .. n /\ j \in 1 .. n /\ i # 1 /\ i - 1 = j /\ i \in Nat /\ j \in Nat /\ j >= 1
        BY <2>1
    <2>3. PICK r, prev : r = rows[i] /\ prev = rows[j]
        OBVIOUS
    <2>4. PrevOf(rows, i, at) = prev
        BY <2>2, <2>3 DEF PrevOf
    <2>5. Counted(r) /\ Counted(prev) /\ OffBy(r, prev, at) /\ OffBy(prev, PrevOf(rows, j, at), at)
        BY <1>3, <1>4, <2>2, <2>3, <2>4
    <2>6. prev.kind # "done" => prev.end >= at
        BY <2>5 DEF OffBy, Counted
    <2>7. r.kind # "notStarted" => prev.kind = "done" /\ prev.end <= r.start
        BY <1>1, <2>1, <2>2, <2>3 DEF InTurn
    <2>8. PICK first \in Int : first = rows[1].start
        <3>1. 1 \in 1 .. n
            BY <2>2
        <3> QED  BY <1>3, <3>1 DEF Counted
    <2>9. PICK s \in Int : s = spent[j]
        BY <1>2, <2>2
    <2>10. PICK u \in Int : u = planned[j]
        BY <1>2, <2>2
    <2>11. Balanced(prev, j, Books(prev, first, s, u))
        BY <1>6, <2>3, <2>8, <2>9, <2>10
    <2>12. Balanced(r, j + 1, Books(r, first, s + r.gap + Own(r), u + Full(r.phase)))
        BY <2>2, <2>5, <2>6, <2>7, <2>11, NextBalances
    <2>13. spent[i] = s + r.gap + Own(r) /\ planned[i] = u + Full(r.phase)
        BY <1>3, <2>2, <2>3, <2>9, <2>10
    <2>14. Balanced(rows[i], i, off(i))
        BY <2>1, <2>3, <2>8, <2>12, <2>13
    <2> QED  BY <2>1, <2>2, <2>14
<1>7. 1 .. n \subseteq Fine
    <2> HIDE DEF Fine
    <2> QED  BY <1>5, <1>6, Climb
<1>8. k \in Fine /\ k \in 0 .. n
    BY <1>7
<1> QED  BY <1>2, <1>8

LEMMA ColumnTotals ==
    ASSUME NEW n \in Nat, NEW a \in [1 .. n -> Int]
    PROVE  Len(a) = n /\ \E t : Sums(t, a) /\ Total(a) = t[n]
<1>1. a \in Seq(Int) /\ Len(a) = n
    OBVIOUS
<1> QED  BY <1>1, TotalIs

\* What three numbers rounded to days leave over.
LEMMA LeftOver ==
    ASSUME NEW n \in Nat, NEW left \in Int, NEW right \in Int, NEW spent \in Int, NEW off \in Int,
           NEW a \in Int, NEW b \in Int, Rounds(left, a), Rounds(right, b),
           off = Worth(spent) - 2 * (a - b), off \in -(Worth(n) + Ticks) .. Worth(n) + Ticks
    PROVE  left - right - spent \in -(n + 1) .. n + 1
<1>1. PICK x \in Int : x = left - right - spent
    OBVIOUS
<1>2. PICK l \in Int : l = Worth(left)
    BY WorthIs
<1>3. PICK r \in Int : r = Worth(right)
    BY WorthIs
<1>4. PICK s \in Int : s = Worth(spent)
    BY WorthIs
<1>5. PICK w \in Int : w = Worth(n)
    BY WorthIs
<1>6. Worth(x) = l - r - s
    <2>1. PICK y \in Int : y = left - right
        OBVIOUS
    <2>2. Worth(y) = l - r /\ Worth(y - spent) = Worth(y) - s
        BY <1>2, <1>3, <1>4, <1>5, <2>1, WorthOfSum
    <2> QED  BY <1>1, <2>1, <2>2
<1>7. l \in 2 * a - Ticks .. 2 * a + Ticks /\ r \in 2 * b - Ticks .. 2 * b + Ticks
    BY <1>2, <1>3, <1>4, <1>5, TicksTyped DEF Rounds
<1>8. s - 2 * (a - b) \in -(w + Ticks) .. w + Ticks
    BY <1>2, <1>4, <1>5
<1>9. l - r - s \in -(w + 3 * Ticks) .. w + 3 * Ticks
    BY <1>2, <1>3, <1>4, <1>5, <1>7, <1>8, TicksTyped
<1>10. Worth(n + 2) = w + 4 * Ticks /\ Worth(-(n + 2)) = -(w + 4 * Ticks)
    <2>1. Worth(n + 2) = w + 4 * Ticks
        BY <1>2, <1>3, <1>4, <1>5, WorthOf, WorthOfSum
    <2>2. Worth(0 - (n + 2)) = Worth(0) - Worth(n + 2)
        BY WorthOfSum
    <2> QED  BY <1>2, <1>3, <1>4, <1>5, <2>1, <2>2, WorthOf, TicksTyped
<1>11. x < n + 2
    <2> SUFFICES ASSUME n + 2 <= x PROVE FALSE
        OBVIOUS
    <2>1. Worth(n + 2) <= Worth(x)
        BY WorthUp
    <2> QED  BY <1>2, <1>3, <1>4, <1>5, <1>6, <1>9, <1>10, <2>1, TicksTyped
<1>12. x > -(n + 2)
    <2> SUFFICES ASSUME x <= -(n + 2) PROVE FALSE
        OBVIOUS
    <2>1. Worth(x) <= Worth(-(n + 2))
        BY WorthUp
    <2> QED  BY <1>2, <1>3, <1>4, <1>5, <1>6, <1>9, <1>10, <2>1, TicksTyped
<1> QED  BY <1>1, <1>11, <1>12

(* The books balance, for every chain and all estimates: where the work went   *)
(* one phase after the other, the days the waterfall leaves without a name, or *)
(* names too many, are a day a phase at most, and one.                         *)
THEOREM BooksAlwaysBalance == Spec => []BooksBalance
<1>1. ASSUME LedgerInv PROVE BooksBalance
    <2> SUFFICES ASSUME NEW rows, rows = Schedule(OnPage, now), rows # <<>>, program.sop # None,
                        InOrder(OnPage, rows)
                 PROVE  Size(Unattributed(OnPage, rows)) <= Len(rows) + 1
        BY DEF BooksBalance
    <2>1. LedgerTyped /\ program \in Programs /\ now \in Int
        BY <1>1, LedgerAssumption DEF LedgerInv, LedgerTyped, Time
    <2>2. PICK facts \in [Phase -> Fact] : facts = OnPage
        BY <2>1, FactsTyped
    <2>3. PICK n \in Nat : n = Len(PlannedChainOf[program])
        BY <2>1, ChainIsOfPhases, LenProperties
    <2>4. Scheduled(rows, n, facts, now)
        BY <2>1, <2>2, <2>3, ScheduleIs
    <2>5. rows \in Seq(Row) /\ Len(rows) = n
        BY <2>4 DEF Scheduled
    <2>6. n \in 1 .. n /\ 1 \in 1 .. n
        BY <2>5, EmptySeq, LenProperties
    <2>7. ASSUME NEW k \in 1 .. n
          PROVE  /\ rows[k].phase \in Phase /\ rows[k].start \in Int /\ rows[k].end \in Int
                 /\ rows[k].gap \in Int /\ Own(rows[k]) \in Int /\ Full(rows[k].phase) \in Int
        <3>1. rows[k] \in Row
            BY <2>5, ElementOfSeq
        <3>2. /\ rows[k].phase \in Phase /\ rows[k].start \in Int /\ rows[k].end \in Int
              /\ rows[k].gap \in Int /\ rows[k].variance \in Int
            BY <3>1 DEF Row
        <3>4. Full(rows[k].phase) \in Nat
            BY <2>1, <3>2, FullTyped
        <3> QED  BY <3>2, <3>4 DEF Own
    <2>8. PICK costs : costs = [k \in 1 .. n |-> rows[k].gap + Own(rows[k])]
        OBVIOUS
    <2>9. PICK plans : plans = [k \in 1 .. n |-> Full(rows[k].phase)]
        OBVIOUS
    <2>10. costs \in [1 .. n -> Int] /\ plans \in [1 .. n -> Int]
        BY <2>7, <2>8, <2>9
    <2>11. PICK spent : Sums(spent, costs) /\ Total(costs) = spent[n]
        BY <2>10, ColumnTotals
    <2>12. PICK planned : Sums(planned, plans) /\ Total(plans) = planned[n]
        BY <2>10, ColumnTotals
    <2>13. Len(costs) = n /\ Len(plans) = n
        BY <2>10, ColumnTotals
    <2>14. InTurn(rows)
        BY DEF InOrder, InTurn
    <2>15. \A k \in 1 .. n : costs[k] = rows[k].gap + Own(rows[k]) /\ plans[k] = Full(rows[k].phase)
        BY <2>8, <2>9
    <2>16. /\ Balanced(rows[n], n, Books(rows[n], rows[1].start, spent[n], planned[n]))
           /\ spent[n] \in Int /\ planned[n] \in Int
        <3>1. SumsOf(rows, n, spent, planned, costs, plans)
            BY <2>11, <2>12, <2>13, <2>15 DEF SumsOf
        <3>2. Columns(rows, n, spent, planned)
            BY <3>1 DEF Columns
        <3> QED  BY <2>1, <2>3, <2>4, <2>6, <2>14, <3>2, RowsBalance
    <2>17. Attributed(rows) = spent[n]
        <3>1. Attributed(rows) = Total(costs)
            BY <2>5, <2>8 DEF Attributed, Own
        <3> QED  BY <2>11, <3>1
    <2>18. PICK first \in Int : first = rows[1].start /\ first = FirstStart(OnPage)
        BY <2>6, <2>7 DEF InOrder
    <2>19. PICK end \in Int : end = rows[n].end /\ Finish(rows) = end
        BY <2>5, <2>6, <2>7 DEF Finish, Last
    <2>20. program.sop \in Int
        BY <2>1, LedgerAssumption
    <2>21. PICK s \in Int : s = spent[n]
        BY <2>16
    <2>22. PICK u \in Int : u = planned[n]
        BY <2>16
    <2>23. PICK a \in Int : a = program.sop - (first + u)
        BY <2>20
    <2>24. PICK b \in Int : b = program.sop - end
        BY <2>20
    <2>25. StartBuffer(OnPage, rows) = Days(a)
        <3>1. plans = [k \in 1 .. Len(rows) |-> Ticks * program.plan[rows[k].phase]]
            BY <2>5, <2>9 DEF Full
        <3>2. StartBuffer(OnPage, rows) = Days(program.sop - (FirstStart(OnPage) + Total(plans)))
            BY <3>1, Zenon DEF StartBuffer
        <3> QED  BY <2>12, <2>18, <2>22, <2>23, <3>2
    <2>26. Buffer(rows) = Days(b)
        BY <2>19, <2>24 DEF Buffer
    <2>27. Rounds(Days(a), a) /\ Rounds(Days(b), b) /\ Days(a) \in Int /\ Days(b) \in Int
        BY DaysAre
    <2>28. Worth(s) - 2 * (end - first - u) \in -(Worth(n) + Ticks) .. Worth(n) + Ticks
        BY <2>16, <2>18, <2>19, <2>21, <2>22 DEF Balanced, Books
    <2>29. PICK w \in Int : w = Worth(s)
        BY WorthIs
    <2>30. PICK off \in Int : off = w - 2 * (a - b) /\ off = w - 2 * (end - first - u)
        <3>1. PICK x \in Int : x = a - b /\ x = end - first - u
            BY <2>20, <2>23, <2>24
        <3> QED  BY <3>1
    <2>31. Days(a) - Days(b) - s \in -(n + 1) .. n + 1
        BY <2>27, <2>28, <2>29, <2>30, LeftOver
    <2>32. Unattributed(OnPage, rows) = Days(a) - Days(b) - s
        BY <2>17, <2>21, <2>25, <2>26 DEF Unattributed
    <2>33. PICK z \in Int : z = Days(a) - Days(b) - s
        BY <2>27
    <2> QED  BY <2>5, <2>31, <2>32, <2>33 DEF Size
<1> QED  BY <1>1, LedgerInvariant, PTL

-----------------------------------------------------------------------------
(* Where the rows of a schedule lie in time.                                 *)

Placed(r, prev, at) ==
    /\ r.kind \in {"done", "active", "notStarted"}
    /\ r.start \in Int /\ r.end \in Int /\ r.variance \in Int /\ r.gap \in Nat
    /\ Full(r.phase) \in Nat /\ prev.end \in Int
    /\ r.kind = "done" => r.end <= at
    /\ r.kind = "active" => r.end >= at
    /\ r.kind = "notStarted" =>
            r.start = EarliestStart(prev, at) /\ r.end = r.start + Full(r.phase) /\ r.variance = 0
    /\ r.kind # "notStarted" => Rounds(r.variance, r.end - r.start - Full(r.phase))
    /\ r.gap >= 1 => prev.kind = "done" /\ r.start > prev.end
    /\ prev.kind = "done" /\ r.start > prev.end => Rounds(r.gap, r.start - prev.end)

LEMMA IdleDays ==
    ASSUME NEW prev, prev.end \in Int, NEW start \in Int, NEW gap, gap = IdleBefore(prev, start)
    PROVE  /\ gap \in Nat /\ (gap >= 1 => prev.kind = "done" /\ start > prev.end)
           /\ prev.kind = "done" /\ start > prev.end => Rounds(gap, start - prev.end)
<1>1. PICK span \in Int : span = start - prev.end
    OBVIOUS
<1>2. PICK days \in Int : days = Days(span) /\ Rounds(days, span)
    BY DaysAre
<1>3. gap = IF prev.kind = "done" THEN Later(0, days) ELSE 0
    BY <1>1, <1>2 DEF IdleBefore
<1>4. CASE prev.kind # "done"
    BY <1>3, <1>4
<1>5. CASE prev.kind = "done"
    <2>1. gap = IF 0 < days THEN days ELSE 0
        BY <1>3, <1>5 DEF Later
    <2>2. days >= 1 => span >= 1
        BY <1>2, SomethingOfIt
    <2>3. span >= 1 => gap = days
        BY <1>2, <2>1, NeverBefore
    <2>4. gap \in Nat /\ (gap >= 1 => days >= 1)
        BY <2>1
    <2> QED  BY <1>1, <1>2, <1>5, <2>2, <2>3, <2>4
<1> QED  BY <1>4, <1>5

LEMMA PlacedRow ==
    ASSUME program \in Programs, NEW p \in Phase, NEW f \in Fact, NEW prev, prev.end \in Int,
           NEW at \in Int, f.dot >= 100 => f.completed # None /\ f.completed <= at,
           NEW r, r = RowOf(p, f, prev, at)
    PROVE  Placed(r, prev, at)
<1>1. r \in Row /\ r.phase = p
    BY RowTyped
<1>2. /\ r.start \in Int /\ r.end \in Int /\ r.variance \in Int
      /\ r.kind \in {"done", "active", "notStarted"}
    BY <1>1 DEF Row
<1>3. PICK full \in Nat : full = Full(p)
    BY PlanTyped
<1>4. PICK plan \in Nat : plan = program.plan[p] /\ Worth(plan) = 2 * full
    BY <1>3, PlanTyped DEF Full, Worth
<1>5. Rest(p, f) \in Nat
    BY PlanTyped
<1> DEFINE GapIs == /\ r.gap \in Nat /\ (r.gap >= 1 => prev.kind = "done" /\ r.start > prev.end)
                    /\ prev.kind = "done" /\ r.start > prev.end => Rounds(r.gap, r.start - prev.end)
<1>6. r.gap = IdleBefore(prev, r.start) => GapIs
    BY <1>2, IdleDays
<1>7. r.start = prev.end /\ r.gap = 0 => GapIs
    OBVIOUS
<1>8. CASE f.dot >= 100
    <2>1. /\ r.kind = "done" /\ r.start = Known(f.started, prev.end)
          /\ r.end = Known(f.completed, r.start + Full(p))
          /\ r.variance = Days(r.end - r.start) - program.plan[p]
          /\ r.gap = IF f.started = None THEN 0 ELSE IdleBefore(prev, r.start)
        BY <1>8, DoneRow
    <2>2. r.end <= at
        BY <1>8, <2>1 DEF Known
    <2>3. GapIs
        <3>1. CASE f.started = None
            BY <1>7, <2>1, <3>1 DEF Known
        <3>2. CASE f.started # None
            BY <1>6, <2>1, <3>2
        <3> QED  BY <3>1, <3>2
    <2>4. Rounds(r.variance, r.end - r.start - full)
        <3>1. PICK span \in Int : span = r.end - r.start
            BY <1>2
        <3>2. PICK days \in Int : days = Days(span) /\ Rounds(days, span)
            BY DaysAre
        <3>3. r.variance = days - plan
            BY <1>4, <2>1, <3>1, <3>2
        <3>4. PICK w \in Int : w = Worth(days)
            BY WorthIs
        <3>5. Worth(days - plan) = w - 2 * full
            <4>1. Worth(days - plan) = Worth(days) - Worth(plan)
                BY WorthOfSum
            <4> QED  BY <1>4, <3>4, <4>1
        <3>6. w <= 2 * span + Ticks /\ 2 * span < w + Ticks
            BY <3>2, <3>4 DEF Rounds
        <3>7. PICK rest \in Int : rest = span - full
            OBVIOUS
        <3>8. w - 2 * full <= 2 * rest + Ticks /\ 2 * rest < w - 2 * full + Ticks
            BY <3>6, <3>7, TicksTyped
        <3>9. Rounds(r.variance, rest)
            BY <3>3, <3>5, <3>8 DEF Rounds
        <3> QED  BY <1>2, <3>1, <3>7, <3>9
    <2> QED  BY <1>1, <1>2, <1>3, <2>1, <2>2, <2>3, <2>4 DEF Placed
<1>9. CASE f.dot < 100 /\ f.started # None
    <2>1. /\ r.kind = "active" /\ r.end = at + Rest(p, f)
          /\ r.variance = Days(r.end - r.start - Full(p)) /\ r.gap = IdleBefore(prev, r.start)
        BY <1>9, ActiveRow
    <2>2. r.end >= at
        BY <1>5, <2>1
    <2>3. Rounds(r.variance, r.end - r.start - full)
        <3>1. PICK span \in Int : span = r.end - r.start - full
            BY <1>2
        <3>2. Rounds(Days(span), span) /\ r.variance = Days(span)
            BY <1>3, <2>1, <3>1, DaysAre
        <3> QED  BY <3>1, <3>2
    <2> QED  BY <1>1, <1>2, <1>3, <1>6, <2>1, <2>2, <2>3 DEF Placed
<1>10. CASE f.dot < 100 /\ f.started = None
    <2>1. /\ r.kind = "notStarted" /\ r.start = EarliestStart(prev, at) /\ r.end = r.start + Full(p)
          /\ r.variance = 0 /\ r.gap = IdleBefore(prev, r.start)
        BY <1>10, WaitingRow
    <2> QED  BY <1>1, <1>2, <1>3, <1>6, <2>1 DEF Placed
<1>11. f.dot >= 100 \/ f.dot < 100
    BY DEF Fact
<1> QED  BY <1>8, <1>9, <1>10, <1>11

RowsPlaced(rows, n, at) ==
    /\ rows \in Seq(Row) /\ Len(rows) = n
    /\ \A k \in 1 .. n : Placed(rows[k], PrevOf(rows, k, at), at)

LEMMA ScheduleIsPlaced ==
    ASSUME program \in Programs, NEW facts \in [Phase -> Fact], NEW at \in Int, Finished(facts, at),
           NEW n \in Nat, n = Len(PlannedChainOf[program]),
           NEW rows, rows = Schedule(facts, at)
    PROVE  RowsPlaced(rows, n, at)
<1>1. Scheduled(rows, n, facts, at)
    BY ScheduleIs
<1>2. rows \in Seq(Row) /\ Len(rows) = n
    BY <1>1 DEF Scheduled
<1>3. ASSUME NEW k \in 1 .. n PROVE Placed(rows[k], PrevOf(rows, k, at), at)
    <2>1. PICK p : p = PlannedChainOf[program][k]
        OBVIOUS
    <2>2. p \in Phase
        BY <2>1, ChainIsOfPhases, ElementOfSeq
    <2>3. PICK f \in Fact : f = facts[p]
        BY <2>2
    <2>4. f.dot >= 100 => f.completed # None /\ f.completed <= at
        BY <2>2, <2>3 DEF Finished
    <2>5. PICK prev : prev = PrevOf(rows, k, at)
        OBVIOUS
    <2>6. prev.end \in Int
        <3>1. CASE k = 1
            BY <2>5, <3>1 DEF PrevOf
        <3>2. CASE k # 1
            <4>1. k - 1 \in 1 .. n
                BY <3>2
            <4>2. rows[k - 1] \in Row
                BY <1>2, <4>1, ElementOfSeq
            <4> QED  BY <2>5, <3>2, <4>2 DEF PrevOf, Row
        <3> QED  BY <3>1, <3>2
    <2>7. PICK r : r = rows[k] /\ r = RowOf(p, f, prev, at)
        BY <1>1, <2>1, <2>3, <2>5 DEF Scheduled
    <2> QED  BY <2>2, <2>4, <2>5, <2>6, <2>7, PlacedRow
<1> QED  BY <1>2, <1>3 DEF RowsPlaced

-----------------------------------------------------------------------------
(* Least and greatest.                                                       *)

LEMMA LeastOf ==
    ASSUME NEW n \in Nat, n >= 1, NEW a \in [1 .. n -> Int]
    PROVE  \E j \in 1 .. n : \A k \in 1 .. n : a[j] <= a[k]
<1> DEFINE Fine == {m \in Nat : m <= n /\ \E j \in 1 .. m : \A k \in 1 .. m : a[j] <= a[k]}
<1>1. 1 \in Fine
    <2>1. 1 \in 1 .. 1 /\ a[1] \in Int /\ \A k \in 1 .. 1 : k = 1
        OBVIOUS
    <2>2. \A k \in 1 .. 1 : a[1] <= a[k]
        BY <2>1
    <2> QED  BY <2>1, <2>2
<1>2. ASSUME NEW m \in 1 .. n - 1, m \in Fine PROVE m + 1 \in Fine
    <2>1. PICK j \in 1 .. m : \A k \in 1 .. m : a[j] <= a[k]
        BY <1>2
    <2>2. m + 1 \in 1 .. n /\ m + 1 \in Nat /\ j \in 1 .. m + 1 /\ j \in 1 .. n /\ m + 1 \in 1 .. m + 1
        OBVIOUS
    <2>3. a[j] \in Int /\ a[m + 1] \in Int /\ \A k \in 1 .. m : a[k] \in Int
        BY <2>2
    <2>4. \A k \in 1 .. m + 1 : k \in 1 .. m \/ k = m + 1
        OBVIOUS
    <2>5. CASE a[j] <= a[m + 1]
        <3>1. \A k \in 1 .. m + 1 : a[j] <= a[k]
            BY <2>1, <2>4, <2>5
        <3> QED  BY <2>2, <3>1
    <2>6. CASE a[m + 1] < a[j]
        <3>1. \A k \in 1 .. m : a[m + 1] <= a[k]
            BY <2>1, <2>3, <2>6
        <3>2. \A k \in 1 .. m + 1 : a[m + 1] <= a[k]
            BY <2>3, <2>4, <3>1
        <3> QED  BY <2>2, <3>2
    <2> QED  BY <2>3, <2>5, <2>6
<1>3. 1 .. n \subseteq Fine
    <2> HIDE DEF Fine
    <2> QED  BY <1>1, <1>2, Climb
<1>4. n \in Fine
    <2>1. n \in 1 .. n
        OBVIOUS
    <2> HIDE DEF Fine
    <2> QED  BY <1>3, <2>1
<1> QED  BY <1>4

LEMMA BoundOf ==
    ASSUME NEW n \in Nat, NEW a \in [1 .. n -> Int]
    PROVE  \E b \in Int : \A k \in 1 .. n : a[k] <= b
<1>1. CASE n = 0
    BY <1>1
<1>2. CASE n >= 1
    <2>1. PICK c \in [1 .. n -> Int] : \A k \in 1 .. n : c[k] = -a[k]
        <3>1. [k \in 1 .. n |-> -a[k]] \in [1 .. n -> Int]
            OBVIOUS
        <3> QED  BY <3>1
    <2>2. PICK j \in 1 .. n : \A k \in 1 .. n : c[j] <= c[k]
        BY <1>2, LeastOf
    <2>3. \A k \in 1 .. n : a[k] <= a[j]
        BY <2>1, <2>2
    <2> QED  BY <2>3
<1> QED  BY <1>1, <1>2

LEMMA MaxIs ==
    ASSUME NEW S \in SUBSET Int, S # {}, NEW b \in Int, \A s \in S : s <= b
    PROVE  Max(S) \in S /\ \A s \in S : s <= Max(S)
<1> DEFINE T == {b - s : s \in S}
<1>1. T \in SUBSET Nat /\ T # {}
    <2>1. \A s \in S : b - s \in Nat
        OBVIOUS
    <2>2. PICK s : s \in S
        OBVIOUS
    <2>3. b - s \in T
        BY <2>2
    <2> QED  BY <2>1, <2>3
<1>2. PICK t \in T : \A o \in T : t <= o
    <2> HIDE DEF T
    <2> QED  BY <1>1, Lowest
<1>3. PICK m \in S : t = b - m
    BY <1>2
<1>4. \A s \in S : b - m <= b - s
    BY <1>2, <1>3
<1>5. ASSUME NEW s \in S PROVE m >= s
    <2>1. s \in Int /\ m \in Int /\ b - m <= b - s
        BY <1>4
    <2> QED  BY <2>1
<1>6. Max(S) \in S /\ \A s \in S : Max(S) >= s
    BY <1>5, Zenon DEF Max
<1>7. \A s \in S : s \in Int
    OBVIOUS
<1> QED  BY <1>6, <1>7

LEMMA BeginsIs ==
    ASSUME NEW n \in Nat, NEW at \in Int, NEW rows, RowsPlaced(rows, n, at), n >= 1
    PROVE  /\ Begins(rows) \in Int
           /\ \E k \in 1 .. n : Begins(rows) = rows[k].start
           /\ \A k \in 1 .. n : Begins(rows) <= rows[k].start
<1>1. rows \in Seq(Row) /\ Len(rows) = n /\ \A k \in 1 .. n : rows[k].start \in Int
    BY DEF RowsPlaced, Placed
<1>2. PICK a \in [1 .. n -> Int] : \A k \in 1 .. n : a[k] = rows[k].start
    <2>1. [k \in 1 .. n |-> rows[k].start] \in [1 .. n -> Int]
        BY <1>1
    <2> QED  BY <2>1
<1>3. PICK j \in 1 .. n : \A k \in 1 .. n : a[j] <= a[k]
    BY <1>2, LeastOf
<1>4. PICK S : S = {r.start : r \in Range(rows)}
    OBVIOUS
<1>5. S = {rows[k].start : k \in 1 .. n}
    <2>1. DOMAIN rows = 1 .. n
        BY <1>1, LenProperties
    <2>2. Range(rows) = {rows[k] : k \in 1 .. n}
        BY <2>1 DEF Range
    <2> QED  BY <1>4, <2>2
<1>6. a[j] \in S /\ \A s \in S : a[j] <= s
    BY <1>2, <1>3, <1>5
<1>7. Min(S) \in S /\ \A s \in S : Min(S) <= s
    BY <1>6, Zenon DEF Min
<1>8. Begins(rows) = Min(S)
    BY <1>4 DEF Begins
<1> QED  BY <1>1, <1>5, <1>7, <1>8

-----------------------------------------------------------------------------
(* The days of the chain: what is drawn of a row, and that it covers it.     *)

LEMMA PlannedEndIs ==
    ASSUME NEW r, NEW prev, NEW at \in Int, Placed(r, prev, at)
    PROVE  PlannedEnd(r) \in Int /\ PlannedEnd(r) = r.start + Full(r.phase)
<1>1. PlannedEnd(r) = r.start + Full(r.phase)
    BY DEF PlannedEnd, Full
<1> QED  BY <1>1 DEF Placed

Drawn(s) ==
    /\ s.from \in Int /\ s.to \in Int
    /\ \/ s.state \in {"done", "elapsed", "over"} /\ s.to <= now
       \/ s.state \in {"forecast", "forecastOver", "scheduled"} /\ s.from >= now

LEMMA SpansAreDrawn ==
    ASSUME NEW r, NEW prev, now \in Int, Placed(r, prev, now), NEW s \in Spans(r)
    PROVE  Drawn(s)
<1>1. PICK tick \in Int : tick = PlannedEnd(r)
    BY PlannedEndIs
<1>2. r.start \in Int /\ r.end \in Int /\ prev.end \in Int
    BY DEF Placed
<1>3. CASE r.kind = "done"
    <2>1. s \in {[state |-> "done", from |-> r.start, to |-> Sooner(r.end, tick)],
                [state |-> "over", from |-> tick, to |-> r.end]}
        BY <1>1, <1>3 DEF Spans
    <2>2. r.end <= now /\ Sooner(r.end, tick) \in Int /\ Sooner(r.end, tick) <= r.end
        BY <1>1, <1>2, <1>3 DEF Placed, Sooner
    <2> QED  BY <1>1, <1>2, <2>1, <2>2 DEF Drawn
<1>4. CASE r.kind = "active"
    <2>1. PICK late : late \in {"forecastOver", "forecast"} /\
             s \in {[state |-> "elapsed", from |-> r.start, to |-> Sooner(now, tick)],
                   [state |-> "over", from |-> tick, to |-> now],
                   [state |-> "forecast", from |-> now, to |-> Sooner(r.end, tick)],
                   [state |-> late, from |-> Later(now, tick), to |-> r.end]}
        BY <1>1, <1>4 DEF Spans
    <2>2. /\ Sooner(now, tick) \in Int /\ Sooner(now, tick) <= now /\ Sooner(r.end, tick) \in Int
          /\ Later(now, tick) \in Int /\ Later(now, tick) >= now
        BY <1>1, <1>2 DEF Sooner, Later
    <2> QED  BY <1>1, <1>2, <2>1, <2>2 DEF Drawn
<1>5. CASE r.kind = "notStarted"
    <2>1. s = [state |-> "scheduled", from |-> r.start, to |-> r.end]
        BY <1>5 DEF Spans
    <2>2. r.start >= now
        BY <1>2, <1>5 DEF Placed, EarliestStart, Later
    <2> QED  BY <1>2, <2>1, <2>2 DEF Drawn
<1> QED  BY <1>3, <1>4, <1>5 DEF Placed

Covers(s, x) == s.from \in Int /\ s.to \in Int /\ s.from <= x /\ x < s.to

\* A finished phase is past its plan at x, by less than half a day.
Slipped(r, x) ==
    /\ r.kind = "done" /\ ~IsRealizedOverrun(r)
    /\ PlannedEnd(r) <= x /\ 2 * (r.end - PlannedEnd(r)) < Ticks

LEMMA SpansCover ==
    ASSUME NEW r, NEW prev, now \in Int, Placed(r, prev, now), NEW x \in Int,
           r.start <= x, x < r.end
    PROVE  (\E s \in Spans(r) : Covers(s, x)) \/ Slipped(r, x)
<1>1. PICK tick \in Int : tick = PlannedEnd(r) /\ tick = r.start + Full(r.phase)
    BY PlannedEndIs
<1>2. PICK start, end \in Int : start = r.start /\ end = r.end
    BY DEF Placed
<1>3. CASE r.kind = "done"
    <2>1. CASE x < tick
        <3>1. PICK s : s = [state |-> "done", from |-> start, to |-> Sooner(end, tick)]
            OBVIOUS
        <3>2. Covers(s, x)
            BY <1>1, <1>2, <2>1, <3>1 DEF Covers, Sooner
        <3>3. s \in Spans(r)
            BY <1>1, <1>2, <1>3, <3>1, <3>2 DEF Spans, Covers
        <3> QED  BY <3>2, <3>3
    <2>2. CASE tick <= x /\ IsRealizedOverrun(r)
        <3>1. PICK s : s = [state |-> "over", from |-> tick, to |-> end]
            OBVIOUS
        <3>2. Covers(s, x)
            BY <1>1, <1>2, <2>2, <3>1 DEF Covers
        <3>3. s \in Spans(r)
            BY <1>1, <1>2, <1>3, <2>2, <3>1, <3>2 DEF Spans, Covers
        <3> QED  BY <3>2, <3>3
    <2>3. CASE tick <= x /\ ~IsRealizedOverrun(r)
        <3>1. r.variance \in Int /\ Rounds(r.variance, end - start - Full(r.phase))
            BY <1>2, <1>3 DEF Placed
        <3>2. r.variance <= 0
            BY <1>3, <2>3, <3>1 DEF IsRealizedOverrun
        <3>3. PICK w \in Int : w = Worth(r.variance) /\ w <= 0
            <4>1. Worth(r.variance) <= Worth(0) /\ Worth(r.variance) \in Int
                BY <3>1, <3>2, WorthIs, WorthUp
            <4> QED  BY <4>1, WorthOf
        <3>4. Full(r.phase) \in Nat
            BY DEF Placed
        <3>5. 2 * (end - start - Full(r.phase)) < w + Ticks
            BY <3>1, <3>3 DEF Rounds
        <3>6. end - start - Full(r.phase) = end - tick
            <4>1. PICK full \in Nat : full = Full(r.phase)
                BY <3>4
            <4>2. tick = start + full
                BY <1>1, <1>2, <4>1
            <4> QED  BY <4>1, <4>2
        <3>7. 2 * (end - tick) < Ticks
            BY <3>3, <3>5, <3>6, TicksTyped
        <3> QED  BY <1>1, <1>2, <1>3, <2>3, <3>7 DEF Slipped
    <2> QED  BY <1>1, <2>1, <2>2, <2>3
<1>4. CASE r.kind = "active"
    <2> DEFINE late == IF IsForecastOver(r) THEN "forecastOver" ELSE "forecast"
               all == {[state |-> "elapsed", from |-> start, to |-> Sooner(now, tick)],
                       [state |-> "over", from |-> tick, to |-> now],
                       [state |-> "forecast", from |-> now, to |-> Sooner(end, tick)],
                       [state |-> late, from |-> Later(now, tick), to |-> end]}
    <2>1. Spans(r) = {s \in all : s.to > s.from}
        BY <1>1, <1>2, <1>4 DEF Spans
    <2>2. \E s \in all : Covers(s, x)
        <3>1. CASE x < now /\ x < tick
            BY <1>1, <1>2, <3>1 DEF Covers, Sooner
        <3>2. CASE x < now /\ tick <= x
            BY <1>1, <1>2, <3>2 DEF Covers
        <3>3. CASE now <= x /\ x < tick
            BY <1>1, <1>2, <3>3 DEF Covers, Sooner
        <3>4. CASE now <= x /\ tick <= x
            BY <1>1, <1>2, <3>4 DEF Covers, Later
        <3> QED  BY <1>1, <3>1, <3>2, <3>3, <3>4
    <2> HIDE DEF all
    <2>3. PICK s \in all : Covers(s, x)
        BY <2>2
    <2>4. s.to > s.from
        BY <2>3 DEF Covers
    <2> QED  BY <2>1, <2>3, <2>4
<1>5. CASE r.kind = "notStarted"
    <2>1. PICK s : s = [state |-> "scheduled", from |-> start, to |-> end]
        OBVIOUS
    <2>2. Covers(s, x)
        BY <1>2, <2>1 DEF Covers
    <2>3. s \in Spans(r)
        BY <1>2, <1>5, <2>1, <2>2 DEF Spans, Covers
    <2> QED  BY <2>2, <2>3
<1> QED  BY <1>3, <1>4, <1>5 DEF Placed

\* A day lasts from its midnight to the next one; days follow one another.
LEMMA MidnightIs ==
    ASSUME NEW d \in Int
    PROVE  Midnight(d) \in Int /\ EndOfDay(d) \in Int /\ EndOfDay(d) = Midnight(d) + Ticks
<1>1. PICK p \in Int : p = Ticks * d
    BY TicksTyped
<1>2. Ticks * (d + 1) = p + Ticks
    BY <1>1, TicksTyped
<1> QED  BY <1>1, <1>2, TicksTyped DEF Midnight, EndOfDay

LEMMA MidnightsPass ==
    ASSUME NEW d \in Int, NEW e \in Int, d <= e
    PROVE  Midnight(d) <= Midnight(e) /\ EndOfDay(d) <= EndOfDay(e)
<1>1. Midnight(d) <= Midnight(e)
    BY Multiples, TicksTyped DEF Midnight
<1> QED  BY <1>1, MidnightIs, TicksTyped

LEMMA NextDay ==
    ASSUME NEW d \in Int, NEW e \in Int, d < e
    PROVE  EndOfDay(d) <= Midnight(e)
<1>1. d + 1 \in Int /\ d + 1 <= e
    OBVIOUS
<1> QED  BY <1>1, MidnightsPass DEF EndOfDay

LEMMA DayEnds ==
    ASSUME NEW t \in Int
    PROVE  DayOf(t) \in Int /\ Midnight(DayOf(t)) <= t /\ t < EndOfDay(DayOf(t))
<1>1. PICK q \in Int : q = t \div Ticks /\ Ticks * q <= t /\ t < Ticks * q + Ticks
    BY Quotient, TicksTyped
<1>2. EndOfDay(q) = Midnight(q) + Ticks
    BY MidnightIs
<1> QED  BY <1>1, <1>2 DEF DayOf, Midnight

LEMMA OverlapIs ==
    ASSUME NEW d \in Int, NEW from \in Int, NEW to \in Int
    PROVE  /\ Overlap(d, from, to) \in Int /\ Overlap(d, from, to) <= Ticks
           /\ Overlap(d, from, to) > 0 => from < EndOfDay(d) /\ to > Midnight(d)
           /\ \A x \in Int :
                from <= x /\ x < to /\ Midnight(d) <= x /\ x < EndOfDay(d) => Overlap(d, from, to) > 0
<1>1. PICK a \in Int : a = Midnight(d)
    BY MidnightIs
<1>2. PICK b \in Int : b = EndOfDay(d) /\ b = a + Ticks
    BY <1>1, MidnightIs
<1>3. Overlap(d, from, to) = Sooner(b, to) - Later(a, from)
    BY <1>1, <1>2 DEF Overlap
<1> QED  BY <1>1, <1>2, <1>3, TicksTyped DEF Sooner, Later

Seen(r, d) == {s \in Spans(r) : Overlap(d, s.from, s.to) > 0}
Wins(s, o, d) ==
    LET a == Overlap(d, s.from, s.to)
        b == Overlap(d, o.from, o.to)
    IN  a > b \/ (a = b /\ s.from >= o.from)

LEMMA SomeoneWins ==
    ASSUME NEW d \in Int, NEW S, S # {},
           \A s \in S : s.from \in Int /\ s.to \in Int /\ Overlap(d, s.from, s.to) > 0
    PROVE  \E s \in S : \A o \in S : Wins(s, o, d)
<1> DEFINE share(s) == Overlap(d, s.from, s.to)
<1>1. \A s \in S : share(s) \in Int /\ share(s) <= Ticks /\ s.from \in Int /\ s.from < EndOfDay(d)
    BY OverlapIs
<1> DEFINE A == {share(s) : s \in S}
<1>2. Max(A) \in A /\ \A a \in A : a <= Max(A)
    <2>1. A \in SUBSET Int /\ A # {} /\ \A a \in A : a <= Ticks
        <3> HIDE DEF share
        <3> QED  BY <1>1
    <2> HIDE DEF A
    <2>2. PICK top \in Int : top = Ticks /\ \A a \in A : a <= top
        BY <2>1, TicksTyped
    <2> QED  BY <2>1, <2>2, MaxIs
<1>3. PICK m : m = Max(A) /\ m \in A /\ \A s \in S : share(s) <= m
    BY <1>2
<1> DEFINE T == {s \in S : share(s) = m}
           B == {s.from : s \in T}
<1>4. Max(B) \in B /\ \A b \in B : b <= Max(B)
    <2>1. PICK top \in Int : top = EndOfDay(d)
        BY MidnightIs
    <2>2. B \in SUBSET Int /\ B # {} /\ \A b \in B : b <= top
        <3>1. \A s \in T : s.from \in Int /\ s.from <= top
            BY <1>1, <2>1
        <3>2. T # {}
            BY <1>3
        <3> HIDE DEF T
        <3> QED  BY <3>1, <3>2
    <2> HIDE DEF B
    <2> QED  BY <2>1, <2>2, MaxIs
<1>5. PICK s \in T : \A o \in T : o.from <= s.from
    BY <1>4
<1>6. ASSUME NEW o \in S PROVE Wins(s, o, d)
    <2>1. s \in S /\ share(s) = m
        BY <1>5
    <2>2. s.from \in Int /\ o.from \in Int /\ share(o) \in Int /\ share(s) \in Int
          /\ share(o) <= share(s)
        BY <1>1, <1>3, <2>1
    <2>3. CASE share(o) = share(s)
        <3>1. o.from <= s.from
            BY <1>5, <2>1, <2>3
        <3> QED  BY <2>2, <2>3, <3>1 DEF Wins
    <2>4. CASE share(o) < share(s)
        BY <2>2, <2>4 DEF Wins
    <2> QED  BY <2>2, <2>3, <2>4
<1> QED  BY <1>5, <1>6

LEMMA StatesAre ==
    ASSUME NEW rows, NEW d
    PROVE  /\ \A state \in StatesOn(rows, d) :
                \E r \in Range(rows) : \E s \in Seen(r, d) : state = s.state
           /\ \A r \in Range(rows) :
                (\E s \in Seen(r, d) : \A o \in Seen(r, d) : Wins(s, o, d)) => StatesOn(rows, d) # {}
<1> DEFINE best(r) == {x \in Seen(r, d) : \A o \in Seen(r, d) : Wins(x, o, d)}
<1>1. StatesOn(rows, d) = UNION {{s.state : s \in best(r)} : r \in Range(rows)}
    BY DEF StatesOn, Seen, Wins
<1>2. ASSUME NEW state \in StatesOn(rows, d)
      PROVE  \E r \in Range(rows) : \E s \in Seen(r, d) : state = s.state
    BY <1>1, <1>2
<1>3. ASSUME NEW r \in Range(rows), NEW s \in best(r) PROVE StatesOn(rows, d) # {}
    <2>1. s.state \in StatesOn(rows, d)
        BY <1>1, <1>3
    <2> QED  BY <2>1
<1> QED  BY <1>2, <1>3

-----------------------------------------------------------------------------
(* The moves of the buffer, and the last day they reach.                     *)

AMove == [days : Int, from : Int, to : Int]

LEMMA NoDays ==
    ASSUME NEW x \in Int, 0 <= x, x <= 0
    PROVE  -x = 0
OBVIOUS

LEMMA OwnMoveIs ==
    ASSUME NEW r, NEW prev, NEW at \in Int, Placed(r, prev, at)
    PROVE  /\ OwnMove(r, at) \in AMove /\ OwnMove(r, at).days = -Own(r) /\ Own(r) \in Int
           /\ OwnMove(r, at).days # 0 => OwnMove(r, at).from <= OwnMove(r, at).to
<1>1. PICK tick \in Int : tick = PlannedEnd(r) /\ tick = r.start + Full(r.phase)
    BY PlannedEndIs
<1>2. PICK start, end, v \in Int : start = r.start /\ end = r.end /\ v = r.variance
    BY DEF Placed
<1>3. PICK m : m = OwnMove(r, at)
    OBVIOUS
<1>4. r.kind \in {"done", "active", "notStarted"}
    BY DEF Placed
<1>5. CASE IsRealizedOverrun(r)
    <2>1. r.kind = "done" /\ v >= 1
        BY <1>2, <1>5 DEF IsRealizedOverrun
    <2>0. ~IsRealizedUnderrun(r) /\ ~IsForecastOver(r) /\ ~IsForecastUnder(r)
        BY <1>2, <2>1 DEF IsRealizedUnderrun, IsForecastOver, IsForecastUnder
    <2>2. m = [days |-> -v, from |-> tick, to |-> end]
        BY <1>1, <1>2, <1>3, <1>5, <2>0 DEF OwnMove, Move
    <2>3. tick <= end
        <3>1. PICK full \in Nat : full = Full(r.phase)
            BY DEF Placed
        <3>2. PICK span \in Int : span = end - start - full
            OBVIOUS
        <3>3. Rounds(v, span)
            BY <1>2, <2>1, <3>1, <3>2 DEF Placed
        <3>4. span >= 1
            BY <2>1, <3>3, SomethingOfIt
        <3> QED  BY <1>1, <1>2, <3>1, <3>2, <3>4
    <2>4. Own(r) = v
        BY <1>2, <2>1 DEF Own, Counts
    <2> QED  BY <1>3, <2>2, <2>3, <2>4 DEF AMove
<1>6. CASE IsRealizedUnderrun(r)
    <2>1. r.kind = "done" /\ v <= -1
        BY <1>2, <1>6 DEF IsRealizedUnderrun
    <2>0. ~IsRealizedOverrun(r) /\ ~IsForecastOver(r) /\ ~IsForecastUnder(r)
        BY <1>2, <2>1 DEF IsRealizedOverrun, IsForecastOver, IsForecastUnder
    <2>2. m = [days |-> -v, from |-> end, to |-> end]
        BY <1>2, <1>3, <1>6, <2>0 DEF OwnMove, Move
    <2>3. Own(r) = v
        BY <1>2, <2>1 DEF Own, Counts
    <2> QED  BY <1>3, <2>2, <2>3 DEF AMove
<1>7. CASE IsForecastOver(r)
    <2>1. r.kind = "active" /\ v >= 2
        BY <1>2, <1>7 DEF IsForecastOver, ForecastNoise
    <2>0. ~IsRealizedOverrun(r) /\ ~IsRealizedUnderrun(r) /\ ~IsForecastUnder(r)
        BY <1>2, <2>1 DEF IsRealizedOverrun, IsRealizedUnderrun, IsForecastUnder, ForecastNoise
    <2>2. PICK from \in Int : from = Later(at, tick)
        BY DEF Later
    <2>3. PICK to \in Int : to = Later(from, end) /\ from <= to
        BY DEF Later
    <2>4. m = [days |-> -v, from |-> from, to |-> to]
        BY <1>1, <1>2, <1>3, <1>7, <2>0, <2>2, <2>3 DEF OwnMove, ForecastSpending, Move
    <2>5. Own(r) = v
        BY <1>2, <2>1 DEF Own, Counts, ForecastNoise, Size
    <2> QED  BY <1>3, <2>3, <2>4, <2>5 DEF AMove
<1>8. CASE IsForecastUnder(r)
    <2>1. r.kind = "active" /\ v <= -2
        BY <1>2, <1>8 DEF IsForecastUnder, ForecastNoise
    <2>0. ~IsRealizedOverrun(r) /\ ~IsRealizedUnderrun(r) /\ ~IsForecastOver(r)
        BY <1>2, <2>1 DEF IsRealizedOverrun, IsRealizedUnderrun, IsForecastOver, ForecastNoise
    <2>2. PICK back \in Int : back = Later(at, end)
        BY DEF Later
    <2>3. m = [days |-> -v, from |-> back, to |-> back]
        BY <1>2, <1>3, <1>8, <2>0, <2>2 DEF OwnMove, Move
    <2>4. Own(r) = v
        BY <1>2, <2>1 DEF Own, Counts, ForecastNoise, Size
    <2> QED  BY <1>3, <2>3, <2>4 DEF AMove
<1>9. CASE ~(\/ IsRealizedOverrun(r) \/ IsRealizedUnderrun(r)
             \/ IsForecastOver(r) \/ IsForecastUnder(r))
    <2>1. m = [days |-> 0, from |-> start, to |-> start]
        BY <1>2, <1>3, <1>9 DEF OwnMove, NoMove, Move
    <2>2. Own(r) = 0
        <3>1. CASE r.kind = "done"
            <4>1. ~(v >= 1) /\ ~(v <= -1)
                BY <1>2, <1>9, <3>1 DEF IsRealizedOverrun, IsRealizedUnderrun
            <4> QED  BY <1>2, <4>1 DEF Own
        <3>2. CASE r.kind = "active"
            <4>1. ~(v >= 2) /\ ~(v <= -2)
                BY <1>2, <1>9, <3>2 DEF IsForecastOver, IsForecastUnder, ForecastNoise
            <4>2. ~Counts(r)
                BY <1>2, <3>2, <4>1 DEF Counts, Size, ForecastNoise
            <4> QED  BY <4>2 DEF Own
        <3>3. CASE r.kind = "notStarted"
            BY <3>3 DEF Own, Counts
        <3> QED  BY <1>4, <3>1, <3>2, <3>3
    <2>3. m \in AMove /\ m.days = 0
        BY <2>1 DEF AMove
    <2>4. Own(r) \in Int /\ -Own(r) = 0
        <3>1. PICK x \in Int : x = Own(r) /\ 0 <= x /\ x <= 0
            BY <2>2
        <3>2. -x = 0
            BY <3>1, NoDays
        <3> QED  BY <3>1, <3>2, Zenon
    <2> QED  BY <1>3, <2>3, <2>4
<1> QED  BY <1>5, <1>6, <1>7, <1>8, <1>9

LEMMA IdleMoveIs ==
    ASSUME NEW n \in Nat, NEW at \in Int, NEW rows, RowsPlaced(rows, n, at), NEW k \in 1 .. n
    PROVE  /\ IdleMove(rows, k) \in AMove /\ IdleMove(rows, k).days = -rows[k].gap
           /\ IdleMove(rows, k).days # 0 => IdleMove(rows, k).from <= IdleMove(rows, k).to
           /\ rows[k].gap >= 1 =>
                k # 1 /\ IdleMove(rows, k) = [days |-> -rows[k].gap, from |-> rows[k - 1].end,
                                             to |-> rows[k].start]
<1>1. PICK r, prev : r = rows[k] /\ prev = PrevOf(rows, k, at) /\ Placed(r, prev, at)
    BY DEF RowsPlaced
<1>2. PICK m : m = IdleMove(rows, k)
    OBVIOUS
<1>3. r.gap \in Nat /\ r.start \in Int /\ prev.end \in Int
    BY <1>1 DEF Placed
<1>4. CASE r.gap >= 1
    <2>1. prev.kind = "done" /\ r.start > prev.end
        BY <1>1, <1>4 DEF Placed
    <2>2. k # 1
        BY <1>1, <2>1 DEF PrevOf
    <2>3. prev = rows[k - 1]
        BY <1>1, <2>2 DEF PrevOf
    <2>4. k \in Gaps(rows)
        BY <1>1, <1>4, <2>2 DEF Gaps, RowsPlaced
    <2>5. m = [days |-> -r.gap, from |-> prev.end, to |-> r.start]
        BY <1>1, <1>2, <2>3, <2>4 DEF IdleMove, Move
    <2> QED  BY <1>1, <1>2, <1>3, <2>1, <2>2, <2>3, <2>5 DEF AMove
<1>5. CASE ~(r.gap >= 1)
    <2>1. r.gap = 0
        BY <1>3, <1>5
    <2>2. k \notin Gaps(rows)
        BY <1>1, <1>5 DEF Gaps
    <2>3. m = [days |-> 0, from |-> r.start, to |-> r.start]
        BY <1>1, <1>2, <2>2 DEF IdleMove, NoMove, Move
    <2>4. m \in AMove /\ m.days = 0
        BY <1>3, <2>3 DEF AMove
    <2>5. -r.gap = 0
        <3>1. PICK x \in Int : x = r.gap /\ 0 <= x /\ x <= 0
            BY <2>1
        <3>2. -x = 0
            BY <3>1, NoDays
        <3> QED  BY <3>1, <3>2, Zenon
    <2> QED  BY <1>1, <1>2, <1>5, <2>4, <2>5
<1> QED  BY <1>4, <1>5

\* What moved the buffer, by row.
LEMMA MovesAre ==
    ASSUME NEW n \in Nat, NEW at \in Int, NEW rows, RowsPlaced(rows, n, at), NEW k \in 1 .. n
    PROVE  IdleMove(rows, k) \in AMove /\ OwnMove(rows[k], at) \in AMove
BY IdleMoveIs, OwnMoveIs DEF RowsPlaced

LEMMA AboveFour ==
    ASSUME NEW x \in Int, NEW y \in Int, NEW v \in Int, NEW w \in Int
    PROVE  \E z \in Int : x <= z /\ y <= z /\ v <= z /\ w <= z
<1>1. PICK a \in Int : x <= a /\ y <= a
    OBVIOUS
<1>2. PICK b \in Int : a <= b /\ v <= b
    OBVIOUS
<1>3. PICK c \in Int : b <= c /\ w <= c
    OBVIOUS
<1> QED  BY <1>1, <1>2, <1>3

LEMMA LastDayIs ==
    ASSUME NEW n \in Nat, NEW at \in Int, NEW rows, RowsPlaced(rows, n, at), n >= 1
    PROVE  /\ LastDay(rows, at) \in Int
           /\ \A m \in Moves(rows, at) : m.to < EndOfDay(LastDay(rows, at))
<1>1. ASSUME NEW k \in 1 .. n
      PROVE  IdleMove(rows, k).to \in Int /\ OwnMove(rows[k], at).to \in Int
    <2>1. IdleMove(rows, k) \in AMove /\ OwnMove(rows[k], at) \in AMove
        BY MovesAre
    <2> QED  BY <2>1 DEF AMove
<1>2. PICK a \in [1 .. n -> Int] : \A k \in 1 .. n : a[k] = IdleMove(rows, k).to
    <2>1. [k \in 1 .. n |-> IdleMove(rows, k).to] \in [1 .. n -> Int]
        BY <1>1
    <2> QED  BY <2>1
<1>3. PICK c \in [1 .. n -> Int] : \A k \in 1 .. n : c[k] = OwnMove(rows[k], at).to
    <2>1. [k \in 1 .. n |-> OwnMove(rows[k], at).to] \in [1 .. n -> Int]
        BY <1>1
    <2> QED  BY <2>1
<1>4. PICK x \in Int : \A k \in 1 .. n : a[k] <= x
    BY <1>2, BoundOf
<1>5. PICK y \in Int : \A k \in 1 .. n : c[k] <= y
    BY <1>3, BoundOf
<1>6. PICK finish \in Int : finish = Finish(rows)
    <2>1. rows \in Seq(Row) /\ Len(rows) = n /\ n \in 1 .. n
        BY DEF RowsPlaced
    <2>2. rows # <<>>
        BY <2>1, EmptySeq
    <2>3. Finish(rows) = rows[n].end
        BY <2>1, <2>2 DEF Finish, Last
    <2>4. rows[n].end \in Int
        BY <2>1 DEF RowsPlaced, Placed
    <2> QED  BY <2>3, <2>4
<1> DEFINE S == {at, finish} \cup {m.to : m \in Moves(rows, at)}
<1>7. ASSUME NEW m \in Moves(rows, at) PROVE m.to \in Int /\ (m.to <= x \/ m.to <= y)
    <2>1. PICK k \in 1 .. Len(rows) : m = IdleMove(rows, k) \/ m = OwnMove(rows[k], at)
        BY <1>7 DEF Moves
    <2>2. k \in 1 .. n
        BY <2>1 DEF RowsPlaced
    <2>3. (m.to = a[k] \/ m.to = c[k]) /\ a[k] \in Int /\ c[k] \in Int
        BY <1>2, <1>3, <2>1, <2>2
    <2> QED  BY <1>4, <1>5, <2>2, <2>3
<1>8. PICK z \in Int : x <= z /\ y <= z /\ at <= z /\ finish <= z
    BY AboveFour
<1>9. S \in SUBSET Int /\ S # {} /\ \A s \in S : s <= z
    <2>1. ASSUME NEW m \in Moves(rows, at) PROVE m.to \in Int /\ m.to <= z
        <3>1. PICK to \in Int : to = m.to /\ (to <= x \/ to <= y)
            BY <1>7
        <3> QED  BY <1>8, <3>1
    <2> QED  BY <1>8, <2>1
<1>10. PICK top \in Int : top = Max(S) /\ \A s \in S : s <= top
    <2> HIDE DEF S
    <2> QED  BY <1>9, MaxIs
<1>11. LastDay(rows, at) = DayOf(top)
    BY <1>6, <1>10 DEF LastDay
<1>12. ASSUME NEW m \in Moves(rows, at) PROVE m.to < EndOfDay(LastDay(rows, at))
    <2>1. m.to \in Int /\ m.to <= top
        BY <1>7, <1>10
    <2>2. top < EndOfDay(DayOf(top)) /\ EndOfDay(DayOf(top)) \in Int
        <3>1. DayOf(top) \in Int /\ top < EndOfDay(DayOf(top))
            BY DayEnds
        <3>2. EndOfDay(DayOf(top)) \in Int
            BY <3>1, MidnightIs
        <3> QED  BY <3>1, <3>2
    <2> QED  BY <1>11, <2>1, <2>2
<1> QED  BY <1>11, <1>12, DayEnds

-----------------------------------------------------------------------------
(* Every day of a chain that was worked in order.                            *)

LEMMA SomethingThen ==
    ASSUME NEW n \in Nat, n >= 1, now \in Int, NEW rows, RowsPlaced(rows, n, now), InTurn(rows),
           NEW x \in Int, Begins(rows) <= x, x < Finish(rows)
    PROVE  \/ \E k \in 1 .. n : rows[k].start <= x /\ x < rows[k].end
           \/ \E k \in Gaps(rows) : rows[k - 1].end <= x /\ x < rows[k].start
           \/ \E k \in (2 .. n) \ Gaps(rows) :
                /\ rows[k - 1].end <= x /\ x < rows[k].start
                /\ 2 * (rows[k].start - rows[k - 1].end) < Ticks
<1>1. /\ rows \in Seq(Row) /\ Len(rows) = n
      /\ \A k \in 1 .. n : rows[k].start \in Int /\ rows[k].end \in Int
    BY DEF RowsPlaced, Placed
<1> DEFINE K == {k \in 1 .. n : rows[k].start <= x}
<1>2. K # {} /\ K \in SUBSET (1 .. n)
    BY BeginsIs
<1>3. PICK k \in K : \A o \in K : o <= k
    <2> HIDE DEF K
    <2> QED  BY <1>2, Highest
<1>4. CASE x < rows[k].end
    BY <1>3, <1>4
<1>5. CASE rows[k].end <= x
    <2>1. k # n
        <3>1. rows # <<>>
            BY <1>1, EmptySeq
        <3>2. Finish(rows) = rows[n].end
            BY <1>1, <3>1 DEF Finish, Last
        <3>3. rows[n].end \in Int /\ n \in 1 .. n
            BY <1>1
        <3> QED  BY <1>5, <3>2, <3>3
    <2>2. PICK i \in 2 .. n : i = k + 1 /\ i - 1 = k
        BY <1>3, <2>1
    <2>3. i \in 1 .. n /\ k \in 1 .. n /\ i # 1
        BY <2>2
    <2>4. x < rows[i].start
        <3>1. i \notin K
            BY <1>3, <2>2
        <3> QED  BY <1>1, <2>3, <3>1
    <2>5. PICK r, prev : r = rows[i] /\ prev = rows[k]
        OBVIOUS
    <2>6. Placed(r, prev, now)
        <3>1. PrevOf(rows, i, now) = prev
            BY <2>2, <2>3, <2>5 DEF PrevOf
        <3> QED  BY <2>3, <2>5, <3>1 DEF RowsPlaced
    <2>7. Placed(prev, PrevOf(rows, k, now), now)
        BY <2>3, <2>5 DEF RowsPlaced
    <2>8. r.start > prev.end
        BY <1>1, <1>5, <2>3, <2>4, <2>5
    <2>9. prev.kind = "done"
        <3>1. CASE r.kind # "notStarted"
            BY <1>1, <2>2, <2>5, <3>1 DEF InTurn
        <3>2. CASE r.kind = "notStarted" /\ prev.kind = "active"
            <4>1. prev.end \in Int /\ prev.end >= now /\ r.start = EarliestStart(prev, now)
                BY <2>6, <2>7, <3>2 DEF Placed
            <4> QED  BY <2>8, <4>1 DEF EarliestStart, Later
        <3>3. CASE r.kind = "notStarted" /\ prev.kind = "notStarted"
            <4>1. PICK before, full : /\ before.end \in Int /\ full \in Nat
                     /\ prev.start = EarliestStart(before, now) /\ prev.end = prev.start + full
                BY <2>7, <3>3 DEF Placed
            <4>2. prev.start \in Int /\ prev.start >= now
                BY <4>1 DEF EarliestStart, Later
            <4>3. prev.end \in Int /\ prev.end >= now /\ r.start = EarliestStart(prev, now)
                BY <2>6, <3>3, <4>1, <4>2 DEF Placed
            <4> QED  BY <2>8, <4>3 DEF EarliestStart, Later
        <3> QED  BY <2>7, <3>1, <3>2, <3>3 DEF Placed
    <2>10. r.gap \in Nat /\ Rounds(r.gap, r.start - prev.end)
        BY <2>6, <2>8, <2>9 DEF Placed
    <2>11. CASE r.gap >= 1
        <3>1. i \in Gaps(rows)
            BY <1>1, <2>2, <2>5, <2>11 DEF Gaps
        <3> QED  BY <1>5, <2>2, <2>4, <3>1
    <2>12. CASE r.gap = 0
        <3>1. i \in (2 .. n) \ Gaps(rows)
            BY <2>2, <2>5, <2>12 DEF Gaps
        <3>2. 2 * (r.start - prev.end) < Worth(0) + Ticks
            BY <2>10, <2>12 DEF Rounds
        <3>3. 2 * (r.start - prev.end) < Ticks
            BY <3>2, WorthOf, TicksTyped
        <3> QED  BY <1>5, <2>2, <2>4, <2>5, <3>1, <3>3
    <2> QED  BY <2>10, <2>11, <2>12
<1> QED  BY <1>1, <1>3, <1>4, <1>5

LEMMA RowIsSeen ==
    ASSUME NEW r, NEW prev, now \in Int, Placed(r, prev, now), NEW d \in Int, NEW x \in Int,
           Midnight(d) <= x, x < EndOfDay(d), r.start <= x, x < r.end, ~Slipped(r, x)
    PROVE  \E s \in Seen(r, d) : \A o \in Seen(r, d) : Wins(s, o, d)
<1>1. PICK s \in Spans(r) : Covers(s, x)
    BY SpansCover
<1>2. Overlap(d, s.from, s.to) > 0
    <2>1. s.from \in Int /\ s.to \in Int /\ s.from <= x /\ x < s.to
        BY <1>1 DEF Covers
    <2> QED  BY <2>1, OverlapIs
<1>3. PICK S : S = Seen(r, d) /\ S # {}
    BY <1>2 DEF Seen
<1>4. ASSUME NEW o \in S PROVE o.from \in Int /\ o.to \in Int /\ Overlap(d, o.from, o.to) > 0
    <2>1. o \in Spans(r) /\ Overlap(d, o.from, o.to) > 0
        BY <1>3 DEF Seen
    <2> QED  BY <2>1, SpansAreDrawn DEF Drawn
<1> QED  BY <1>3, <1>4, SomeoneWins

LEMMA StatesOfDay ==
    ASSUME NEW n \in Nat, now \in Int, NEW rows, RowsPlaced(rows, n, now), NEW d \in Int,
           NEW state \in StatesOn(rows, d)
    PROVE  /\ d < DayOf(now) => state \in {"done", "elapsed", "over"}
           /\ d > DayOf(now) => state \in {"forecast", "forecastOver", "scheduled"}
<1>0. PICK r \in Range(rows) : \E s \in Seen(r, d) : state = s.state
    BY StatesAre
<1>1. PICK s \in Seen(r, d) : state = s.state
    BY <1>0
<1>2. PICK k \in 1 .. n : r = rows[k]
    <2>1. rows \in Seq(Row) /\ Len(rows) = n
        BY DEF RowsPlaced
    <2> QED  BY <1>0, <2>1 DEF Range
<1>3. Placed(r, PrevOf(rows, k, now), now)
    BY <1>2 DEF RowsPlaced
<1>4. Drawn(s)
    BY <1>1, <1>3, SpansAreDrawn DEF Seen
<1>5. s.from \in Int /\ s.to \in Int /\ s.from < EndOfDay(d) /\ s.to > Midnight(d)
    BY <1>1, <1>4, OverlapIs DEF Drawn, Seen
<1>6. PICK today \in Int : today = DayOf(now) /\ Midnight(today) <= now /\ now < EndOfDay(today)
    BY DayEnds
<1>7. /\ Midnight(d) \in Int /\ EndOfDay(d) = Midnight(d) + Ticks
      /\ Midnight(today) \in Int /\ EndOfDay(today) = Midnight(today) + Ticks
    BY MidnightIs
<1>8. d < today => EndOfDay(d) <= Midnight(today)
    BY NextDay
<1>9. today < d => EndOfDay(today) <= Midnight(d)
    BY <1>6, NextDay
<1>10. d < today => ~(s.from >= now)
    BY <1>5, <1>6, <1>7, <1>8, TicksTyped
<1>11. d > today => ~(s.to <= now)
    BY <1>5, <1>6, <1>7, <1>9, TicksTyped
<1> QED  BY <1>1, <1>4, <1>6, <1>10, <1>11 DEF Drawn

LEMMA ThePage ==
    ASSUME LedgerInv, NEW rows, rows = Schedule(OnPage, now)
    PROVE  /\ now \in Int /\ program \in Programs
           /\ \E n \in Nat : n = Len(PlannedChainOf[program]) /\ RowsPlaced(rows, n, now)
<1>1. LedgerTyped /\ program \in Programs /\ now \in Int
    BY LedgerAssumption DEF LedgerInv, LedgerTyped, Time
<1>2. PICK facts \in [Phase -> Fact] : facts = OnPage
    BY <1>1, FactsTyped
<1>3. PICK n \in Nat : n = Len(PlannedChainOf[program])
    BY <1>1, ChainIsOfPhases, LenProperties
<1>4. Finished(facts, now)
    BY <1>2, PageFinished
<1>5. RowsPlaced(rows, n, now)
    BY <1>1, <1>2, <1>3, <1>4, ScheduleIsPlaced
<1> QED  BY <1>1, <1>3, <1>5

(* Every day until the chain finishes has a phase or an idle handoff to name,   *)
(* where the work went in order, unless less than half a day on it was rounded  *)
(* away; and no day gone by shows a forecast, none to come a fact: for every    *)
(* chain, any estimates and at any resolution of time.                          *)
THEOREM EveryDayIsExplained == Spec => []DaysAreExplained
<1>1. ASSUME LedgerInv PROVE DaysAreExplained
    <2> SUFFICES ASSUME NEW rows, rows = Schedule(OnPage, now), rows # <<>>, InOrder(OnPage, rows),
                        NEW d \in FirstDay(rows) .. LastDay(rows, now)
                 PROVE  LET states == StatesOn(rows, d)
                        IN  /\ Later(Midnight(d), Begins(rows)) < Sooner(EndOfDay(d), Finish(rows)) =>
                                    \/ states # {} \/ GapsOn(rows, d) # {}
                                    \/ \E s \in Unnamed(rows) : Moment(d, s)
                            /\ d < DayOf(now) => states \subseteq {"done", "elapsed", "over"}
                            /\ d > DayOf(now) => states \subseteq {"forecast", "forecastOver", "scheduled"}
        BY DEF DaysAreExplained
    <2>1. now \in Int
        BY <1>1, ThePage
    <2>2. PICK n \in Nat : RowsPlaced(rows, n, now)
        BY <1>1, ThePage
    <2>3. rows \in Seq(Row) /\ Len(rows) = n /\ n >= 1 /\ n \in 1 .. n
        <3>1. rows \in Seq(Row) /\ Len(rows) = n
            BY <2>2 DEF RowsPlaced
        <3> QED  BY <3>1, EmptySeq
    <2>4. d \in Int
        <3>1. Begins(rows) \in Int /\ LastDay(rows, now) \in Int
            BY <2>1, <2>2, <2>3, BeginsIs, LastDayIs
        <3>2. FirstDay(rows) \in Int
            BY <3>1, DayEnds DEF FirstDay
        <3> QED  BY <3>1, <3>2
    <2>5. ASSUME Later(Midnight(d), Begins(rows)) < Sooner(EndOfDay(d), Finish(rows))
          PROVE  \/ StatesOn(rows, d) # {} \/ GapsOn(rows, d) # {}
                 \/ \E s \in Unnamed(rows) : Moment(d, s)
        <3>1. PICK begins, finish \in Int : begins = Begins(rows) /\ finish = Finish(rows)
            <4>1. Finish(rows) = rows[n].end
                BY <2>3 DEF Finish, Last
            <4>2. rows[n].end \in Int
                BY <2>2, <2>3 DEF RowsPlaced, Placed
            <4> QED  BY <2>1, <2>2, <2>3, <4>1, <4>2, BeginsIs
        <3>2. PICK x \in Int : Midnight(d) <= x /\ begins <= x /\ x < EndOfDay(d) /\ x < finish
            <4>1. PICK a \in Int : a = Midnight(d)
                BY <2>4, MidnightIs
            <4>2. PICK b \in Int : b = EndOfDay(d)
                BY <2>4, MidnightIs
            <4>3. Later(a, begins) < Sooner(b, finish)
                BY <2>5, <3>1, <4>1, <4>2
            <4> QED  BY <3>1, <4>1, <4>2, <4>3 DEF Later, Sooner
        <3>3. InTurn(rows)
            BY DEF InOrder, InTurn
        <3>4. CASE \E k \in 1 .. n : rows[k].start <= x /\ x < rows[k].end
            <4>1. PICK k \in 1 .. n : rows[k].start <= x /\ x < rows[k].end
                BY <3>4
            <4>2. PICK r : r = rows[k] /\ r \in Range(rows)
                BY <2>3 DEF Range
            <4>3. Placed(r, PrevOf(rows, k, now), now)
                BY <2>2, <4>2 DEF RowsPlaced
            <4>4. CASE ~Slipped(r, x)
                <5>1. \E s \in Seen(r, d) : \A o \in Seen(r, d) : Wins(s, o, d)
                    BY <2>1, <2>4, <3>2, <4>1, <4>2, <4>3, <4>4, RowIsSeen
                <5> QED  BY <4>2, <5>1, StatesAre
            <4>5. CASE Slipped(r, x)
                <5>1. PICK s : s = [from |-> PlannedEnd(r), to |-> r.end]
                    OBVIOUS
                <5>2. s \in Unnamed(rows)
                    BY <4>2, <4>5, <5>1 DEF Unnamed, Slipped
                <5>3. PlannedEnd(r) \in Int /\ r.end \in Int
                    BY <2>1, <4>3, PlannedEndIs DEF Placed
                <5>4. Overlap(d, PlannedEnd(r), r.end) > 0
                    BY <2>4, <3>2, <4>1, <4>2, <4>5, <5>3, OverlapIs DEF Slipped
                <5>5. Moment(d, s)
                    BY <4>5, <5>1, <5>4 DEF Moment, Slipped
                <5> QED  BY <5>2, <5>5
            <4> QED  BY <4>4, <4>5
        <3>5. CASE \E k \in Gaps(rows) : rows[k - 1].end <= x /\ x < rows[k].start
            <4>1. PICK k \in Gaps(rows) : rows[k - 1].end <= x /\ x < rows[k].start
                BY <3>5
            <4>2. k \in 1 .. n /\ k - 1 \in 1 .. n
                BY <2>3, <4>1 DEF Gaps
            <4>3. rows[k - 1].end \in Int /\ rows[k].start \in Int
                BY <2>2, <4>2 DEF RowsPlaced, Placed
            <4>4. Overlap(d, rows[k - 1].end, rows[k].start) > 0
                BY <2>4, <3>2, <4>1, <4>3, OverlapIs
            <4> QED  BY <4>1, <4>4 DEF GapsOn
        <3>6. CASE \E k \in (2 .. n) \ Gaps(rows) :
                     /\ rows[k - 1].end <= x /\ x < rows[k].start
                     /\ 2 * (rows[k].start - rows[k - 1].end) < Ticks
            <4>1. PICK k \in (2 .. n) \ Gaps(rows) :
                     /\ rows[k - 1].end <= x /\ x < rows[k].start
                     /\ 2 * (rows[k].start - rows[k - 1].end) < Ticks
                BY <3>6
            <4>2. k \in 1 .. n /\ k - 1 \in 1 .. n
                BY <4>1
            <4>3. rows[k - 1].end \in Int /\ rows[k].start \in Int
                BY <2>2, <4>2 DEF RowsPlaced, Placed
            <4>4. PICK s : s = [from |-> rows[k - 1].end, to |-> rows[k].start]
                OBVIOUS
            <4>5. s \in Unnamed(rows)
                BY <2>3, <4>1, <4>4 DEF Unnamed
            <4>6. Overlap(d, rows[k - 1].end, rows[k].start) > 0
                BY <2>4, <3>2, <4>1, <4>3, OverlapIs
            <4>7. Moment(d, s)
                BY <4>1, <4>4, <4>6 DEF Moment
            <4> QED  BY <4>5, <4>7
        <3> QED  BY <2>1, <2>2, <2>3, <3>1, <3>2, <3>3, <3>4, <3>5, <3>6, SomethingThen
    <2>6. \A state \in StatesOn(rows, d) :
              /\ d < DayOf(now) => state \in {"done", "elapsed", "over"}
              /\ d > DayOf(now) => state \in {"forecast", "forecastOver", "scheduled"}
        BY <2>1, <2>2, <2>4, StatesOfDay
    <2> QED  BY <2>5, <2>6
<1> QED  BY <1>1, LedgerInvariant, PTL

-----------------------------------------------------------------------------
(* The buffer to start with, and the series.                                 *)

LEMMA FirstStartIs ==
    ASSUME LedgerInv
    PROVE  FirstStart(OnPage) \in Int
<1>1. PICK facts \in [Phase -> Fact] : facts = OnPage
    BY FactsTyped DEF LedgerInv
<1>2. now \in Int
    BY LedgerAssumption DEF LedgerInv, LedgerTyped, Time
<1> DEFINE begun == {p \in Phase : facts[p].started # None}
           starts == {facts[p].started : p \in Phase} \ {None}
<1>3. starts = {facts[p].started : p \in begun}
    OBVIOUS
<1>4. CASE begun = {}
    <2>1. starts = {}
        BY <1>3, <1>4
    <2> QED  BY <1>1, <1>2, <2>1 DEF FirstStart
<1>5. CASE begun # {}
    <2>1. IsFiniteSet(begun)
        BY LedgerAssumption, FS_Subset
    <2> HIDE DEF begun
    <2>2. PICK n \in Nat : n = Cardinality(begun) /\ ExistsBijection(1 .. n, begun)
        BY <2>1, FS_CardinalityType
    <2>3. PICK b \in [1 .. n -> begun] : \A p \in begun : \E k \in 1 .. n : b[k] = p
        BY <2>2 DEF ExistsBijection, Bijection, Injection, Surjection
    <2>4. n >= 1
        BY <1>5, <2>3
    <2>5. PICK a \in [1 .. n -> Int] : \A k \in 1 .. n : a[k] = facts[b[k]].started
        <3>1. \A k \in 1 .. n : b[k] \in Phase
            BY <2>3 DEF begun
        <3>2. [k \in 1 .. n |-> facts[b[k]].started] \in [1 .. n -> Int]
            BY <1>1, <3>1 DEF Fact
        <3> QED  BY <3>2
    <2>6. PICK j \in 1 .. n : \A k \in 1 .. n : a[j] <= a[k]
        BY <2>4, <2>5, LeastOf
    <2>7. a[j] \in starts /\ \A o \in starts : a[j] <= o
        <3>1. a[j] \in starts
            BY <1>3, <2>3, <2>5, <2>6
        <3>2. ASSUME NEW o \in starts PROVE a[j] <= o
            <4>1. PICK p \in begun : o = facts[p].started
                BY <1>3
            <4>2. PICK k \in 1 .. n : b[k] = p
                BY <2>3
            <4> QED  BY <2>5, <2>6, <4>1, <4>2
        <3> QED  BY <3>1, <3>2
    <2>8. starts \subseteq Int
        BY <1>1 DEF Fact
    <2>9. FirstStart(OnPage) = CHOOSE t \in starts : \A o \in starts : t <= o
        BY <1>1, <2>7 DEF FirstStart
    <2>10. (CHOOSE t \in starts : \A o \in starts : t <= o) \in starts
        BY <2>7
    <2> QED  BY <2>8, <2>9, <2>10
<1> QED  BY <1>4, <1>5

LEMMA StartBufferIs ==
    ASSUME LedgerInv, NEW n \in Nat, NEW at \in Int, NEW rows, RowsPlaced(rows, n, at)
    PROVE  /\ StartBuffer(OnPage, rows) \in Int
           /\ StartBuffer(OnPage, rows) = Days(program.sop - (FirstStart(OnPage) +
                  Total([k \in 1 .. n |-> Full(rows[k].phase)])))
<1>1. rows \in Seq(Row) /\ Len(rows) = n /\ \A k \in 1 .. n : Full(rows[k].phase) \in Int
    BY DEF RowsPlaced, Placed
<1>2. PICK plans \in [1 .. n -> Int] : plans = [k \in 1 .. n |-> Full(rows[k].phase)]
    BY <1>1
<1>3. PICK planned : Sums(planned, plans) /\ Total(plans) = planned[n] /\ Len(plans) = n
    BY <1>2, ColumnTotals
<1>4. Total(plans) \in Int
    BY <1>3 DEF Sums
<1>5. plans = [k \in 1 .. Len(rows) |-> Ticks * program.plan[rows[k].phase]]
    BY <1>1, <1>2 DEF Full
<1>6. StartBuffer(OnPage, rows) = Days(program.sop - (FirstStart(OnPage) + Total(plans)))
    BY <1>5, Zenon DEF StartBuffer
<1>7. program.sop \in Int
    BY LedgerAssumption DEF LedgerInv, LedgerTyped
<1>8. program.sop - (FirstStart(OnPage) + Total(plans)) \in Int
    BY <1>4, <1>7, FirstStartIs
<1> QED  BY <1>2, <1>6, <1>8, DaysAre

Spent(rows, at, d) ==
    [k \in 1 .. Len(rows) |-> Accrued(IdleMove(rows, k), d) + Accrued(OwnMove(rows[k], at), d)]

LEMMA SeriesIs ==
    ASSUME NEW at, NEW rows, rows = Schedule(OnPage, at), DOMAIN Series(at) # {}
    PROVE  /\ rows # <<>> /\ program.sop # None
           /\ DOMAIN Series(at) = FirstDay(rows) .. LastDay(rows, at)
           /\ \A d \in DOMAIN Series(at) :
                Series(at)[d] = Parts * StartBuffer(OnPage, rows) + Total(Spent(rows, at, d))
<1> DEFINE drawn == rows # <<>> /\ program.sop # None /\ StartBuffer(OnPage, rows) > 0
           days == IF drawn THEN FirstDay(rows) .. LastDay(rows, at) ELSE {}
           left(d) == Parts * StartBuffer(OnPage, rows) + Total(Spent(rows, at, d))
<1>1. Series(at) = [d \in days |-> left(d)]
    BY Zenon DEF Series, Spent
<1> HIDE DEF left
<1>2. DOMAIN Series(at) = days /\ \A d \in days : Series(at)[d] = left(d)
    BY <1>1
<1>3. drawn
    BY <1>2
<1> QED  BY <1>2, <1>3 DEF left

-----------------------------------------------------------------------------
(* The last day of the series: everything has been spent.                    *)

\* When a move is over, all its days have been accounted for.
LEMMA MoveIsOver ==
    ASSUME NEW d \in Int, NEW m \in AMove,
           m.days # 0 => m.from <= m.to /\ m.to < EndOfDay(d)
    PROVE  Accrued(m, d) = Parts * m.days
<1>1. PICK t \in Int : t = EndOfDay(d)
    BY MidnightIs
<1>2. PICK days, from, to \in Int : days = m.days /\ from = m.from /\ to = m.to
    BY DEF AMove
<1>3. Accrued(m, d) = CASE t <= from -> 0
                        [] t > from /\ t >= to -> 2520 * days
                        [] OTHER -> (2520 * days * (t - from)) \div (to - from)
    BY <1>1, <1>2 DEF Accrued, Parts
<1>4. CASE days # 0
    BY <1>1, <1>2, <1>3, <1>4 DEF Parts
<1>5. CASE days = 0
    <2>1. 2520 * days = 0 /\ 2520 * days * (t - from) = 0
        BY <1>5
    <2>2. CASE t <= from \/ (t > from /\ t >= to)
        <3>1. Accrued(m, d) = 0
            BY <1>1, <1>2, <1>3, <2>1, <2>2
        <3> QED  BY <1>2, <2>1, <3>1 DEF Parts
    <2>3. CASE t > from /\ t < to
        <3>1. PICK b \in Nat : b = to - from /\ b >= 1
            BY <2>3
        <3>2. 0 \div b = 0
            BY <3>1
        <3>3. Accrued(m, d) = (2520 * days * (t - from)) \div (to - from)
            BY <1>3, <2>3
        <3>4. Accrued(m, d) = 0
            BY <2>1, <3>1, <3>2, <3>3
        <3> QED  BY <1>2, <2>1, <3>4 DEF Parts
    <2> QED  BY <2>2, <2>3
<1> QED  BY <1>4, <1>5

LEMMA ScaledTotal ==
    ASSUME NEW n \in Nat, NEW a \in [1 .. n -> Int], NEW b \in [1 .. n -> Int], NEW c \in Int,
           \A k \in 1 .. n : b[k] = c * a[k]
    PROVE  Total(a) \in Int /\ Total(b) = c * Total(a)
<1>1. PICK s : Sums(s, a) /\ Total(a) = s[n] /\ Len(a) = n
    BY ColumnTotals
<1>2. PICK t : Sums(t, b) /\ Total(b) = t[n] /\ Len(b) = n
    BY ColumnTotals
<1>3. /\ s \in [0 .. n -> Int] /\ s[0] = 0 /\ t \in [0 .. n -> Int] /\ t[0] = 0
      /\ \A k \in 1 .. n : s[k] = s[k - 1] + a[k] /\ t[k] = t[k - 1] + b[k]
    BY <1>1, <1>2 DEF Sums
<1> DEFINE Fine == {k \in 0 .. n : t[k] = c * s[k]}
<1>4. 0 \in Fine
    BY <1>3
<1>5. ASSUME NEW k \in 0 .. n - 1, k \in Fine PROVE k + 1 \in Fine
    <2>1. k + 1 \in 1 .. n /\ k + 1 \in 0 .. n /\ (k + 1) - 1 = k /\ k \in 0 .. n
        OBVIOUS
    <2>2. PICK x, y \in Int : x = s[k] /\ y = a[k + 1]
        BY <1>3, <2>1
    <2>3. t[k + 1] = c * x + c * y /\ s[k + 1] = x + y
        BY <1>3, <1>5, <2>1, <2>2
    <2>4. c * (x + y) = c * x + c * y
        OBVIOUS
    <2> QED  BY <2>1, <2>3, <2>4
<1>6. 0 .. n \subseteq Fine
    <2> HIDE DEF Fine
    <2> QED  BY <1>4, <1>5, Climb
<1> QED  BY <1>1, <1>2, <1>3, <1>6

LEMMA RowIsOver ==
    ASSUME NEW n \in Nat, n >= 1, NEW at \in Int, NEW rows, RowsPlaced(rows, n, at), NEW k \in 1 .. n,
           NEW d, d = LastDay(rows, at)
    PROVE  /\ rows[k].gap + Own(rows[k]) \in Int
           /\ Spent(rows, at, d)[k] = -Parts * (rows[k].gap + Own(rows[k]))
<1>1. d \in Int /\ \A m \in Moves(rows, at) : m.to < EndOfDay(d)
    BY LastDayIs
<1>2. k \in 1 .. Len(rows)
    BY DEF RowsPlaced
<1>3. PICK r, prev : r = rows[k] /\ Placed(r, prev, at)
    BY DEF RowsPlaced
<1>4. PICK m : m = IdleMove(rows, k)
    OBVIOUS
<1>5. PICK o : o = OwnMove(rows[k], at)
    OBVIOUS
<1>6. m \in AMove /\ m.days = -r.gap /\ (m.days # 0 => m.from <= m.to)
    BY <1>3, <1>4, IdleMoveIs
<1>7. o \in AMove /\ o.days = -Own(r) /\ Own(r) \in Int /\ (o.days # 0 => o.from <= o.to)
    BY <1>3, <1>5, OwnMoveIs
<1>8. (m.days # 0 => m \in Moves(rows, at)) /\ (o.days # 0 => o \in Moves(rows, at))
    BY <1>2, <1>4, <1>5 DEF Moves
<1>9. Accrued(m, d) = Parts * m.days
    BY <1>1, <1>6, <1>8, MoveIsOver
<1>10. Accrued(o, d) = Parts * o.days
    BY <1>1, <1>7, <1>8, MoveIsOver
<1>11. Spent(rows, at, d)[k] = Parts * m.days + Parts * o.days
    BY <1>2, <1>4, <1>5, <1>9, <1>10 DEF Spent
<1>12. PICK g, w \in Int : g = r.gap /\ w = Own(r)
    BY <1>3, <1>7 DEF Placed
<1>13. Parts * (-g) + Parts * (-w) = -Parts * (g + w)
    BY <1>12 DEF Parts
<1> QED  BY <1>3, <1>6, <1>7, <1>11, <1>12, <1>13

(* One set of books: whatever became of the phases, on its last day the series  *)
(* of the buffer shows what the waterfall of the ledger arrives at.             *)
THEOREM SeriesAlwaysClosesTheBooks == Spec => []SeriesClosesTheBooks
<1>1. ASSUME LedgerInv PROVE SeriesClosesTheBooks
    <2> SUFFICES ASSUME NEW rows, rows = Schedule(OnPage, now), NEW days, days = DOMAIN Series(now),
                        days # {}
                 PROVE  Series(now)[Max(days)]
                        = Parts * (StartBuffer(OnPage, rows) - Attributed(rows))
        BY DEF SeriesClosesTheBooks
    <2>1. now \in Int
        BY <1>1, ThePage
    <2>2. PICK n \in Nat : RowsPlaced(rows, n, now)
        BY <1>1, ThePage
    <2>3. /\ rows # <<>> /\ days = FirstDay(rows) .. LastDay(rows, now)
          /\ \A d \in days :
                Series(now)[d] = Parts * StartBuffer(OnPage, rows) + Total(Spent(rows, now, d))
        BY SeriesIs
    <2>4. rows \in Seq(Row) /\ Len(rows) = n /\ n >= 1
        <3>1. rows \in Seq(Row) /\ Len(rows) = n
            BY <2>2 DEF RowsPlaced
        <3> QED  BY <2>3, <3>1, EmptySeq
    <2>5. PICK last \in Int : last = LastDay(rows, now)
        BY <2>1, <2>2, <2>4, LastDayIs
    <2>6. PICK first \in Int : first = FirstDay(rows)
        <3>1. Begins(rows) \in Int
            BY <2>1, <2>2, <2>4, BeginsIs
        <3> QED  BY <3>1, DayEnds DEF FirstDay
    <2>7. Max(days) = last
        <3>1. last \in days /\ days \in SUBSET Int /\ \A d \in days : d <= last
            BY <2>3, <2>5, <2>6
        <3>2. Max(days) \in days /\ \A d \in days : d <= Max(days)
            BY <3>1, MaxIs
        <3>3. PICK top \in Int : top = Max(days) /\ top <= last /\ last <= top
            BY <3>1, <3>2
        <3> QED  BY <3>3
    <2>8. last \in days
        BY <2>3, <2>5, <2>6
    <2>9. PICK costs \in [1 .. n -> Int] : costs = [k \in 1 .. n |-> rows[k].gap + Own(rows[k])]
        <3>1. \A k \in 1 .. n : rows[k].gap + Own(rows[k]) \in Int
            BY <2>1, <2>2, <2>4, RowIsOver
        <3> QED  BY <3>1
    <2>10. PICK spent : spent = Spent(rows, now, last)
        OBVIOUS
    <2>11. \A k \in 1 .. n : spent[k] = -Parts * costs[k]
        BY <2>1, <2>2, <2>4, <2>5, <2>9, <2>10, RowIsOver
    <2>12. spent \in [1 .. n -> Int]
        <3>1. DOMAIN spent = 1 .. n /\ spent = [k \in 1 .. n |-> spent[k]]
            BY <2>4, <2>10 DEF Spent
        <3>2. \A k \in 1 .. n : spent[k] \in Int
            BY <2>9, <2>11 DEF Parts
        <3> QED  BY <3>1, <3>2
    <2>13. Total(costs) \in Int /\ Total(spent) = -Parts * Total(costs)
        <3>1. PICK c \in Int : c = -2520
            OBVIOUS
        <3>2. ASSUME NEW k \in 1 .. n PROVE spent[k] = c * costs[k]
            <4>1. costs[k] \in Int /\ spent[k] = -Parts * costs[k]
                BY <2>9, <2>11
            <4> QED  BY <3>1, <4>1 DEF Parts
        <3>3. Total(costs) \in Int /\ Total(spent) = c * Total(costs)
            BY <2>9, <2>12, <3>2, ScaledTotal
        <3> QED  BY <3>1, <3>3 DEF Parts
    <2>14. Attributed(rows) = Total(costs)
        BY <2>4, <2>9 DEF Attributed, Own
    <2>15. PICK b \in Int : b = StartBuffer(OnPage, rows)
        BY <1>1, <2>1, <2>2, StartBufferIs
    <2>16. PICK t \in Int : t = Total(costs)
        BY <2>13
    <2>17. Series(now)[Max(days)] = Parts * b + -Parts * t
        BY <2>3, <2>7, <2>8, <2>10, <2>13, <2>15, <2>16
    <2>18. Parts * b + -Parts * t = Parts * (b - t)
        BY DEF Parts
    <2> QED  BY <2>14, <2>15, <2>16, <2>17, <2>18
<1> QED  BY <1>1, LedgerInvariant, PTL

-----------------------------------------------------------------------------
(* Time passes and nobody reports anything: what stays of a row.             *)

LEMMA DoneHasBegun ==
    ASSUME LedgerInv, NEW p \in Phase, OnPage[p].dot >= 100
    PROVE  OnPage[p].started # None
<1>1. PICK h \in Seq(Point) : h = history[p]
    BY DEF LedgerInv, LedgerTyped
<1>2. PICK dot \in 0 .. 100 : dot = Latest(h, DOMAIN h)
    BY LatestTyped
<1>3. PICK first : first = FirstFrom(h, DOMAIN h, 1)
    OBVIOUS
<1>4. OnPage[p].dot = dot /\ OnPage[p].started = EffectiveStartedAt(claimed[p], dot, first)
    BY <1>1, <1>2, <1>3 DEF OnPage
<1>5. dot >= 1
    <2>1. dot >= 100
        BY <1>4, Zenon
    <2> QED  BY <2>1
<1>6. first # None
    <2>1. 1 \in 1 .. 100 /\ Latest(h, DOMAIN h) >= 1 /\ DOMAIN h \in SUBSET DOMAIN h
        BY <1>2, <1>5
    <2>2. FirstFrom(h, DOMAIN h, 1) # None
        BY <2>1, ReachedOnce
    <2> QED  BY <1>3, <2>2
<1> QED  BY <1>4, <1>5, <1>6 DEF EffectiveStartedAt, Known

Settled(f) == f.dot >= 100 => f.completed # None /\ f.started # None

Kept(r, s) ==
    /\ s.phase = r.phase /\ s.kind = r.kind
    /\ r.kind # "notStarted" => s.start = r.start
    /\ r.kind = "done" => s.end = r.end /\ s.variance = r.variance

LEMMA RowIsKept ==
    ASSUME program \in Programs, NEW p \in Phase, NEW f \in Fact, Settled(f), NEW at \in Int,
           NEW prev, NEW then, prev.end \in Int, then.end \in Int,
           NEW r, NEW s, r = RowOf(p, f, prev, at), s = RowOf(p, f, then, at + 1)
    PROVE  /\ Kept(r, s)
           /\ r.kind # "notStarted" /\ then.kind = prev.kind
              /\ (prev.kind = "done" => then.end = prev.end) => s.gap = r.gap
<1>0. at + 1 \in Int
    OBVIOUS
<1>1. f.dot >= 100 \/ f.dot < 100
    BY DEF Fact
<1> DEFINE Idles == then.kind = prev.kind /\ (prev.kind = "done" => then.end = prev.end)
<1>2. ASSUME NEW start, Idles PROVE IdleBefore(then, start) = IdleBefore(prev, start)
    BY <1>2 DEF IdleBefore
<1>3. CASE f.dot >= 100
    <2>1. /\ r.phase = p /\ r.kind = "done" /\ r.start = Known(f.started, prev.end)
          /\ r.end = Known(f.completed, r.start + Full(p))
          /\ r.variance = Days(r.end - r.start) - program.plan[p]
          /\ r.gap = IF f.started = None THEN 0 ELSE IdleBefore(prev, r.start)
        BY <1>3, DoneRow
    <2>2. /\ s.phase = p /\ s.kind = "done" /\ s.start = Known(f.started, then.end)
          /\ s.end = Known(f.completed, s.start + Full(p))
          /\ s.variance = Days(s.end - s.start) - program.plan[p]
          /\ s.gap = IF f.started = None THEN 0 ELSE IdleBefore(then, s.start)
        BY <1>0, <1>3, DoneRow
    <2>3. f.completed # None /\ f.started # None
        BY <1>3 DEF Settled
    <2>4. s.start = r.start /\ s.end = r.end
        BY <2>1, <2>2, <2>3 DEF Known
    <2>5. s.variance = r.variance
        BY <2>1, <2>2, <2>4
    <2>6. Idles => s.gap = r.gap
        BY <1>2, <2>1, <2>2, <2>3, <2>4
    <2> QED  BY <2>1, <2>2, <2>4, <2>5, <2>6 DEF Kept
<1>4. CASE f.dot < 100 /\ f.started # None
    <2>1. r.phase = p /\ r.kind = "active" /\ r.start = f.started /\ r.gap = IdleBefore(prev, r.start)
        BY <1>4, ActiveRow
    <2>2. s.phase = p /\ s.kind = "active" /\ s.start = f.started /\ s.gap = IdleBefore(then, s.start)
        BY <1>0, <1>4, ActiveRow
    <2> QED  BY <1>2, <2>1, <2>2 DEF Kept
<1>5. CASE f.dot < 100 /\ f.started = None
    <2>1. r.phase = p /\ r.kind = "notStarted"
        BY <1>5, WaitingRow
    <2>2. s.phase = p /\ s.kind = "notStarted"
        BY <1>0, <1>5, WaitingRow
    <2> QED  BY <2>1, <2>2 DEF Kept
<1> QED  BY <1>1, <1>3, <1>4, <1>5

\* The rows of an instant, and those of the next one.
RowsKept(rows, next, n, at) ==
    /\ RowsPlaced(rows, n, at) /\ RowsPlaced(next, n, at + 1)
    /\ \A k \in 1 .. n :
        /\ Kept(rows[k], next[k])
        /\ PrevOf(next, k, at + 1).kind = PrevOf(rows, k, at).kind
        /\ PrevOf(rows, k, at).kind = "done" => PrevOf(next, k, at + 1).end = PrevOf(rows, k, at).end
        /\ rows[k].kind # "notStarted" => next[k].gap = rows[k].gap

LEMMA RowsAreKept ==
    ASSUME program \in Programs, NEW facts \in [Phase -> Fact], NEW at \in Int,
           Finished(facts, at), \A p \in Phase : facts[p].dot >= 100 => facts[p].started # None,
           NEW n \in Nat, n = Len(PlannedChainOf[program]),
           NEW rows, NEW next, rows = Schedule(facts, at), next = Schedule(facts, at + 1)
    PROVE  RowsKept(rows, next, n, at)
<1>1. at + 1 \in Int /\ Finished(facts, at + 1)
    <2>1. ASSUME NEW p \in Phase, facts[p].dot >= 100
          PROVE  facts[p].completed # None /\ facts[p].completed <= at + 1
        <3>1. facts[p].completed # None /\ facts[p].completed <= at /\ facts[p].completed \in Int
            BY <2>1 DEF Finished, Fact
        <3> QED  BY <3>1
    <2> QED  BY <2>1 DEF Finished
<1>2. Scheduled(rows, n, facts, at)
    BY ScheduleIs
<1>3. Scheduled(next, n, facts, at + 1)
    BY <1>1, ScheduleIs
<1>4. RowsPlaced(rows, n, at)
    BY ScheduleIsPlaced
<1>5. RowsPlaced(next, n, at + 1)
    BY <1>1, ScheduleIsPlaced
<1>6. ASSUME NEW k \in 1 .. n
      PROVE  /\ Kept(rows[k], next[k])
             /\ rows[k].kind # "notStarted" /\ PrevOf(next, k, at + 1).kind = PrevOf(rows, k, at).kind
                /\ (PrevOf(rows, k, at).kind = "done" =>
                        PrevOf(next, k, at + 1).end = PrevOf(rows, k, at).end)
                => next[k].gap = rows[k].gap
    <2>1. PICK p \in Phase : p = PlannedChainOf[program][k]
        BY ChainIsOfPhases, ElementOfSeq
    <2>2. PICK f \in Fact : f = facts[p]
        BY <2>1
    <2>3. Settled(f)
        BY <2>1, <2>2 DEF Settled, Finished
    <2>4. PICK prev : prev = PrevOf(rows, k, at)
        OBVIOUS
    <2>5. PICK then : then = PrevOf(next, k, at + 1)
        OBVIOUS
    <2>6. prev.end \in Int /\ then.end \in Int
        BY <1>4, <1>5, <2>4, <2>5 DEF RowsPlaced, Placed
    <2>7. rows[k] = RowOf(p, f, prev, at)
        BY <1>2, <2>1, <2>2, <2>4 DEF Scheduled
    <2>8. next[k] = RowOf(p, f, then, at + 1)
        BY <1>3, <2>1, <2>2, <2>5 DEF Scheduled
    <2> QED  BY <2>1, <2>2, <2>3, <2>4, <2>5, <2>6, <2>7, <2>8, RowIsKept
<1>7. ASSUME NEW k \in 1 .. n
      PROVE  /\ PrevOf(next, k, at + 1).kind = PrevOf(rows, k, at).kind
             /\ PrevOf(rows, k, at).kind = "done" =>
                    PrevOf(next, k, at + 1).end = PrevOf(rows, k, at).end
    <2>1. CASE k = 1
        BY <2>1 DEF PrevOf
    <2>2. CASE k # 1
        <3>1. k - 1 \in 1 .. n
            BY <2>2
        <3>2. Kept(rows[k - 1], next[k - 1])
            BY <1>6, <3>1
        <3> QED  BY <2>2, <3>2 DEF PrevOf, Kept
    <2> QED  BY <2>1, <2>2
<1> QED  BY <1>4, <1>5, <1>6, <1>7 DEF RowsKept

-----------------------------------------------------------------------------
(* How much of a move has happened on a day that is over.                    *)

LEMMA QuotientBetween ==
    ASSUME NEW b \in Nat, b >= 1, NEW a \in Int, NEW lo \in Int, NEW hi \in Int,
           b * lo <= a, a <= b * hi
    PROVE  a \div b \in lo .. hi
<1>1. PICK q \in Int : q = a \div b /\ b * q <= a /\ a < b * q + b
    BY Quotient
<1>2. lo <= q
    <2> SUFFICES ASSUME q + 1 <= lo PROVE FALSE
        OBVIOUS
    <2>1. b * (q + 1) <= b * lo
        BY Multiples
    <2>2. b * (q + 1) = b * q + b
        OBVIOUS
    <2>3. b * q \in Int /\ b * lo \in Int
        OBVIOUS
    <2> QED  BY <1>1, <2>1, <2>2, <2>3
<1>3. q <= hi
    <2> SUFFICES ASSUME hi + 1 <= q PROVE FALSE
        OBVIOUS
    <2>1. b * (hi + 1) <= b * q
        BY Multiples
    <2>2. b * (hi + 1) = b * hi + b
        OBVIOUS
    <2>3. b * q \in Int /\ b * hi \in Int
        OBVIOUS
    <2> QED  BY <1>1, <2>1, <2>2, <2>3
<1> QED  BY <1>1, <1>2, <1>3

LEMMA AccruedTyped ==
    ASSUME NEW d \in Int, NEW m \in AMove
    PROVE  /\ Accrued(m, d) \in Int
           /\ m.days = 0 \/ EndOfDay(d) <= m.from => Accrued(m, d) = 0
<1>1. PICK t \in Int : t = EndOfDay(d)
    BY MidnightIs
<1>2. PICK days, from, to \in Int : days = m.days /\ from = m.from /\ to = m.to
    BY DEF AMove
<1>3. Accrued(m, d) = CASE t <= from -> 0
                        [] t > from /\ t >= to -> 2520 * days
                        [] OTHER -> (2520 * days * (t - from)) \div (to - from)
    BY <1>1, <1>2 DEF Accrued, Parts
<1>4. CASE t <= from
    BY <1>1, <1>2, <1>3, <1>4
<1>5. CASE t > from /\ t >= to
    <2>1. Accrued(m, d) = 2520 * days
        BY <1>3, <1>5
    <2> QED  BY <1>1, <1>2, <1>5, <2>1
<1>6. CASE t > from /\ t < to
    <2>1. PICK b \in Nat : b = to - from /\ b >= 1
        BY <1>6
    <2>2. PICK x \in Int : x = 2520 * days
        OBVIOUS
    <2>3. PICK e \in Int : e = t - from /\ e >= 1
        BY <1>6
    <2>4. PICK a \in Int : a = x * e
        OBVIOUS
    <2>5. Accrued(m, d) = a \div b
        BY <1>3, <1>6, <2>1, <2>2, <2>3, <2>4
    <2>6. a \div b \in Int
        BY <2>1, Quotient
    <2>7. days = 0 => a = 0
        BY <2>2, <2>4
    <2>8. 0 \div b = 0
        BY <2>1
    <2> QED  BY <1>1, <1>2, <1>6, <2>5, <2>6, <2>7, <2>8
<1> QED  BY <1>4, <1>5, <1>6

\* Days drawn over the b ticks they are rounded from: after e of these, v parts of a
\* day are drawn, and those would be q if every tick had its share of a day.
LEMMA Share ==
    ASSUME NEW b \in Nat, b >= 1, NEW e \in Nat, e <= b, NEW gap \in Int, Rounds(gap, b),
           NEW v \in Int, NEW q \in Int, NEW part \in Int, part = gap * e,
           b * v <= -(2520 * part), -(2520 * part) < b * v + b,
           Ticks * q <= -(2520 * e), -(2520 * e) < Ticks * q + Ticks
    PROVE  v \in q - 1260 .. q + 1260
<1>1. PICK T \in Nat : T = Ticks /\ T >= 1
    BY TicksTyped
<1>2. PICK eb \in Int : eb = b * e
    OBVIOUS
<1>3. PICK eT \in Int : eT = T * e
    OBVIOUS
<1>4. PICK bT \in Nat : bT = T * b /\ bT >= 1 /\ eT <= bT
    <2>1. T * 1 <= T * b /\ T * e <= T * b
        BY <1>1, Multiples
    <2> QED  BY <1>1, <1>3, <2>1
<1>5. PICK G \in Int : G = T * part
    OBVIOUS
<1>6. PICK x \in Int : x = bT * v
    OBVIOUS
<1>7. PICK y \in Int : y = bT * q
    OBVIOUS
<1>8. x <= -(2520 * G) /\ -(2520 * G) < x + bT
    <2>1. PICK w \in Int : w = b * v
        OBVIOUS
    <2>2. PICK c \in Int : c = -(2520 * part)
        OBVIOUS
    <2>3. T * w = x
        BY <1>4, <1>6, <2>1
    <2>4. T * c = -(2520 * G)
        BY <1>5, <2>2
    <2>5. T * w <= T * c
        BY <2>1, <2>2, Multiples
    <2>6. T * (c + 1) <= T * (w + b)
        BY <2>1, <2>2, Multiples
    <2>7. T * (c + 1) = T * c + T /\ T * (w + b) = T * w + bT
        BY <1>4
    <2> QED  BY <1>1, <2>3, <2>4, <2>5, <2>6, <2>7
<1>9. y <= -(2520 * eb) /\ -(2520 * eb) < y + bT
    <2>1. PICK w \in Int : w = T * q
        OBVIOUS
    <2>2. PICK c \in Int : c = -(2520 * e)
        OBVIOUS
    <2>3. b * w = y
        BY <1>4, <1>7, <2>1
    <2>4. b * c = -(2520 * eb)
        BY <1>2, <2>2
    <2>5. b * w <= b * c
        BY <1>1, <2>1, <2>2, Multiples
    <2>6. b * (c + 1) <= b * (w + T)
        BY <1>1, <2>1, <2>2, Multiples
    <2>7. b * (c + 1) = b * c + b /\ b * (w + T) = b * w + bT
        BY <1>4
    <2> QED  BY <2>3, <2>4, <2>5, <2>6, <2>7
<1>10. 2 * G <= 2 * eb + eT /\ 2 * eb <= 2 * G + eT
    <2>1. PICK g \in Int : g = T * gap
        OBVIOUS
    <2>2. 2 * g <= 2 * b + T /\ 2 * b <= 2 * g + T
        BY <1>1, <2>1 DEF Rounds, Worth
    <2>3. e * (2 * g) <= e * (2 * b + T) /\ e * (2 * b) <= e * (2 * g + T)
        BY <2>2, Multiples
    <2>4. e * g = G
        BY <1>5, <2>1
    <2>5. e * (2 * g) = 2 * (e * g) /\ e * (2 * g + T) = 2 * (e * g) + eT
        BY <1>3
    <2>6. e * (2 * b) = 2 * eb /\ e * (2 * b + T) = 2 * eb + eT
        BY <1>2, <1>3
    <2> QED  BY <2>3, <2>4, <2>5, <2>6
<1>11. x < y + 1261 * bT /\ y - 1261 * bT < x
    BY <1>4, <1>8, <1>9, <1>10
<1>12. v < q + 1261
    <2> SUFFICES ASSUME q + 1261 <= v PROVE FALSE
        OBVIOUS
    <2>1. bT * (q + 1261) <= x
        BY <1>6, Multiples
    <2>2. bT * (q + 1261) = y + 1261 * bT
        BY <1>7
    <2> QED  BY <1>11, <2>1, <2>2
<1>13. q - 1261 < v
    <2> SUFFICES ASSUME v <= q - 1261 PROVE FALSE
        OBVIOUS
    <2>1. x <= bT * (q - 1261)
        BY <1>6, Multiples
    <2>2. bT * (q - 1261) = y - 1261 * bT
        BY <1>7
    <2> QED  BY <1>11, <2>1, <2>2
<1> QED  BY <1>12, <1>13

\* What a tick for a tick of idleness would have drawn after e of them.
Fair(e) == (-(2520 * e)) \div Ticks

LEMMA FairIs ==
    ASSUME NEW e \in Int
    PROVE  Fair(e) \in Int /\ Ticks * Fair(e) <= -(2520 * e) /\ -(2520 * e) < Ticks * Fair(e) + Ticks
<1>1. PICK a \in Int : a = -(2520 * e)
    OBVIOUS
<1> QED  BY <1>1, TicksTyped, Quotient DEF Fair

LEMMA NoneIsFair ==
    ASSUME NEW b \in Nat, b >= 1, NEW e \in Nat, e <= b, Rounds(0, b)
    PROVE  0 \in Fair(e) - 1260 .. Fair(e) + 1260
<1>1. PICK q \in Int : q = Fair(e) /\ Ticks * q <= -(2520 * e) /\ -(2520 * e) < Ticks * q + Ticks
    BY FairIs
<1>2. PICK part \in Int : part = 0 /\ part = 0 * e
    OBVIOUS
<1>3. b * 0 <= -(2520 * part) /\ -(2520 * part) < b * 0 + b
    BY <1>2
<1>4. 0 \in Int
    OBVIOUS
<1> QED  BY <1>1, <1>2, <1>3, <1>4, Share

\* Idle days are drawn over the ticks they lasted, each its share of a day but for
\* the rounding of them to whole days.
LEMMA IdleAccrued ==
    ASSUME NEW d \in Int, NEW t \in Int, t = EndOfDay(d), NEW gap \in Int,
           NEW from \in Int, NEW to \in Int, from < t, t <= to, Rounds(gap, to - from),
           NEW m, m = [days |-> -gap, from |-> from, to |-> to]
    PROVE  Accrued(m, d) \in Fair(t - from) - 1260 .. Fair(t - from) + 1260
<1>1. PICK e \in Nat : e = t - from /\ e >= 1
    OBVIOUS
<1>2. PICK b \in Nat : b = to - from /\ e <= b /\ b >= 1
    BY <1>1
<1>3. PICK q \in Int : q = Fair(e) /\ Ticks * q <= -(2520 * e) /\ -(2520 * e) < Ticks * q + Ticks
    BY FairIs
<1>4. PICK part \in Int : part = gap * e
    OBVIOUS
<1>5. PICK v \in Int : v = Accrued(m, d) /\ b * v <= -(2520 * part) /\ -(2520 * part) < b * v + b
    <2>1. CASE t = to
        <3>1. Accrued(m, d) = 2520 * (-gap)
            BY <2>1 DEF Accrued, Parts
        <3>2. PICK v \in Int : v = 2520 * (-gap)
            OBVIOUS
        <3>3. e = b /\ b * v = -(2520 * part)
            BY <1>1, <1>2, <1>4, <2>1, <3>2
        <3>4. b * v <= -(2520 * part) /\ -(2520 * part) < b * v + b
            BY <1>2, <3>3
        <3> QED  BY <3>1, <3>2, <3>4
    <2>2. CASE t < to
        <3>1. Accrued(m, d) = (2520 * (-gap) * e) \div b
            BY <1>1, <1>2, <2>2 DEF Accrued, Parts
        <3>2. PICK a \in Int : a = -(2520 * part)
            OBVIOUS
        <3>3. 2520 * (-gap) * e = a
            BY <1>4, <3>2
        <3>4. PICK v \in Int : v = a \div b /\ b * v <= a /\ a < b * v + b
            BY <1>2, Quotient
        <3> QED  BY <3>1, <3>2, <3>3, <3>4
    <2> QED  BY <2>1, <2>2
<1>6. Rounds(gap, b)
    BY <1>2
<1>7. v \in q - 1260 .. q + 1260
    BY <1>2, <1>3, <1>4, <1>5, <1>6, Share
<1> QED  BY <1>1, <1>3, <1>5, <1>7

-----------------------------------------------------------------------------
(* ... and how much of the moves of a row.                                   *)

LEMMA OwnIsKept ==
    ASSUME NEW at \in Int, NEW r, NEW prev, Placed(r, prev, at), NEW s, NEW then, Placed(s, then, at + 1),
           Kept(r, s), NEW d \in Int, EndOfDay(d) <= at
    PROVE  Accrued(OwnMove(s, at + 1), d) = Accrued(OwnMove(r, at), d)
<1>1. PICK t \in Int : t = EndOfDay(d) /\ t <= at
    BY MidnightIs
<1>2. CASE r.kind = "done"
    <2>1. /\ s.kind = "done" /\ s.phase = r.phase
          /\ s.start = r.start /\ s.end = r.end /\ s.variance = r.variance
        BY <1>2 DEF Kept
    <2>2. /\ ~IsForecastOver(r) /\ ~IsForecastOver(s) /\ ~IsForecastUnder(r) /\ ~IsForecastUnder(s)
          /\ IsRealizedOverrun(s) <=> IsRealizedOverrun(r)
          /\ IsRealizedUnderrun(s) <=> IsRealizedUnderrun(r)
        BY <1>2, <2>1 DEF IsForecastOver, IsForecastUnder, IsRealizedOverrun, IsRealizedUnderrun
    <2>3. PlannedEnd(s) = PlannedEnd(r)
        BY <2>1 DEF PlannedEnd
    <2>4. r.variance \in Int
        BY DEF Placed
    <2>5. ~(IsRealizedOverrun(r) /\ IsRealizedUnderrun(r))
        BY <2>4 DEF IsRealizedOverrun, IsRealizedUnderrun
    <2>6. OwnMove(s, at + 1) = OwnMove(r, at)
        <3>1. CASE IsRealizedOverrun(r)
            BY <2>1, <2>2, <2>3, <2>5, <3>1 DEF OwnMove
        <3>2. CASE IsRealizedUnderrun(r)
            BY <2>1, <2>2, <2>3, <2>5, <3>2 DEF OwnMove
        <3>3. CASE ~IsRealizedOverrun(r) /\ ~IsRealizedUnderrun(r)
            BY <2>1, <2>2, <2>3, <3>3 DEF OwnMove, NoMove
        <3> QED  BY <3>1, <3>2, <3>3
    <2> QED  BY <2>6
<1>3. ASSUME NEW x, NEW before, NEW then_at \in Int, at <= then_at, Placed(x, before, then_at),
             x.kind # "done"
      PROVE  Accrued(OwnMove(x, then_at), d) = 0
    <2>1. PICK m \in AMove : m = OwnMove(x, then_at)
        BY <1>3, OwnMoveIs
    <2>2. x.start \in Int /\ x.end \in Int /\ x.variance \in Int
        BY <1>3 DEF Placed
    <2>3. PICK tick \in Int : tick = PlannedEnd(x)
        BY <1>3, PlannedEndIs
    <2>4. ~IsRealizedOverrun(x) /\ ~IsRealizedUnderrun(x)
        BY <1>3 DEF IsRealizedOverrun, IsRealizedUnderrun
    <2>5. ~(IsForecastOver(x) /\ IsForecastUnder(x))
        BY <2>2 DEF IsForecastOver, IsForecastUnder, ForecastNoise
    <2>6. m.days = 0 \/ m.from >= then_at
        <3>1. CASE IsForecastOver(x)
            <4>1. m.from = Later(then_at, tick)
                BY <2>1, <2>3, <2>4, <2>5, <3>1 DEF OwnMove, ForecastSpending, Move
            <4> QED  BY <1>3, <2>3, <4>1 DEF Later
        <3>2. CASE IsForecastUnder(x)
            <4>1. m.from = Later(then_at, x.end)
                BY <2>1, <2>4, <2>5, <3>2 DEF OwnMove, Move
            <4> QED  BY <1>3, <2>2, <4>1 DEF Later
        <3>3. CASE ~IsForecastOver(x) /\ ~IsForecastUnder(x)
            <4>1. m = NoMove(x)
                BY <2>1, <2>4, <3>3 DEF OwnMove
            <4> QED  BY <4>1 DEF NoMove, Move
        <3> QED  BY <3>1, <3>2, <3>3
    <2>7. m.days = 0 \/ EndOfDay(d) <= m.from
        <3>1. m.from \in Int
            BY DEF AMove
        <3> QED  BY <1>1, <1>3, <2>6, <3>1
    <2> QED  BY <2>1, <2>7, AccruedTyped
<1>4. CASE r.kind # "done"
    <2>1. s.kind # "done"
        BY <1>4 DEF Kept
    <2>2. Accrued(OwnMove(r, at), d) = 0
        BY <1>3, <1>4
    <2>3. at + 1 \in Int /\ at <= at + 1
        OBVIOUS
    <2>4. Accrued(OwnMove(s, at + 1), d) = 0
        BY <1>3, <2>1, <2>3
    <2> QED  BY <2>2, <2>4
<1> QED  BY <1>2, <1>4

-----------------------------------------------------------------------------
(* The idle days before a phase that has not begun, with the calendar.       *)

IdleStill(next) == {k \in Gaps(next) : next[k].kind = "notStarted"}

\* Without such days, what is drawn of the days before a row stays.
LEMMA IdleIsKept ==
    ASSUME NEW n \in Nat, NEW at \in Int, NEW rows, NEW next, RowsKept(rows, next, n, at),
           NEW k \in 1 .. n, k \notin IdleStill(next), NEW d \in Int
    PROVE  Accrued(IdleMove(next, k), d) = Accrued(IdleMove(rows, k), d)
<1>0. at + 1 \in Int /\ RowsPlaced(rows, n, at) /\ RowsPlaced(next, n, at + 1)
    BY DEF RowsKept
<1>1. PICK r, prev : r = rows[k] /\ prev = PrevOf(rows, k, at)
    OBVIOUS
<1>2. PICK s, then : s = next[k] /\ then = PrevOf(next, k, at + 1)
    OBVIOUS
<1>3. Placed(r, prev, at)
    BY <1>0, <1>1 DEF RowsPlaced
<1>4. Placed(s, then, at + 1)
    BY <1>0, <1>2 DEF RowsPlaced
<1>5. /\ Kept(r, s) /\ then.kind = prev.kind /\ (prev.kind = "done" => then.end = prev.end)
      /\ r.kind # "notStarted" => s.gap = r.gap
    BY <1>1, <1>2 DEF RowsKept
<1>6. /\ IdleMove(rows, k) \in AMove /\ IdleMove(rows, k).days = -r.gap
      /\ r.gap >= 1 =>
            k # 1 /\ IdleMove(rows, k) = [days |-> -r.gap, from |-> rows[k - 1].end, to |-> r.start]
    BY <1>0, <1>1, IdleMoveIs
<1>7. /\ IdleMove(next, k) \in AMove /\ IdleMove(next, k).days = -s.gap
      /\ s.gap >= 1 =>
            k # 1 /\ IdleMove(next, k) = [days |-> -s.gap, from |-> next[k - 1].end, to |-> s.start]
    BY <1>0, <1>2, IdleMoveIs
<1>8. r.gap \in Nat /\ s.gap \in Nat
    BY <1>3, <1>4 DEF Placed
<1>9. CASE r.gap = 0 /\ s.gap = 0
    <2>1. PICK x \in Int : x = r.gap /\ x = s.gap /\ 0 <= x /\ x <= 0
        BY <1>9
    <2>2. -x = 0
        BY <2>1, NoDays
    <2>3. IdleMove(rows, k).days = 0 /\ IdleMove(next, k).days = 0
        BY <1>6, <1>7, <2>1, <2>2, Zenon
    <2> QED  BY <1>6, <1>7, <2>3, AccruedTyped
<1>10. CASE r.kind # "notStarted" /\ r.gap >= 1
    <2>1. prev.kind = "done"
        BY <1>3, <1>10 DEF Placed
    <2>2. s.gap = r.gap /\ s.start = r.start /\ then.end = prev.end
        BY <1>5, <1>10, <2>1 DEF Kept
    <2>3. rows[k - 1] = prev /\ next[k - 1] = then
        BY <1>1, <1>2, <1>6, <1>10 DEF PrevOf
    <2>4. IdleMove(next, k) = IdleMove(rows, k)
        BY <1>6, <1>7, <1>10, <2>2, <2>3
    <2> QED  BY <2>4
<1>11. CASE r.kind = "notStarted"
    <2>1. s.kind = "notStarted"
        BY <1>5, <1>11 DEF Kept
    <2>2. ~(s.gap >= 1)
        <3>1. s.gap >= 1 => k \in 2 .. n
            BY <1>7
        <3>2. Len(next) = n
            BY <1>0 DEF RowsPlaced
        <3> QED  BY <1>2, <2>1, <3>1, <3>2 DEF IdleStill, Gaps
    <2>3. ~(r.gap >= 1)
        <3> SUFFICES ASSUME r.gap >= 1 PROVE FALSE
            OBVIOUS
        <3>1. /\ prev.kind = "done" /\ prev.end \in Int
              /\ r.start > prev.end /\ r.start = EarliestStart(prev, at)
            BY <1>3, <1>11 DEF Placed
        <3>2. PICK e \in Int : e = prev.end /\ e < at /\ r.start = at
            BY <3>1 DEF EarliestStart, Later
        <3>3. then.kind = "done" /\ then.end = e /\ s.start = EarliestStart(then, at + 1)
            BY <1>4, <1>5, <2>1, <3>1, <3>2 DEF Placed
        <3>4. s.start = at + 1 /\ s.start > then.end
            BY <3>2, <3>3 DEF EarliestStart, Later
        <3>5. Rounds(r.gap, at - e)
            BY <1>3, <3>1, <3>2 DEF Placed
        <3>6. Rounds(s.gap, at + 1 - e)
            BY <1>4, <3>3, <3>4 DEF Placed
        <3>7. PICK x \in Int : x = at - e
            BY <3>2
        <3>8. PICK y \in Int : y = at + 1 - e /\ x <= y
            BY <3>2, <3>7
        <3>9. r.gap <= s.gap
            BY <1>8, <3>5, <3>6, <3>7, <3>8, RoundsUp
        <3> QED  BY <1>8, <2>2, <3>9
    <2> QED  BY <1>8, <1>9, <2>2, <2>3
<1>12. r.gap = 0 \/ r.gap >= 1
    BY <1>8
<1> QED  BY <1>5, <1>9, <1>10, <1>11, <1>12

\* A tick more of idleness may be a day more of it: what is drawn of the days gone by
\* moves by at most a day.
LEMMA IdleIsRounded ==
    ASSUME NEW n \in Nat, NEW at \in Int, NEW rows, NEW next, RowsKept(rows, next, n, at),
           NEW k \in 1 .. n, k \in IdleStill(next), NEW d \in Int, EndOfDay(d) <= at,
           NEW y \in Int, y = Accrued(IdleMove(rows, k), d),
           NEW z \in Int, z = Accrued(IdleMove(next, k), d)
    PROVE  -2520 <= z - y /\ z - y <= 2520
<1>0. at + 1 \in Int /\ RowsPlaced(rows, n, at) /\ RowsPlaced(next, n, at + 1)
    BY DEF RowsKept
<1>1. PICK r, prev : r = rows[k] /\ prev = PrevOf(rows, k, at)
    OBVIOUS
<1>2. PICK s, then : s = next[k] /\ then = PrevOf(next, k, at + 1)
    OBVIOUS
<1>3. Placed(r, prev, at)
    BY <1>0, <1>1 DEF RowsPlaced
<1>4. Placed(s, then, at + 1)
    BY <1>0, <1>2 DEF RowsPlaced
<1>5. Kept(r, s) /\ then.kind = prev.kind /\ (prev.kind = "done" => then.end = prev.end)
    BY <1>1, <1>2 DEF RowsKept
<1>6. /\ IdleMove(rows, k) \in AMove /\ IdleMove(rows, k).days = -r.gap
      /\ r.gap >= 1 =>
            k # 1 /\ IdleMove(rows, k) = [days |-> -r.gap, from |-> rows[k - 1].end, to |-> r.start]
    BY <1>0, <1>1, IdleMoveIs
<1>7. /\ IdleMove(next, k) \in AMove
      /\ s.gap >= 1 =>
            k # 1 /\ IdleMove(next, k) = [days |-> -s.gap, from |-> next[k - 1].end, to |-> s.start]
    BY <1>0, <1>2, IdleMoveIs
<1>8. s.gap >= 1 /\ s.kind = "notStarted"
    BY <1>2 DEF IdleStill, Gaps
<1>9. r.kind = "notStarted"
    BY <1>5, <1>8 DEF Kept
<1>10. PICK e \in Int : /\ e = then.end /\ e = prev.end /\ s.start > e
                         /\ then.kind = "done" /\ prev.kind = "done"
    BY <1>4, <1>5, <1>8 DEF Placed
<1>11. e <= at /\ s.start = at + 1 /\ r.start = at
    <2>1. s.start = EarliestStart(then, at + 1) /\ r.start = EarliestStart(prev, at)
        BY <1>3, <1>4, <1>8, <1>9 DEF Placed
    <2>2. s.start = Later(e, at + 1) /\ r.start = Later(e, at)
        BY <1>10, <2>1 DEF EarliestStart
    <2>3. at + 1 > e
        BY <1>10, <2>2 DEF Later
    <2> QED  BY <2>2, <2>3 DEF Later
<1>12. k # 1 /\ rows[k - 1] = prev /\ next[k - 1] = then
    BY <1>1, <1>2, <1>7, <1>8 DEF PrevOf
<1>13. PICK t \in Int : t = EndOfDay(d) /\ t <= at
    BY MidnightIs
<1>14. PICK g \in Int : g = s.gap /\ Rounds(g, at + 1 - e)
    BY <1>4, <1>8, <1>10, <1>11 DEF Placed
<1>15. PICK m : m = IdleMove(next, k) /\ m = [days |-> -g, from |-> e, to |-> at + 1]
    BY <1>7, <1>8, <1>10, <1>11, <1>12, <1>14
<1>16. CASE t <= e
    <2>1. Accrued(m, d) = 0
        BY <1>7, <1>13, <1>15, <1>16, AccruedTyped
    <2>2. Accrued(IdleMove(rows, k), d) = 0
        <3>1. CASE r.gap >= 1
            <4>1. IdleMove(rows, k).from = e
                BY <1>6, <1>10, <1>12, <3>1
            <4> QED  BY <1>6, <1>13, <1>16, <4>1, AccruedTyped
        <3>2. CASE ~(r.gap >= 1)
            <4>1. PICK x \in Int : x = r.gap /\ 0 <= x /\ x <= 0
                BY <1>3, <3>2 DEF Placed
            <4>2. -x = 0
                BY <4>1, NoDays
            <4>3. IdleMove(rows, k).days = 0
                BY <1>6, <4>1, <4>2, Zenon
            <4> QED  BY <1>6, <4>3, AccruedTyped
        <3> QED  BY <3>1, <3>2
    <2>3. z = 0 /\ y = 0
        BY <1>15, <2>1, <2>2, Zenon
    <2> QED  BY <2>3
<1>17. CASE e < t
    <2>1. PICK f \in Nat : f = r.gap /\ Rounds(f, at - e)
        BY <1>3, <1>10, <1>11, <1>13, <1>17 DEF Placed
    <2>2. PICK q \in Int : q = Fair(t - e)
        BY FairIs
    <2>3. z \in q - 1260 .. q + 1260
        <3>1. t <= at + 1 /\ Rounds(g, (at + 1) - e)
            BY <1>13, <1>14
        <3> QED  BY <1>0, <1>13, <1>15, <1>17, <2>2, <3>1, IdleAccrued
    <2>4. y \in q - 1260 .. q + 1260
        <3>1. CASE f >= 1
            <4>1. PICK o : o = IdleMove(rows, k) /\ o = [days |-> -f, from |-> e, to |-> at]
                BY <1>6, <1>10, <1>11, <1>12, <2>1, <3>1
            <4> QED  BY <1>13, <1>17, <2>1, <2>2, <4>1, IdleAccrued
        <3>2. CASE f = 0
            <4>1. PICK x \in Int : x = r.gap /\ 0 <= x /\ x <= 0
                BY <2>1, <3>2
            <4>2. -x = 0
                BY <4>1, NoDays
            <4>3. IdleMove(rows, k).days = 0
                BY <1>6, <4>1, <4>2, Zenon
            <4>4. y = 0
                BY <1>6, <4>3, AccruedTyped
            <4>5. PICK b \in Nat : b = at - e /\ b >= 1
                BY <1>13, <1>17
            <4>6. PICK w \in Nat : w = t - e /\ w <= b
                BY <1>13, <1>17, <4>5
            <4>7. Rounds(0, b)
                BY <2>1, <3>2, <4>5
            <4>8. 0 \in Fair(w) - 1260 .. Fair(w) + 1260
                BY <4>5, <4>6, <4>7, NoneIsFair
            <4> QED  BY <2>2, <4>4, <4>6, <4>8
        <3> QED  BY <2>1, <3>1, <3>2
    <2> QED  BY <2>2, <2>3, <2>4
<1> QED  BY <1>16, <1>17

-----------------------------------------------------------------------------
(* Columns that differ by little in few rows have totals that differ little. *)

UpTo(K, k) == {i \in K : i <= k}

LEMMA UpToIs ==
    ASSUME NEW n \in Nat, NEW K, K \subseteq 1 .. n, NEW k \in Int
    PROVE  /\ UpTo(K, 0) = {} /\ UpTo(K, n) = K
           /\ k + 1 \in K => UpTo(K, k + 1) = UpTo(K, k) \cup {k + 1} /\ k + 1 \notin UpTo(K, k)
<1>1. \A i \in K : i \in Int /\ ~(i <= 0) /\ i <= n
    OBVIOUS
<1>2. UpTo(K, 0) = {}
    <2>1. \A i : i \notin UpTo(K, 0)
        BY <1>1 DEF UpTo
    <2> QED  BY <2>1
<1>3. UpTo(K, n) = K
    <2>1. \A i : i \in UpTo(K, n) <=> i \in K
        BY <1>1, Zenon DEF UpTo
    <2> QED  BY <2>1, Zenon
<1>4. ASSUME k + 1 \in K PROVE UpTo(K, k + 1) = UpTo(K, k) \cup {k + 1} /\ k + 1 \notin UpTo(K, k)
    <2>1. \A i \in K : i <= k + 1 <=> i <= k \/ i = k + 1
        BY <1>1
    <2>2. \A i : i \in UpTo(K, k + 1) <=> i \in UpTo(K, k) \/ i = k + 1
        BY <1>4, <2>1, Zenon DEF UpTo
    <2>3. k + 1 \notin UpTo(K, k)
        BY DEF UpTo
    <2> QED  BY <2>2, <2>3, Zenon
<1> QED  BY <1>2, <1>3, <1>4

LEMMA UpToStays ==
    ASSUME NEW n \in Nat, NEW K, K \subseteq 1 .. n, NEW k \in Int, k + 1 \notin K
    PROVE  UpTo(K, k + 1) = UpTo(K, k)
<1>1. \A i \in K : i \in Int /\ i # k + 1
    OBVIOUS
<1>2. \A i \in K : i <= k + 1 <=> i <= k
    BY <1>1
<1>3. \A i : i \in UpTo(K, k + 1) <=> i \in UpTo(K, k)
    BY <1>2, Zenon DEF UpTo
<1> QED  BY <1>3, Zenon

LEMMA TotalsNear ==
    ASSUME NEW n \in Nat, NEW a \in [1 .. n -> Int], NEW b \in [1 .. n -> Int],
           NEW K \in SUBSET (1 .. n), NEW w \in Nat,
           \A k \in (1 .. n) \ K : b[k] = a[k], \A k \in K : b[k] - a[k] \in -w .. w
    PROVE  /\ Cardinality(K) \in Nat /\ Total(a) \in Int /\ Total(b) \in Int
           /\ Total(b) - Total(a) \in -(w * Cardinality(K)) .. w * Cardinality(K)
<1>0. K \subseteq 1 .. n /\ 0 \in Int
    OBVIOUS
<1>1. PICK s : Sums(s, a) /\ Total(a) = s[n] /\ Len(a) = n
    BY ColumnTotals
<1>2. PICK t : Sums(t, b) /\ Total(b) = t[n] /\ Len(b) = n
    BY ColumnTotals
<1>3. /\ s \in [0 .. n -> Int] /\ s[0] = 0 /\ t \in [0 .. n -> Int] /\ t[0] = 0
      /\ \A k \in 1 .. n : s[k] = s[k - 1] + a[k] /\ t[k] = t[k - 1] + b[k]
    BY <1>1, <1>2 DEF Sums
<1> DEFINE Near(k) == /\ IsFiniteSet(UpTo(K, k)) /\ Cardinality(UpTo(K, k)) \in Nat
                      /\ t[k] - s[k] \in -(w * Cardinality(UpTo(K, k))) .. w * Cardinality(UpTo(K, k))
           Fine == {k \in 0 .. n : Near(k)}
<1>4. 0 \in Fine
    <2>1. UpTo(K, 0) = {}
        BY <1>0, UpToIs, Zenon
    <2>2. IsFiniteSet(UpTo(K, 0)) /\ Cardinality(UpTo(K, 0)) = 0
        BY <2>1, FS_EmptySet
    <2>3. t[0] - s[0] = 0 /\ w * 0 = 0 /\ 0 \in 0 .. n
        BY <1>3
    <2>4. Near(0)
        BY <2>2, <2>3
    <2> QED  BY <2>3, <2>4
<1>5. ASSUME NEW k \in 0 .. n - 1, k \in Fine PROVE k + 1 \in Fine
    <2>1. k + 1 \in 1 .. n /\ k + 1 \in 0 .. n /\ (k + 1) - 1 = k /\ k \in 0 .. n /\ k \in Int
        OBVIOUS
    <2>2. PICK c \in Nat : /\ c = Cardinality(UpTo(K, k)) /\ IsFiniteSet(UpTo(K, k))
                           /\ t[k] - s[k] \in -(w * c) .. w * c
        BY <1>5
    <2>3. PICK x \in Int : x = t[k] - s[k]
        BY <1>3, <2>1
    <2>4. PICK y \in Int : y = b[k + 1] - a[k + 1]
        BY <2>1
    <2>5. t[k + 1] - s[k + 1] = x + y
        <3>1. s[k] \in Int /\ t[k] \in Int /\ a[k + 1] \in Int /\ b[k + 1] \in Int
            BY <1>3, <2>1
        <3> QED  BY <1>3, <2>1, <2>3, <2>4, <3>1
    <2>6. PICK p \in Int : p = w * c
        OBVIOUS
    <2>7. CASE k + 1 \in K
        <3>1. UpTo(K, k + 1) = UpTo(K, k) \cup {k + 1} /\ k + 1 \notin UpTo(K, k)
            BY <1>0, <2>1, <2>7, UpToIs, Zenon
        <3>2. IsFiniteSet(UpTo(K, k + 1)) /\ Cardinality(UpTo(K, k + 1)) = c + 1
            <4>1. PICK S : S = UpTo(K, k)
                OBVIOUS
            <4>2. IsFiniteSet(S) /\ c = Cardinality(S) /\ k + 1 \notin S
                BY <2>2, <3>1, <4>1, Zenon
            <4>3. IsFiniteSet(S \cup {k + 1}) /\ Cardinality(S \cup {k + 1}) = c + 1
                BY <4>2, FS_AddElement, Zenon
            <4> QED  BY <3>1, <4>1, <4>3, Zenon
        <3>3. y \in -w .. w
            BY <2>4, <2>7
        <3>4. w * (c + 1) = p + w
            BY <2>6
        <3>5. x + y \in -(p + w) .. p + w
            <4>1. -p <= x /\ x <= p
                BY <2>2, <2>3, <2>6
            <4>2. -w <= y /\ y <= w
                BY <3>3
            <4> QED  BY <4>1, <4>2
        <3>6. t[k + 1] - s[k + 1] \in -(w * (c + 1)) .. w * (c + 1)
            BY <2>5, <3>4, <3>5
        <3>7. Near(k + 1)
            <4>1. c + 1 \in Nat
                OBVIOUS
            <4> QED  BY <3>2, <3>6, <4>1, Zenon
        <3> QED  BY <2>1, <3>7
    <2>8. CASE k + 1 \notin K
        <3>1. UpTo(K, k + 1) = UpTo(K, k)
            BY <1>0, <2>1, <2>8, UpToStays, Zenon
        <3>2. y = 0
            <4>1. a[k + 1] \in Int /\ b[k + 1] = a[k + 1]
                BY <2>1, <2>8
            <4> QED  BY <2>4, <4>1
        <3>3. t[k + 1] - s[k + 1] = t[k] - s[k]
            BY <2>3, <2>5, <3>2
        <3>4. Near(k + 1)
            BY <2>2, <3>1, <3>3
        <3> QED  BY <2>1, <3>4
    <2> QED  BY <2>7, <2>8
<1>6. 0 .. n \subseteq Fine
    <2> HIDE DEF Fine
    <2> QED  BY <1>4, <1>5, Climb
<1>7. UpTo(K, n) = K /\ n \in 0 .. n
    <2>1. UpTo(K, n) = K
        BY <1>0, UpToIs, Zenon
    <2> QED  BY <2>1
<1>8. Near(n)
    BY <1>6, <1>7
<1>9. s[n] \in Int /\ t[n] \in Int
    BY <1>3, <1>7
<1> QED  BY <1>1, <1>2, <1>7, <1>8, <1>9

-----------------------------------------------------------------------------
(* What was spent by a day that is over, as drawn now and an instant later.  *)

LEMMA SpentNear ==
    ASSUME NEW n \in Nat, NEW at \in Int, NEW rows, NEW next, RowsKept(rows, next, n, at),
           NEW d \in Int, EndOfDay(d) <= at, NEW K, K = IdleStill(next)
    PROVE  /\ Cardinality(K) \in Nat
           /\ Total(Spent(rows, at, d)) \in Int /\ Total(Spent(next, at + 1, d)) \in Int
           /\ Total(Spent(next, at + 1, d)) - Total(Spent(rows, at, d))
                \in -(2520 * Cardinality(K)) .. 2520 * Cardinality(K)
<1>0. at + 1 \in Int /\ RowsPlaced(rows, n, at) /\ RowsPlaced(next, n, at + 1)
    BY DEF RowsKept
<1>1. Len(rows) = n /\ Len(next) = n
    BY <1>0 DEF RowsPlaced
<1>2. PICK a : a = Spent(rows, at, d)
    OBVIOUS
<1>3. PICK b : b = Spent(next, at + 1, d)
    OBVIOUS
<1>4. ASSUME NEW k \in 1 .. n
      PROVE  /\ a[k] = Accrued(IdleMove(rows, k), d) + Accrued(OwnMove(rows[k], at), d)
             /\ b[k] = Accrued(IdleMove(next, k), d) + Accrued(OwnMove(next[k], at + 1), d)
    BY <1>1, <1>2, <1>3 DEF Spent
<1>5. ASSUME NEW k \in 1 .. n
      PROVE  \E x, y, z \in Int :
                /\ x = Accrued(IdleMove(rows, k), d) /\ y = Accrued(IdleMove(next, k), d)
                /\ a[k] = x + z /\ b[k] = y + z
    <2>1. IdleMove(rows, k) \in AMove /\ OwnMove(rows[k], at) \in AMove
        BY <1>0, MovesAre
    <2>2. IdleMove(next, k) \in AMove
        BY <1>0, MovesAre
    <2>3. PICK x \in Int : x = Accrued(IdleMove(rows, k), d)
        BY <2>1, AccruedTyped
    <2>4. PICK y \in Int : y = Accrued(IdleMove(next, k), d)
        BY <2>2, AccruedTyped
    <2>5. PICK z \in Int : z = Accrued(OwnMove(rows[k], at), d)
        BY <2>1, AccruedTyped
    <2>6. Accrued(OwnMove(next[k], at + 1), d) = z
        <3>1. /\ Placed(rows[k], PrevOf(rows, k, at), at)
              /\ Placed(next[k], PrevOf(next, k, at + 1), at + 1)
              /\ Kept(rows[k], next[k])
            BY DEF RowsKept, RowsPlaced
        <3> QED  BY <2>5, <3>1, OwnIsKept
    <2>7. a[k] = x + z /\ b[k] = y + z
        BY <1>4, <2>3, <2>4, <2>5, <2>6
    <2> QED  BY <2>3, <2>4, <2>7
<1>6. a \in [1 .. n -> Int] /\ b \in [1 .. n -> Int]
    <2>1. /\ DOMAIN a = 1 .. n /\ a = [k \in 1 .. n |-> a[k]]
          /\ DOMAIN b = 1 .. n /\ b = [k \in 1 .. n |-> b[k]]
        BY <1>1, <1>2, <1>3 DEF Spent
    <2>2. ASSUME NEW k \in 1 .. n PROVE a[k] \in Int /\ b[k] \in Int
        <3>1. PICK x, y, z \in Int : a[k] = x + z /\ b[k] = y + z
            BY <1>5
        <3> QED  BY <3>1
    <2> QED  BY <2>1, <2>2
<1>7. K \in SUBSET (1 .. n)
    BY <1>1 DEF IdleStill, Gaps
<1>8. ASSUME NEW k \in (1 .. n) \ K PROVE b[k] = a[k]
    <2>1. PICK x, y, z \in Int : /\ x = Accrued(IdleMove(rows, k), d) /\ y = Accrued(IdleMove(next, k), d)
                                 /\ a[k] = x + z /\ b[k] = y + z
        BY <1>5
    <2>2. k \in 1 .. n /\ k \notin IdleStill(next)
        BY <1>8
    <2>3. y = x
        BY <2>1, <2>2, IdleIsKept
    <2> QED  BY <2>1, <2>3
<1>9. PICK w \in Nat : w = 2520
    OBVIOUS
<1>10. ASSUME NEW k \in K PROVE b[k] - a[k] \in -w .. w
    <2>1. k \in 1 .. n /\ k \in IdleStill(next)
        BY <1>7, <1>10
    <2>2. PICK x, y, z \in Int : /\ x = Accrued(IdleMove(rows, k), d) /\ y = Accrued(IdleMove(next, k), d)
                                 /\ a[k] = x + z /\ b[k] = y + z
        BY <1>5, <2>1
    <2>3. PICK v \in Int : v = y - x /\ -w <= v /\ v <= w
        <3>1. -2520 <= y - x /\ y - x <= 2520
            BY <2>1, <2>2, IdleIsRounded
        <3> QED  BY <1>9, <3>1
    <2>4. b[k] - a[k] = v
        BY <2>2, <2>3
    <2> QED  BY <2>3, <2>4
<1>11. /\ Cardinality(K) \in Nat /\ Total(a) \in Int /\ Total(b) \in Int
       /\ Total(b) - Total(a) \in -(2520 * Cardinality(K)) .. 2520 * Cardinality(K)
    <2>1. (\A k \in (1 .. n) \ K : b[k] = a[k]) /\ \A k \in K : b[k] - a[k] \in -w .. w
        BY <1>8, <1>10
    <2>2. /\ Cardinality(K) \in Nat /\ Total(a) \in Int /\ Total(b) \in Int
          /\ Total(b) - Total(a) \in -(w * Cardinality(K)) .. w * Cardinality(K)
        BY <1>6, <1>7, <2>1, TotalsNear
    <2> QED  BY <1>9, <2>2
<1> QED  BY <1>2, <1>3, <1>11

(* The calendar rewrites nothing: when time passes and nobody reports anything, *)
(* what the series shows of a day that is over stays, but for the rounding of   *)
(* the idle days before each phase that still has not begun: a day at most.     *)
THEOREM ThePastStaysPut == Spec => []PastStaysPut
<1>1. ASSUME LedgerInv PROVE PastStaysPut
    <2> SUFFICES ASSUME NEW d, d \in DOMAIN Series(now), d \in DOMAIN Series(now + 1), EndOfDay(d) <= now,
                        NEW next, next = Schedule(OnPage, now + 1),
                        NEW c, c = Cardinality(IdleStill(next))
                 PROVE  Size(Series(now + 1)[d] - Series(now)[d]) <= Parts * c
        BY DEF PastStaysPut, IdleStill
    <2>1. LedgerTyped /\ program \in Programs /\ now \in Int /\ now + 1 \in Int
        BY <1>1, LedgerAssumption DEF LedgerInv, LedgerTyped, Time
    <2>2. PICK facts \in [Phase -> Fact] : facts = OnPage
        BY <2>1, FactsTyped
    <2>3. PICK n \in Nat : n = Len(PlannedChainOf[program])
        BY <2>1, ChainIsOfPhases, LenProperties
    <2>4. PICK rows : rows = Schedule(OnPage, now)
        OBVIOUS
    <2>5. RowsKept(rows, next, n, now)
        <3>1. Finished(facts, now) /\ \A p \in Phase : facts[p].dot >= 100 => facts[p].started # None
            BY <1>1, <2>2, PageFinished, DoneHasBegun
        <3> QED  BY <2>1, <2>2, <2>3, <2>4, <3>1, RowsAreKept
    <2>6. RowsPlaced(rows, n, now) /\ RowsPlaced(next, n, now + 1)
        BY <2>5 DEF RowsKept
    <2>7. PICK a, b : a = Total(Spent(rows, now, d)) /\ b = Total(Spent(next, now + 1, d))
        OBVIOUS
    <2>8. /\ DOMAIN Series(now) = FirstDay(rows) .. LastDay(rows, now)
          /\ Series(now)[d] = Parts * StartBuffer(OnPage, rows) + a
        BY <2>4, <2>7, SeriesIs
    <2>9. Series(now + 1)[d] = Parts * StartBuffer(OnPage, next) + b
        BY <2>7, SeriesIs
    <2>10. d \in Int
        BY <2>8
    <2>11. PICK x \in Int : x = StartBuffer(OnPage, rows)
        BY <1>1, <2>1, <2>6, StartBufferIs
    <2>12. StartBuffer(OnPage, next) = x
        <3>1. \A k \in 1 .. n : next[k].phase = rows[k].phase
            BY <2>5 DEF RowsKept, Kept
        <3>2. [k \in 1 .. n |-> Full(next[k].phase)] = [k \in 1 .. n |-> Full(rows[k].phase)]
            BY <3>1
        <3>3. StartBuffer(OnPage, rows) = Days(program.sop - (FirstStart(OnPage) +
                  Total([k \in 1 .. n |-> Full(rows[k].phase)])))
            BY <1>1, <2>1, <2>6, StartBufferIs
        <3>4. StartBuffer(OnPage, next) = Days(program.sop - (FirstStart(OnPage) +
                  Total([k \in 1 .. n |-> Full(next[k].phase)])))
            BY <1>1, <2>1, <2>6, StartBufferIs
        <3> QED  BY <2>11, <3>2, <3>3, <3>4, Zenon
    <2>13. a \in Int /\ b \in Int /\ c \in Nat /\ b - a \in -(2520 * c) .. 2520 * c
        BY <2>1, <2>5, <2>7, <2>10, SpentNear
    <2>14. PICK y \in Int : y = Series(now + 1)[d] - Series(now)[d] /\ y = b - a
        BY <2>8, <2>9, <2>11, <2>12, <2>13 DEF Parts
    <2>15. Size(y) <= Parts * c
        <3>1. y <= 2520 * c /\ -y <= 2520 * c
            BY <2>13, <2>14
        <3> QED  BY <2>13, <3>1 DEF Size, Parts
    <2> QED  BY <2>14, <2>15
<1> QED  BY <1>1, LedgerInvariant, PTL
=============================================================================
