------------------------------ MODULE ChainLedger ------------------------------
(***************************************************************************)
(* The buffer ledger of one program: lib/chainLedger.ts over the planned   *)
(* critical chain, what feeds it on the program page and on the portfolio  *)
(* pages (lib/chainLedgerData.ts), and the list of next steps              *)
(* components/ChainLedger.tsx makes of it.  People move dots and claim     *)
(* starts while the calendar runs; the structure and the estimates stay.   *)
(*                                                                         *)
(* Instants and spans are counted in ticks, Ticks to a day (the code has   *)
(* milliseconds), so that rounding to days is seen both ways; what the     *)
(* code names ...Days is in days.                                          *)
(***************************************************************************)
EXTENDS CriticalChain, SequencesExt

CONSTANTS
    Ticks,             \* the resolution of time: instants in a day
    Phase,
    Programs,          \* [plan, deps, sop, contended]: estimates in days, the
                       \* dependencies as in CriticalChain, the SOP date (an instant,
                       \* or None), phases whose people other programs want
    Dot,               \* hill positions in percent
    ClaimDate,         \* dates a start may be claimed for, besides today
    TrendWindow,       \* "four weeks", in ticks
    TrendLoss,         \* ... and the days lost in them that ask for a plan
    MaxNow, MaxUpdates, MaxClaims

ASSUME LedgerAssumption ==
    /\ Ticks \in Nat \ {0}
    /\ Phase \subseteq Nat \ {0} /\ IsFiniteSet(Phase)
    /\ {0, 100} \subseteq Dot /\ Dot \subseteq 0 .. 100
    /\ \A g \in Programs : DOMAIN g.plan = Phase /\ (\A p \in Phase : g.plan[p] \in Nat)
                          /\ g.deps \subseteq Phase \X Phase /\ g.sop \in Int
    /\ ClaimDate \subseteq Int
    /\ TrendWindow \in Nat /\ MaxNow \in Nat /\ MaxUpdates \in Nat /\ MaxClaims \in Nat

VARIABLES
    program,           \* one of Programs
    now,
    history,           \* per phase: the PhaseStates, oldest first
    claimed,           \* per phase: Phase.startedAt, None if nobody claimed one
    shown,             \* per past instant: the finish the page projected then,
                       \* forgotten once a start is restated
    restated,          \* whether a start was stated after the fact, or retracted
    claims             \* start claims so far
vars == <<program, now, history, claimed, shown, restated, claims>>

None == -1000
Time == 0 .. MaxNow
Known(x, default) == IF x = None THEN default ELSE x
Later(a, b) == IF a < b THEN b ELSE a
Size(n) == IF n < 0 THEN -n ELSE n

\* Math.round of a span, in days: half a day rounds up, less rounds down.
Days(span) == (2 * span + Ticks) \div (2 * Ticks)

-----------------------------------------------------------------------------
(* Where a phase stands                                                      *)

\* The newest of the rows K of a phase's history.
Latest(h, K) == IF K = {} THEN 0 ELSE h[CHOOSE k \in K : \A o \in K : o <= k].dot

\* The first time the dot was at d or beyond.
FirstFrom(h, K, d) ==
    LET reached == {h[k].at : k \in {n \in K : h[n].dot >= d}}
    IN  IF reached = {} THEN None ELSE CHOOSE t \in reached : \A o \in reached : t <= o

\* A claim wins; without one the first progress counts, until the dot is back at 0.
EffectiveStartedAt(claim, dot, first) ==
    Known(claim, IF dot > 0 THEN first ELSE None)

OnPage ==
    [p \in Phase |->
        LET h == history[p]
            dot == Latest(h, DOMAIN h)
        IN  [dot |-> dot, completed |-> FirstFrom(h, DOMAIN h, 100),
             started |-> EffectiveStartedAt(claimed[p], dot, FirstFrom(h, DOMAIN h, 1))]]

InPortfolio ==
    [p \in Phase |->
        LET h == history[p]
        IN  [dot |-> Latest(h, DOMAIN h), completed |-> FirstFrom(h, DOMAIN h, 100),
             started |-> Known(claimed[p], FirstFrom(h, DOMAIN h, 1))]]

\* Mutant: an update of the very instant is left out.
UptoBefore(h, t) == {k \in DOMAIN h : h[k].at < t}

Upto(h, t) == {k \in DOMAIN h : h[k].at <= t}

\* phasesAsOf: the same facts as they stood at an earlier time.
AsOf(facts, t) ==
    [p \in Phase |->
        LET h == history[p]
            K == Upto(h, t)
            claim == facts[p].started
        IN  [dot |-> Latest(h, K), completed |-> FirstFrom(h, K, 100),
             started |-> IF claim # None /\ claim <= t THEN claim ELSE FirstFrom(h, K, 1)]]

-----------------------------------------------------------------------------
(* The schedule along the chain                                              *)

\* plannedChainOf: the critical path with every dot at 0.
PlannedChainOf ==
    [g \in Programs |-> CriticalPath(Phase, g.deps, g.plan, [p \in Phase |-> 0])]

\* Mutant: a phase that has not begun is placed where the one before it ended.
StartWithoutToday(prev, at) == prev.end

\* What has not begun starts when its turn comes, and not before today.
EarliestStart(prev, at) == Later(prev.end, at)

\* Days nobody worked: only after a phase that is finished.
IdleBefore(prev, start) ==
    IF prev.kind = "done" THEN Later(0, Days(start - prev.end)) ELSE 0

\* One row of scheduleAt: phase p with the facts f, after the row prev.
RowOf(p, f, prev, at) ==
    LET full == Ticks * program.plan[p]
        rest == (full * (100 - f.dot)) \div 100
        kind == IF f.dot >= 100 THEN "done"
                ELSE IF f.started # None THEN "active" ELSE "notStarted"
        start == CASE kind = "done"   -> Known(f.started, prev.end)
                   [] kind = "active" -> f.started
                   [] OTHER           -> EarliestStart(prev, at)
        end == CASE kind = "done"   -> Known(f.completed, start + full)
                 [] kind = "active" -> at + rest
                 [] OTHER           -> start + full
    IN  [phase |-> p, kind |-> kind, start |-> start, end |-> end,
         variance |-> CASE kind = "done"   -> Days(end - start) - program.plan[p]
                        [] kind = "active" -> Days(end - start - full)
                        [] OTHER           -> 0,
         remaining |-> IF kind = "done" THEN 0 ELSE Days(rest),
         gap |-> IF kind = "done" /\ f.started = None THEN 0 ELSE IdleBefore(prev, start)]

RowBefore(rows, at) == IF rows = <<>> THEN [kind |-> "none", end |-> at] ELSE Last(rows)

NextRow(rows, p, facts, at) == Append(rows, RowOf(p, facts[p], RowBefore(rows, at), at))

\* scheduleAt: the rows along a chain at an instant.
RowsAlong(chain, facts, at) ==
    LET rows[k \in 0 .. Len(chain)] ==
            IF k = 0 THEN <<>> ELSE NextRow(rows[k - 1], chain[k], facts, at)
    IN  rows[Len(chain)]

Schedule(facts, at) == RowsAlong(PlannedChainOf[program], facts, at)

Finish(rows) == IF rows = <<>> THEN None ELSE Last(rows).end

Buffer(rows) ==
    IF program.sop = None \/ rows = <<>> THEN None ELSE Days(program.sop - Finish(rows))

-----------------------------------------------------------------------------
(* Where the buffer went                                                     *)

ForecastNoise == 2                   \* FORECAST_NOISE_DAYS
SevereOverrun == 10                  \* SEVERE_OVERRUN_PCT

IsRealizedOverrun(r) == r.kind = "done" /\ r.variance >= 1
IsForecastOver(r) == r.kind = "active" /\ r.variance >= ForecastNoise
\* Mutant: only what was lost is counted, not what a phase gave back.
CountsLosses(r) == r.kind \in {"done", "active"} /\ r.variance >= 1

Counts(r) ==
    \/ r.kind = "done"
    \/ r.kind = "active" /\ Size(r.variance) >= ForecastNoise

Total(numbers) ==
    LET total[k \in 0 .. Len(numbers)] == IF k = 0 THEN 0 ELSE total[k - 1] + numbers[k]
    IN  total[Len(numbers)]

\* The days the waterfall says were lost (gains are negative).
Attributed(rows) ==
    Total([k \in 1 .. Len(rows) |->
        rows[k].gap + IF Counts(rows[k]) THEN rows[k].variance ELSE 0])

\* t0: the earliest start anywhere in the program.
FirstStart(facts) ==
    LET starts == {facts[p].started : p \in Phase} \ {None}
    IN  IF starts = {} THEN now ELSE CHOOSE t \in starts : \A o \in starts : t <= o

StartBuffer(facts, rows) ==
    LET planned == Total([k \in 1 .. Len(rows) |-> Ticks * program.plan[rows[k].phase]])
    IN  Days(program.sop - (FirstStart(facts) + planned))

Unattributed(facts, rows) ==
    StartBuffer(facts, rows) - Buffer(rows) - Attributed(rows)

-----------------------------------------------------------------------------
(* What the reader is told to do                                             *)

PlanOf(r) == program.plan[r.phase]

OverPct(r) == IF PlanOf(r) > 0 THEN (200 * r.variance + PlanOf(r)) \div (2 * PlanOf(r)) ELSE 0

LiveOverruns(rows) == {r \in Range(rows) : IsForecastOver(r)}
SunkOverruns(rows) == {r \in Range(rows) : IsRealizedOverrun(r)}
Oversubscribed(rows) == {r \in Range(rows) : r.kind # "done" /\ r.phase \in program.contended}
Handoffs(rows) ==
    {k \in 1 .. Len(rows) - 1 : rows[k].kind = "active" /\ rows[k + 1].kind = "notStarted"}
Overshot(rows) == Buffer(rows) # None /\ Buffer(rows) < 0

\* How the buffer moved in the replay's last four weeks.
FourWeekDelta(facts) ==
    LET was == Buffer(Schedule(AsOf(facts, now - TrendWindow), now - TrendWindow))
        is == Buffer(Schedule(AsOf(facts, now), now))
    IN  IF \A p \in Phase : history[p] = <<>> THEN 0 ELSE is - was

Register(facts, rows) ==
    LET severe == {r \in LiveOverruns(rows) : OverPct(r) >= SevereOverrun}
        left == Total([k \in 1 .. Len(rows) |-> rows[k].remaining])
        thin == Buffer(rows) < Days(left) \/ FourWeekDelta(facts) <= -TrendLoss
    IN  IF severe # {} THEN "act"
        ELSE IF Buffer(rows) = None THEN "none"
        ELSE IF Overshot(rows) THEN "act"
        ELSE IF thin THEN "plan" ELSE "none"

\* Mutant: an overrun without an estimate counts as a step.
YieldsAnyOverrun(rows) ==
    \/ LiveOverruns(rows) \cup SunkOverruns(rows) # {}
    \/ Oversubscribed(rows) # {} \/ Handoffs(rows) # {} \/ Overshot(rows)

\* yieldsStep, of any situation of the program.
YieldsStep(rows) ==
    \/ \E r \in LiveOverruns(rows) \cup SunkOverruns(rows) : PlanOf(r) > 0
    \/ Oversubscribed(rows) # {} \/ Handoffs(rows) # {} \/ Overshot(rows)

\* floorStep: complete what runs, else start what is next, else nothing is left.
FloorStep(rows) ==
    LET running == {r \in Range(rows) : r.kind = "active"}
        waiting == {k \in 1 .. Len(rows) : rows[k].kind = "notStarted"}
        idle == {k \in waiting : rows[k].gap >= 1}
        first(S) == CHOOSE k \in S : \A o \in S : k <= o
        start(S) == [floor |-> "start", phases |-> {rows[first(S)].phase}]
    IN  IF running # {} THEN [floor |-> "complete", phases |-> {r.phase : r \in running}]
        ELSE IF idle # {} THEN start(idle)
        ELSE IF waiting # {} THEN start(waiting)
        ELSE [floor |-> "allFinished", phases |-> {}]

Floor(facts, rows) ==
    IF Register(facts, rows) # "none" /\ ~YieldsStep(rows) THEN {FloorStep(rows)} ELSE {}

\* The bullets of ChainLedger.tsx, assembled there kind by kind; the load of the
\* program's owner, which comes from elsewhere, is left out.
NextSteps(facts, rows) ==
    LET phases(R) == {r.phase : r \in R}
        overruns == {r \in LiveOverruns(rows) \cup SunkOverruns(rows) : PlanOf(r) > 0}
        covered(k) == rows[k + 1].phase \in phases(Oversubscribed(rows))
        upNext == {k \in Handoffs(rows) : \A o \in Handoffs(rows) : k <= o}
    IN  {<<"overrun", p>> : p \in phases(overruns)}
        \cup {<<"oversubscribed", p>> : p \in phases(Oversubscribed(rows))}
        \cup {<<"handoff", rows[k].phase>> :
                k \in {u \in upNext : ~covered(u) /\ Register(facts, rows) # "none"}}
        \cup {<<"floor", f.floor>> : f \in Floor(facts, rows)}
        \cup {<<"sop", p>> : p \in IF Overshot(rows) THEN {None} ELSE {}}

-----------------------------------------------------------------------------
(* The program moves                                                         *)

Init ==
    /\ program \in Programs
    /\ now = 0
    /\ history = [p \in Phase |-> <<>>]
    /\ claimed = [p \in Phase |-> None]
    /\ shown = [t \in Time |-> None]
    /\ restated = FALSE
    /\ claims = 0

Restates(whether) ==
    /\ restated' = (restated \/ whether)
    /\ shown' = IF whether THEN [t \in Time |-> None] ELSE shown

Updates == FoldFunction(+, 0, [p \in Phase |-> Len(history[p])])

\* updatePhaseHill: a PhaseState.  Back at 0, a start nobody claimed is retracted.
\* (One that leaves the dot where it is adds a row nothing here can tell.)
Update(p) == \E d \in Dot \ {OnPage[p].dot} :
    /\ Updates < MaxUpdates
    /\ history' = [history EXCEPT ![p] = Append(@, [at |-> now, dot |-> d])]
    /\ Restates(d = 0 /\ claimed[p] = None /\ OnPage[p].started # None)
    /\ UNCHANGED <<program, now, claimed, claims>>

\* setPhaseStarted: a date, or none.  A first claim dated today restates nothing.
Claim(p) == \E t \in (ClaimDate \cup {now, None}) \ {claimed[p]} :
    /\ claims < MaxClaims
    /\ claims' = claims + 1
    /\ claimed' = [claimed EXCEPT ![p] = t]
    /\ Restates(~(claimed[p] = None /\ t = now))
    /\ UNCHANGED <<program, now, history>>

\* Time passes; what the page showed is remembered.
Tick ==
    /\ now < MaxNow
    /\ now' = now + 1
    /\ shown' = IF restated THEN shown
                ELSE [shown EXCEPT ![now] = Finish(Schedule(OnPage, now))]
    /\ UNCHANGED <<program, history, claimed, restated, claims>>

Next == Tick \/ \E p \in Phase : Update(p) \/ Claim(p)

Spec == Init /\ [][Next]_vars

-----------------------------------------------------------------------------
(* What the ledger promises                                                  *)

\* One ledger, three feeders: the page, the ledgers of the portfolio and the replay
\* agree on the finish of today, and the replay gives for every past instant the
\* finish the page showed then, as long as nobody restates when a phase began.  (The
\* outlook the portfolio lists is another answer: OutlookIsNoBrighter of ChainViews.)
OneStory ==
    ~restated =>
        /\ Finish(Schedule(InPortfolio, now)) = Finish(Schedule(OnPage, now))
        /\ Finish(Schedule(AsOf(OnPage, now), now)) = Finish(Schedule(OnPage, now))
        /\ \A t \in 0 .. now - 1 : Finish(Schedule(AsOf(OnPage, t), t)) = shown[t]

\* Time alone never flatters a program: while the chain is unfinished, what nobody
\* works on, or reports on, moves the finish out as fast as the calendar runs.
IdleTimeIsPaid ==
    [][Tick => LET rows == Schedule(OnPage, now)
               IN  rows # <<>> /\ Last(rows).kind # "done" =>
                       Finish(Schedule(OnPage', now')) = Finish(rows) + 1]_vars

\* The chain was worked one phase after the other, from the program's first start.
InOrder(facts, rows) ==
    /\ rows[1].start = FirstStart(facts)
    /\ \A k \in 1 .. Len(rows) : rows[k].start <= now \/ rows[k].kind = "notStarted"
    /\ \A k \in 2 .. Len(rows) : rows[k].kind # "notStarted" =>
            rows[k - 1].kind = "done" /\ rows[k - 1].end <= rows[k].start

\* Where the work went in order, the days lost and the days named differ by no more
\* than rounding explains: a day for each phase of the chain, and one.
BooksBalance ==
    LET rows == Schedule(OnPage, now)
    IN  rows # <<>> /\ program.sop # None /\ InOrder(OnPage, rows) =>
            Size(Unattributed(OnPage, rows)) <= Len(rows) + 1

\* A heading that asks for a step has one under it, and the fallback only when
\* there is no other, in the component as much as in the ledger.
AskedMeansTold ==
    LET rows == Schedule(OnPage, now)
        steps == NextSteps(OnPage, rows)
    IN  /\ rows # <<>> /\ Register(OnPage, rows) # "none" => steps # {}
        /\ Floor(OnPage, rows) # {} => Cardinality(steps) = 1
=============================================================================
