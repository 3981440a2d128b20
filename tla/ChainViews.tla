------------------------------- MODULE ChainViews -------------------------------
(***************************************************************************)
(* What is drawn and said of a chain ledger elsewhere: the buffer as one   *)
(* value per day (lib/bufferSeries.ts), what every phase was doing on one  *)
(* day (lib/chainDay.ts), and why the portfolio calls a phase the          *)
(* constraint (lib/chainInsights.ts, lib/dashboardData.ts).  All read the  *)
(* rows of ChainLedger, whose program changes while time passes.           *)
(***************************************************************************)
EXTENDS ChainLedger

Rows == Schedule(OnPage, now)
PlannedEnd(r) == r.start + Ticks * program.plan[r.phase]
Sooner(a, b) == IF a < b THEN a ELSE b

DayOf(t) == t \div Ticks
Midnight(d) == Ticks * d
EndOfDay(d) == Midnight(d + 1)

Gaps(rows) == {k \in 2 .. Len(rows) : rows[k].gap >= 1}       \* hasIdleGapBefore

-----------------------------------------------------------------------------
(* The buffer, day by day                                                    *)

\* A ramp gives a fraction of its days on each day; the values of the series are
\* in these parts of a day, which every window up to ten ticks divides.
Parts == 2520

Move(days, from, to) == [days |-> days, from |-> from, to |-> to]
NoMove(r) == Move(0, r.start, r.start)

\* Mutant: a forecast is drawn from where the plan ended.
ForecastSincePlan(r, at) == Move(-r.variance, PlannedEnd(r), Later(PlannedEnd(r), r.end))

\* A forecast spends days that are still to come, never days gone by.
ForecastSpending(r, at) ==
    LET from == Later(at, PlannedEnd(r)) IN Move(-r.variance, from, Later(from, r.end))

IsRealizedUnderrun(r) == r.kind = "done" /\ r.variance <= -1
IsForecastUnder(r) == r.kind = "active" /\ r.variance <= -ForecastNoise

\* movesOf, of each row: the idle days before it, over the days they lasted, ...
IdleMove(rows, k) ==
    IF k \in Gaps(rows) THEN Move(-rows[k].gap, rows[k - 1].end, rows[k].start)
                        ELSE NoMove(rows[k])

\* ... and its own: an overrun where it was spent, days handed back at once.
OwnMove(r, at) ==
    LET back(t) == Move(-r.variance, t, t)
    IN  CASE IsRealizedOverrun(r)  -> Move(-r.variance, PlannedEnd(r), r.end)
          [] IsRealizedUnderrun(r) -> back(r.end)
          [] IsForecastOver(r)     -> ForecastSpending(r, at)
          [] IsForecastUnder(r)    -> back(Later(at, r.end))
          [] OTHER                 -> NoMove(r)

Moves(rows, at) ==
    {m \in UNION {{IdleMove(rows, k), OwnMove(rows[k], at)} : k \in 1 .. Len(rows)} : m.days # 0}

\* accrued: the part of a move that has happened when day d ends.
Accrued(m, d) ==
    LET t == EndOfDay(d)
    IN  CASE t <= m.from -> 0
          [] t > m.from /\ t >= m.to -> Parts * m.days
          [] OTHER -> (Parts * m.days * (t - m.from)) \div (m.to - m.from)

Begins(rows) == Min({r.start : r \in Range(rows)})
FirstDay(rows) == DayOf(Begins(rows))

\* Mutant: the series ends with the last phase of the chain.
LastDayOfChain(rows, at) == DayOf(Later(at, Finish(rows)))

LastDay(rows, at) == DayOf(Max({at, Finish(rows)} \cup {m.to : m \in Moves(rows, at)}))

\* bufferSeries at an instant: what is left of the buffer on each day; no day
\* without a date to finish by, or without a buffer to start from.
Series(at) ==
    LET facts == OnPage
        rows == Schedule(facts, at)
        first == StartBuffer(facts, rows)
        left(d) == Parts * first + Total([k \in 1 .. Len(rows) |->
                       Accrued(IdleMove(rows, k), d) + Accrued(OwnMove(rows[k], at), d)])
        drawn == rows # <<>> /\ program.sop # None /\ first > 0
    IN  [d \in IF drawn THEN FirstDay(rows) .. LastDay(rows, at) ELSE {} |-> left(d)]

-----------------------------------------------------------------------------
(* One day of the chain                                                      *)

\* phaseDaySpans: what a phase was doing, and is expected to do, when.
Spans(r) ==
    LET span(state, from, to) == [state |-> state, from |-> from, to |-> to]
        tick == PlannedEnd(r)
        late == IF IsForecastOver(r) THEN "forecastOver" ELSE "forecast"
        all == CASE r.kind = "done" ->
                        {span("done", r.start, Sooner(r.end, tick))}
                        \cup IF IsRealizedOverrun(r) THEN {span("over", tick, r.end)} ELSE {}
                 [] r.kind = "active" ->
                        {span("elapsed", r.start, Sooner(now, tick)), span("over", tick, now),
                         span("forecast", now, Sooner(r.end, tick)),
                         span(late, Later(now, tick), r.end)}
                 [] OTHER -> {span("scheduled", r.start, r.end)}
    IN  {s \in all : s.to > s.from}

\* Mutant: what begins during a day is not seen on it.
OverlapFromMidnight(d, from, to) ==
    IF from > Midnight(d) THEN 0 ELSE Sooner(EndOfDay(d), to) - Midnight(d)

Overlap(d, from, to) == Sooner(EndOfDay(d), to) - Later(Midnight(d), from)

\* summaryAt: the state of each phase seen on day d; of two the longer one, of
\* equals the later one.
StatesOn(rows, d) ==
    LET seen(r) == {s \in Spans(r) : Overlap(d, s.from, s.to) > 0}
        wins(s, o) == LET a == Overlap(d, s.from, s.to)
                          b == Overlap(d, o.from, o.to)
                      IN  a > b \/ (a = b /\ s.from >= o.from)
    IN  UNION {{s.state : s \in {x \in seen(r) : \A o \in seen(r) : wins(x, o)}} : r \in Range(rows)}

GapsOn(rows, d) == {k \in Gaps(rows) : Overlap(d, rows[k - 1].end, rows[k].start) > 0}

\* What rounding leaves without a name: a handoff of no days, and what a phase took
\* past its plan when that is no days either.
Unnamed(rows) ==
    {[from |-> rows[k - 1].end, to |-> rows[k].start] : k \in (2 .. Len(rows)) \ Gaps(rows)}
    \cup {[from |-> PlannedEnd(r), to |-> r.end] :
            r \in {o \in Range(rows) : o.kind = "done" /\ ~IsRealizedOverrun(o)}}

Moment(d, s) == 2 * (s.to - s.from) < Ticks /\ Overlap(d, s.from, s.to) > 0

-----------------------------------------------------------------------------
(* Why a phase is the constraint                                             *)

\* The first unfinished phase of the chain that is longest now, 0 if there is none.
LiveConstraint ==
    LET dots == [p \in Phase |-> OnPage[p].dot]
    IN  Constraint(CriticalPath(Phase, program.deps, program.plan, dots), dots)

\* constraintDiagnosis: the situations of the constraint, by severity; {} if the
\* panel shows nothing.
Diagnoses(rows) ==
    LET here(r) == r.phase = LiveConstraint
        found ==
            {"act" : r \in {o \in LiveOverruns(rows) : here(o) /\ PlanOf(o) > 0}}
            \cup {"act" : k \in {g \in Gaps(rows) : here(rows[g])}}
            \cup {"watch" : r \in {o \in Oversubscribed(rows) : here(o)}}
            \cup {"watch" : k \in {h \in Handoffs(rows) :
                               here(rows[h + 1]) /\ LiveConstraint \in program.contended}}
    IN  IF \A r \in Range(rows) : ~here(r) THEN {}
        ELSE IF found = {} THEN {"clear"} ELSE found

-----------------------------------------------------------------------------
(* The outlook of the portfolio                                              *)

\* Mutant: only the phase that is the constraint is counted.
OutlookOfConstraint ==
    IF LiveConstraint = 0 THEN 0 ELSE
        (2 * Remaining(LiveConstraint, program.plan, [p \in Phase |-> OnPage[p].dot]) + 100) \div 200

\* computeCriticalChain's remainingDays: what is left of the chain that is longest now.
OutlookDays ==
    LET dots == [p \in Phase |-> OnPage[p].dot]
        ahead == DaysAhead(Phase, program.deps, program.plan, dots)
    IN  (2 * Longest({ahead[p] : p \in Phase}) + 100) \div 200

\* sopBufferDays: the room between the SOP date and that work, begun today.
OutlookBuffer == Days(program.sop - (now + Ticks * OutlookDays))

-----------------------------------------------------------------------------
(* What the views promise                                                    *)

\* The ledger and the outlook give two answers to when a program finishes.  They part
\* one way only: the outlook, which the portfolio lists and the briefs quote, never
\* shows more room than the ledger does, but for a day of rounding.
OutlookIsNoBrighter ==
    Rows # <<>> /\ program.sop # None => OutlookBuffer <= Buffer(Rows) + 1

\* One set of books: on its last day the series shows the buffer the waterfall of
\* the ledger arrives at, in whatever order the phases were worked.
SeriesClosesTheBooks ==
    LET facts == OnPage
        rows == Schedule(facts, now)
        series == Series(now)
    IN  DOMAIN series # {} =>
            series[Max(DOMAIN series)] = Parts * (StartBuffer(facts, rows) - Attributed(rows))

\* The calendar rewrites nothing: when time passes and nobody reports anything,
\* what the series shows for a day that is over stays, but for the rounding of each
\* handoff that is still idle, which is worth a day at most.
PastStaysPut ==
    LET was == Series(now)
        is == Series(now + 1)
        rows == Schedule(OnPage, now + 1)
        idle == {k \in Gaps(rows) : rows[k].kind = "notStarted"}
    IN  \A d \in DOMAIN was \cap DOMAIN is :
            EndOfDay(d) <= now => Size(is[d] - was[d]) <= Parts * Cardinality(idle)

\* Every day until the chain finishes has a phase or an idle handoff to name, where
\* the work went in order, unless it falls on less than half a day that rounding
\* leaves unnamed; a day gone by shows facts, a day to come a forecast.
DaysAreExplained ==
    LET facts == OnPage
        rows == Schedule(facts, now)
        days == FirstDay(rows) .. LastDay(rows, now)
        explained(d) ==
            LET states == StatesOn(rows, d)
            IN  /\ Later(Midnight(d), Begins(rows)) < Sooner(EndOfDay(d), Finish(rows)) =>
                        \/ states # {} \/ GapsOn(rows, d) # {}
                        \/ \E s \in Unnamed(rows) : Moment(d, s)
                /\ d < DayOf(now) => states \subseteq {"done", "elapsed", "over"}
                /\ d > DayOf(now) => states \subseteq {"forecast", "forecastOver", "scheduled"}
    IN  rows # <<>> /\ InOrder(facts, rows) => \A d \in days : explained(d)

\* "Returns null only when the program has no live constraint at all": the panel
\* says something of every program that has one.
EveryConstraintIsDiagnosed == LiveConstraint # 0 => Diagnoses(Rows) # {}
=============================================================================
