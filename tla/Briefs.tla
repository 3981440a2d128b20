------------------------------- MODULE Briefs -------------------------------
(***************************************************************************)
(* AI briefs (lib/summaries.ts): when one is out of date, who rewrites it, *)
(* and what the writer had read by then.                                   *)
(*                                                                         *)
(* createSummary reads the previous brief's date, gathers evidence since   *)
(* it, asks the model, and only then inserts a row whose generatedAt is the*)
(* time of the INSERT.  Several writers may be at it: the worker's cycle   *)
(* and any number of open panels.  A brief is stale when content is dated  *)
(* after its generatedAt, or, for a program, when the schedule has left    *)
(* the one it was written against.                                         *)
(*                                                                         *)
(* An item is a document, dated by its creation.  (Updates are read after  *)
(* the same fashion, with caps of their own; the new digest of a refreshed *)
(* document changes neither its date nor, hence, anything here.)  Evidence *)
(* is capped: a query takes the newest documents, and the list they go on  *)
(* may be nearly full by then.  Room says how many of them get on it.      *)
(***************************************************************************)
EXTENDS Naturals, Sequences, FiniteSets, SequencesExt

CONSTANTS
    Program,        \* programs; each has a brief of its own
    Ecosystem,      \* the scope of the whole portfolio
    Item,           \* documents that may come
    Home,           \* Home[i]: the program that item i belongs to, or Ecosystem
    Room,           \* how many documents may get into the evidence of a brief
    Lookback,       \* WINDOW_DAYS: how far a first brief looks back
    Worlds,         \* bound: what comes, moves and fails in one behaviour
    User,           \* open panels
    Cron,           \* the worker's summary cycle
    Order,          \* the scopes in the order the cycle takes them
    Requests,       \* what the cycle may ask of Gemini (runSummaryCycle's maxRequests)
    MaxTime,        \* bound: instants
    MaxClicks,      \* bound: regenerations asked for by people
    MaxPlans        \* bound: schedules a program moves to and fro between

Scope == Program \cup {Ecosystem}
Writer == User \cup {Cron}
Scopes == {Order[k] : k \in DOMAIN Order}

ASSUME ScopeAssumption ==
    /\ Ecosystem \notin Program
    /\ Order \in Seq(Scope) /\ Scopes = Scope
    /\ Home \in [Item -> Scope] /\ IsFiniteSet(Item) /\ Room \subseteq Nat
ASSUME WriterAssumption == Cron \notin User
ASSUME BoundAssumption ==
    /\ {Requests, MaxTime} \subseteq Nat \ {0}
    /\ {Lookback, MaxClicks, MaxPlans} \subseteq Nat

(* Documents that may come, programs whose schedule may move, model calls  *)
(* that may give no brief.                                                 *)
World == [docs : SUBSET Item, restless : SUBSET Program, failures : Nat]
ASSUME WorldAssumption == Worlds \subseteq World

Never == 0
Time == 1 .. MaxTime

VARIABLES
    world,      \* the one of Worlds that this is
    now,        \* the database's clock
    came,       \* came[i]: when item i was written, or Never
    plan,       \* plan[p]: the schedule of program p, as its fingerprint
    brief,      \* brief[s]: the newest brief of scope s: its date and fingerprint
    job,        \* job[w]: the brief that writer w is working on
    cycle,      \* the worker's cycle: scopes to go, requests spent
    told,       \* told[s]: items given to the writer of some brief of s
    missed,     \* missed[s]: items that came while a brief of s was being written
    left,       \* left[s]: items that a brief of s had no room for, or too old for its first
    clicks, faults

content == <<world, now, came, plan>>
ghosts == <<told, missed, left>>
vars == <<content, brief, job, cycle, ghosts, clicks, faults>>

Job == [at : {"idle", "gather", "ask"}, scope : Scope, since : Time \cup {Never},
        evidence : SUBSET Item, print : 0 .. MaxPlans]
Idle == [at |-> "idle", scope |-> Ecosystem, since |-> Never, evidence |-> {},
         print |-> 0]

TypeOK ==
    /\ world \in Worlds
    /\ now \in Time
    /\ came \in [Item -> Time \cup {Never}]
    /\ plan \in [Program -> 0 .. MaxPlans]
    /\ brief \in [Scope -> [at : Time \cup {Never}, print : 0 .. MaxPlans]]
    /\ job \in [Writer -> Job]
    /\ cycle \in [todo : Seq(Scope), asked : 0 .. Requests]
    /\ told \in [Scope -> SUBSET Item]
    /\ {missed, left} \subseteq [Scope -> SUBSET Item]
    /\ clicks \in 0 .. MaxClicks
    /\ faults \in Nat

Init ==
    /\ world \in Worlds
    /\ now = 1
    /\ came = [i \in Item |-> Never]
    /\ plan = [p \in Program |-> 0]
    /\ brief = [s \in Scope |-> [at |-> Never, print |-> 0]]
    /\ job = [w \in Writer |-> Idle]
    /\ cycle = [todo |-> <<>>, asked |-> 0]
    /\ told = [s \in Scope |-> {}]
    /\ missed = [s \in Scope |-> {}]
    /\ left = [s \in Scope |-> {}]
    /\ clicks = 0
    /\ faults = 0

-----------------------------------------------------------------------------

Here == {i \in Item : came[i] # Never}
About(s) == {i \in Here : s = Ecosystem \/ Home[i] = s}
Missing(s) == brief[s].at = Never

Drifted(s) == s \in Program /\ plan[s] # brief[s].print

(* getSummary, and the cycle's aggregates: content created after the brief.*)
Stale(s) == ~Missing(s) /\ (Drifted(s) \/ \E i \in About(s) : came[i] > brief[s].at)

(* Mutant of Window: the window starts after the previous brief's instant. *)
WindowAfter(s, since) == {i \in About(s) : came[i] > since}

(* Where the documents are taken from: a program brief looks at all of its *)
(* own, the ecosystem brief at those since its window began.               *)
Window(s, since) == {i \in About(s) : s \in Program \/ came[i] >= since}

(* The n newest of them; two of one date come in any order.                *)
Newest(docs, n) ==
    {kept \in SUBSET docs :
        /\ Cardinality(kept) = IF n < Cardinality(docs) THEN n ELSE Cardinality(docs)
        /\ \A i \in kept, j \in docs \ kept : came[i] >= came[j]}

(* Items that n documents of the scope, none of them older, stand before.  *)
BeyondRoom(s, n) ==
    {i \in About(s) : Cardinality({j \in About(s) \ {i} : came[j] >= came[i]}) >= n}

BeingWritten(s) == \E w \in Writer : job[w].at = "ask" /\ job[w].scope = s

Free(w) == job' = [job EXCEPT ![w] = Idle]
Fault == faults < world.failures /\ faults' = faults + 1

-----------------------------------------------------------------------------
(* The world. *)

Elapse ==
    /\ now < MaxTime
    /\ now' = now + 1
    /\ UNCHANGED <<world, came, plan, brief, job, cycle, ghosts, clicks, faults>>

Arrive(i) ==
    /\ i \in world.docs
    /\ came[i] = Never
    /\ came' = [came EXCEPT ![i] = now]
    /\ missed' = [s \in Scope |-> IF BeingWritten(s) THEN missed[s] \cup {i} ELSE missed[s]]
    /\ UNCHANGED <<world, now, plan, brief, job, cycle, told, left, clicks, faults>>

(* Schedules move, and move back, for ever.                                *)
Replan(p) ==
    /\ p \in world.restless
    /\ \E print \in (0 .. MaxPlans) \ {plan[p]} : plan' = [plan EXCEPT ![p] = print]
    /\ UNCHANGED <<world, now, came, brief, job, cycle, ghosts, clicks, faults>>

-----------------------------------------------------------------------------
(* createSummary, by any writer. *)

(* The window of a first brief begins WINDOW_DAYS ago.                     *)
WindowStart(s) ==
    IF ~Missing(s) THEN brief[s].at ELSE IF now > Lookback THEN now - Lookback ELSE Never

Begin(w, s) ==
    /\ job' = [job EXCEPT ![w] = [Idle EXCEPT !.at = "gather", !.scope = s,
                                             !.since = WindowStart(s)]]
    /\ left' = IF Missing(s)
               THEN [left EXCEPT ![s] = @ \cup {i \in About(s) : came[i] < WindowStart(s)}]
               ELSE left

Gather(w) ==
    LET s == job[w].scope IN
    /\ job[w].at = "gather"
    /\ \E n \in Room : \E evidence \in Newest(Window(s, job[w].since), n) :
          /\ job' = [job EXCEPT ![w].at = "ask", ![w].evidence = evidence,
                                ![w].print = IF s \in Program THEN plan[s] ELSE 0]
          /\ left' = [left EXCEPT ![s] = @ \cup BeyondRoom(s, n)]
    /\ UNCHANGED <<content, brief, cycle, told, missed, clicks, faults>>

(* The model answered; the row is inserted and dated now. *)
Insert(w) ==
    LET s == job[w].scope IN
    /\ job[w].at = "ask"
    /\ brief' = [brief EXCEPT ![s] = [at |-> now, print |-> job[w].print]]
    /\ told' = [told EXCEPT ![s] = @ \cup job[w].evidence]
    /\ UNCHANGED <<missed, left>>
    /\ Free(w)

-----------------------------------------------------------------------------
(* A panel: it regenerates a stale brief by itself, and any brief on a     *)
(* click.                                                                  *)

Regenerate(u, s) ==
    /\ job[u].at = "idle"
    /\ clicks < MaxClicks
    /\ clicks' = clicks + 1
    /\ Begin(u, s)
    /\ UNCHANGED <<content, brief, cycle, told, missed, faults>>

PanelInsert(u) == Insert(u) /\ UNCHANGED <<content, cycle, clicks, faults>>

(* A refusal, an unusable answer, a closed tab: the last brief is unchanged. *)
PanelFails(u) ==
    /\ job[u].at = "ask"
    /\ Fault
    /\ Free(u)
    /\ UNCHANGED <<content, brief, cycle, ghosts, clicks>>

-----------------------------------------------------------------------------
(* runSummaryCycle. *)

CycleIdle == job[Cron].at = "idle" /\ cycle.todo = <<>>

(* Mutant of Queue: programs first, the portfolio last.                    *)
QueueBackwards == SelectSeq(Reverse(Order), Missing) \o SelectSeq(Reverse(Order), Stale)

(* The missing scopes first, then the stale, each in the order of targets. *)
Queue == SelectSeq(Order, Missing) \o SelectSeq(Order, Stale)

(* The verdicts are taken once. *)
StartCycle ==
    /\ CycleIdle
    /\ cycle' = [todo |-> Queue, asked |-> 0]
    /\ cycle'.todo # <<>>
    /\ UNCHANGED <<content, brief, job, ghosts, clicks, faults>>

NextScope ==
    /\ job[Cron].at = "idle"
    /\ cycle.todo # <<>>
    /\ cycle.asked < Requests
    /\ Begin(Cron, Head(cycle.todo))
    /\ cycle' = [cycle EXCEPT !.todo = Tail(@)]
    /\ UNCHANGED <<content, brief, told, missed, clicks, faults>>

(* The allowance is spent: the rest is skipped (hitCap). *)
HitCap ==
    /\ job[Cron].at = "idle"
    /\ cycle.todo # <<>>
    /\ cycle.asked >= Requests
    /\ cycle' = [cycle EXCEPT !.todo = <<>>]
    /\ UNCHANGED <<content, brief, job, ghosts, clicks, faults>>

(* One request, or two when the first answer broke a mechanical rule and   *)
(* the allowance still pays for another.                                   *)
Attempts == {k \in 1 .. 2 : cycle.asked + k <= Requests}

CycleInsert ==
    /\ Insert(Cron)
    /\ \E k \in Attempts : cycle' = [cycle EXCEPT !.asked = @ + k]
    /\ UNCHANGED <<content, clicks, faults>>

(* createSummary returned no brief (its request counts) or threw (it does  *)
(* not).                                                                   *)
CycleFails ==
    /\ job[Cron].at = "ask"
    /\ Fault
    /\ \E k \in {0, 1} : cycle' = [cycle EXCEPT !.asked = @ + k]
    /\ Free(Cron)
    /\ UNCHANGED <<content, brief, ghosts, clicks>>

-----------------------------------------------------------------------------

Outside == Elapse \/ (\E i \in Item : Arrive(i)) \/ (\E p \in Program : Replan(p))
PanelStep(u) == (\E s \in Scope : Regenerate(u, s)) \/ Gather(u) \/ PanelInsert(u) \/ PanelFails(u)
CycleStep == StartCycle \/ NextScope \/ HitCap \/ Gather(Cron) \/ CycleInsert

Next ==
    \/ Outside
    \/ \E u \in User : PanelStep(u)
    \/ CycleStep
    \/ CycleFails

Spec == Init /\ [][Next]_vars

(* The scheduler calls the worker again and again and a cycle goes on to   *)
(* its end; nobody has to open a panel, and nothing has to come.           *)
FairSpec == Spec /\ WF_vars(CycleStep)

-----------------------------------------------------------------------------
(* Safety. *)

(* What is dated before the newest brief was in the evidence of that brief *)
(* or of an earlier one, unless it came while a brief of that scope was    *)
(* being written, newer documents took all the room there was, or it was   *)
(* older than a first brief looks back: concurrent writers lose nothing    *)
(* else to each other (the window of createSummary).                       *)
LostOnlyWhileWriting ==
    \A s \in Scope : \A i \in About(s) :
        came[i] < brief[s].at => i \in told[s] \cup missed[s] \cup left[s]

-----------------------------------------------------------------------------
(* Liveness. *)

Due(s) == Missing(s) \/ Stale(s)

(* So many scopes that are taken before s may use up the allowance: each   *)
(* may cost two requests.                                                  *)
Enough == (Requests + 1) \div 2
Place(s) == CHOOSE k \in DOMAIN Order : Order[k] = s
Before(t, s) == IF Missing(t) = Missing(s) THEN Place(t) < Place(s) ELSE Missing(t)
MayBeSkipped(s) == Cardinality({t \in Scope : Due(t) /\ Before(t, s)}) >= Enough

(* The capped cycle takes up every scope that is missing or stale, however *)
(* often schedules move meanwhile, unless those that go before it may use  *)
(* the allowance up again and again: the order is the same in every cycle, *)
(* and what was skipped is not remembered.                                 *)
StaleBriefsAreRewritten ==
    \A s \in Scope :
        <>[]~MayBeSkipped(s) =>
            []<>(~Due(s) \/ (job[Cron].at = "ask" /\ job[Cron].scope = s))
=============================================================================
