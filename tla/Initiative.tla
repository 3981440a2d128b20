------------------------------- MODULE Initiative -------------------------------
(***************************************************************************)
(* One initiative: its private template, the partners in it, and the copy  *)
(* of the template's steps each of them works through                      *)
(* (app/actions/initiatives.ts, lib/initiativeSync.ts,                     *)
(* lib/createProgramFromTemplate.ts, saveTemplatePhases).                  *)
(*                                                                         *)
(* Membership and template are read before the transactions that act on    *)
(* them, and a batch of partners is worked off one by one, with nothing    *)
(* around the whole: requests interleave at each of those reads.           *)
(***************************************************************************)
EXTENDS Integers, FiniteSets, Sequences, Functions, PhaseDag

CONSTANTS
    Partner,
    Request,     \* the requests in flight
    Name,        \* what a step can be called
    FirstSteps,  \* the steps the snapshot was cloned with: a sequence of names,
    FirstDeps,   \* and what they depend on: pairs of places in it
    MaxStep,     \* bound: template steps ever created
    MaxCopy,     \* bound: copies ever created
    MaxRequests  \* bound: requests ever made

ASSUME FirstAssumption ==
    /\ FirstSteps \in Seq(Name) /\ Len(FirstSteps) <= MaxStep
    /\ FirstDeps \subseteq (DOMAIN FirstSteps) \X (DOMAIN FirstSteps)
    /\ ValidDag(DOMAIN FirstSteps, FirstDeps)
ASSUME BoundsAssumption ==
    MaxStep \in Nat /\ MaxCopy \in Nat /\ MaxRequests \in Nat /\ IsFiniteSet(Name)

VARIABLES
    steps,       \* PhaseTemplate rows of the snapshot
    stepDeps,    \* PhaseTemplateDep rows: <<phaseTemplateId, dependsOnId>>
    nextStep,    \* the sequence behind PhaseTemplate.id
    member,      \* InitiativePartner.status, "none" without a row
    copies,      \* the initiative's programs, in the order they were created
    op,          \* what each request is in the middle of, and has read
    disturbed,   \* history: partners whose standing was not left to one request
    spent        \* requests made so far

vars == <<steps, stepDeps, nextStep, member, copies, op, disturbed, spent>>

None == 0
New == -1                 \* a draft's own id for the step it adds
Untouched == 0            \* where a phase's dot is: not begun, at the 10 a
First == 10               \* copy's first phase starts with, or moved by the
Worked == 60              \* partner's people

Ids(S) == {s.id : s \in S}

Idle == [step |-> "idle", todo |-> {}, partner |-> None, read |-> {}, edges |-> {}, draft |-> {}]

StepId == 1 .. MaxStep
Step == [id : StepId \cup {New}, name : Name, sortOrder : Nat, isEndPhase : BOOLEAN]
Phase == [id : Nat, source : StepId \cup {None}, name : Name,
          at : {Untouched, First, Worked}]
Copy == [partner : Partner, lifecycle : {"active", "complete", "cancelled"},
         isArchived : BOOLEAN, phases : SUBSET Phase,
         deps : SUBSET (Nat \X Nat),   \* PhaseDependency rows
         behind : BOOLEAN]   \* history: built from steps a save had replaced,
                             \* or out of the sync's reach since the last one

TypeOK ==
    /\ steps \in SUBSET Step /\ \A s \in steps : s.id \in 1 .. nextStep - 1
    /\ stepDeps \subseteq Ids(steps) \X Ids(steps)
    /\ nextStep \in 1 .. MaxStep + 1
    /\ member \in [Partner -> {"none", "active", "removed"}]
    /\ copies \in Seq(Copy) /\ Len(copies) <= MaxCopy
    /\ \A c \in DOMAIN copies : \A p \in copies[c].phases :
           /\ p.source \in Ids(steps) \cup {None}
           /\ \A q \in copies[c].phases : p.id = q.id => p = q
           /\ Ends(copies[c].deps) \subseteq Ids(copies[c].phases)
    /\ op \in [Request ->
           [step : {"idle", "adding", "joining", "building", "saving", "removing"},
            todo : SUBSET Partner, partner : Partner \cup {None},
            read : SUBSET Step, draft : SUBSET Step,
            edges : SUBSET ((StepId \cup {New}) \X (StepId \cup {New}))]]
    /\ disturbed \subseteq Partner
    /\ spent \in 0 .. MaxRequests

\* The clone of a template, which was validated when it was saved.
Init ==
    /\ steps = {[id |-> i, name |-> FirstSteps[i], sortOrder |-> i,
                 isEndPhase |-> i \in Sinks(DOMAIN FirstSteps, FirstDeps)] : i \in DOMAIN FirstSteps}
    /\ stepDeps = FirstDeps
    /\ nextStep = Len(FirstSteps) + 1
    /\ member = [p \in Partner |-> "none"]
    /\ copies = <<>>
    /\ op = [r \in Request |-> Idle]
    /\ disturbed = {}
    /\ spent = 0

-----------------------------------------------------------------------------

Ready(r) == op[r].step = "idle" /\ spent < MaxRequests

Begin(r, o) ==
    /\ Ready(r)
    /\ spent' = spent + 1
    /\ op' = [op EXCEPT ![r] = o]

Finish(r) == op' = [op EXCEPT ![r] = Idle]

\* The steps are read by sortOrder; of equals the older comes first.
Before(s, t) ==
    \/ s.sortOrder < t.sortOrder
    \/ s.sortOrder = t.sortOrder /\ s.id < t.id

Position(S, s) == Cardinality({t \in S : Before(t, s)}) + 1

Live(c) == c.lifecycle = "active" /\ ~c.isArchived

Others(r, p) ==
    \E q \in Request \ {r} :
        op[q].partner = p /\ op[q].step \in {"joining", "building", "removing"}

(* addPartners and addMembers: each partner of the batch in turn.            *)
AddBegin(r) ==
    \E todo \in SUBSET Partner \ {{}} :
        /\ Begin(r, [Idle EXCEPT !.step = "adding", !.todo = todo])
        /\ UNCHANGED <<steps, stepDeps, nextStep, member, copies, disturbed>>

\* Mutant: those who are members already are added like the others.
SkipsNobody(p) == FALSE

Skips(p) == member[p] = "active"

\* The membership is read; an active member is skipped.
AddNext(r) ==
    LET o == op[r] IN
    /\ o.step = "adding"
    /\ IF o.todo = {}
       THEN Finish(r) /\ UNCHANGED disturbed
       ELSE \E p \in o.todo :
           IF Skips(p)
           THEN /\ op' = [op EXCEPT ![r].todo = @ \ {p}]
                /\ UNCHANGED disturbed
           ELSE /\ op' = [op EXCEPT ![r].todo = @ \ {p}, ![r].partner = p,
                                    ![r].step = "joining"]
                /\ disturbed' = disturbed \cup IF Others(r, p) THEN {p} ELSE {}
    /\ UNCHANGED <<steps, stepDeps, nextStep, member, copies, spent>>

\* The upsert of the join row; then createProgramFromTemplate reads the steps.
AddJoin(r) ==
    /\ op[r].step = "joining"
    /\ member' = [member EXCEPT ![op[r].partner] = "active"]
    /\ op' = [op EXCEPT ![r].step = "building", ![r].read = steps, ![r].edges = stepDeps]
    /\ UNCHANGED <<steps, stepDeps, nextStep, copies, disturbed, spent>>

FirstNames(S) == {s.name : s \in {t \in S : Position(S, t) = 1}}

\* Mutant: the phases do not remember the step they came from.
FreshWithoutSource(S) ==
    {[id |-> Position(S, s), source |-> None, name |-> s.name,
      at |-> IF s.name \in FirstNames(S) THEN First ELSE Untouched] : s \in S}

\* A phase for every step, what is named as the first already on the way.
Fresh(S) ==
    {[id |-> Position(S, s), source |-> s.id, name |-> s.name,
      at |-> IF s.name \in FirstNames(S) THEN First ELSE Untouched] : s \in S}

\* The dependencies of a copy: those of the steps its phases stand for.
Wired(phases, E) ==
    {<<pq[1].id, pq[2].id>> :
        pq \in {x \in phases \X phases : <<x[1].source, x[2].source>> \in E}}

\* A graph that may be instantiated: valid, and its end marked as such.
ValidTemplate(S, E) ==
    /\ ValidDag(Ids(S), E)
    /\ {s.id : s \in {n \in S : n.isEndPhase}} = Sinks(Ids(S), E)

\* The creating transaction.  A graph that no longer validates is refused before
\* it, and a step deleted since it was read fails its foreign key: the request
\* ends there, the membership stays.
AddCreate(r) ==
    LET o == op[r] IN
    /\ o.step = "building"
    /\ Len(copies) < MaxCopy
    /\ IF ValidTemplate(o.read, o.edges) /\ Ids(o.read) \subseteq Ids(steps)
       THEN /\ copies' = Append(copies,
                   [partner |-> o.partner, lifecycle |-> "active", isArchived |-> FALSE,
                    phases |-> Fresh(o.read), deps |-> Wired(Fresh(o.read), o.edges),
                    behind |-> o.read # steps \/ o.edges # stepDeps])
            /\ op' = [op EXCEPT ![r] = [Idle EXCEPT !.step = "adding", !.todo = o.todo]]
            /\ UNCHANGED disturbed
       ELSE Finish(r) /\ disturbed' = disturbed \cup {o.partner} /\ UNCHANGED copies
    /\ UNCHANGED <<steps, stepDeps, nextStep, member, spent>>

\* The process goes away between the upsert and the copy.
AddFails(r) ==
    /\ op[r].step = "building"
    /\ Finish(r)
    /\ disturbed' = disturbed \cup {op[r].partner}
    /\ UNCHANGED <<steps, stepDeps, nextStep, member, copies, spent>>

(* removePartner                                                             *)
RemoveRead(r) ==
    \E p \in Partner :
        /\ member[p] = "active"
        /\ Begin(r, [Idle EXCEPT !.step = "removing", !.partner = p])
        /\ disturbed' = disturbed \cup IF Others(r, p) THEN {p} ELSE {}
        /\ UNCHANGED <<steps, stepDeps, nextStep, member, copies>>

\* findFirst: one active copy of the partner, if there is one.
Cancelled(p) ==
    LET live == {c \in DOMAIN copies : copies[c].partner = p /\ Live(copies[c])} IN
    IF live = {} THEN {copies}
    ELSE {[copies EXCEPT ![c].lifecycle = "cancelled"] : c \in live}

RemoveCommit(r) ==
    /\ op[r].step = "removing"
    /\ member' = [member EXCEPT ![op[r].partner] = "removed"]
    /\ copies' \in Cancelled(op[r].partner)
    /\ Finish(r)
    /\ UNCHANGED <<steps, stepDeps, nextStep, disturbed, spent>>

-----------------------------------------------------------------------------
(* saveTemplatePhases                                                        *)

\* The drafts of the editor: some of the steps, in their order, perhaps under
\* other names, and at the end perhaps one that is new; all named apart, in any
\* graph that validates.  The end is derived from the graph.
Drafts ==
    LET Renamed(kept) ==
            {{[s EXCEPT !.name = f[s.id]] : s \in kept} :
                f \in {g \in [Ids(kept) -> Name] : IsInjective(g)}}
        Added(draft) ==
            {[id |-> New, name |-> n, sortOrder |-> MaxStep + 1, isEndPhase |-> FALSE] :
                n \in Name \ {s.name : s \in draft}}
        OfKept == UNION {Renamed(kept) : kept \in SUBSET steps}
    IN OfKept \cup UNION {{d \cup {n} : n \in Added(d)} : d \in OfKept}

\* The graphs that validate, by their steps; a draft has no more steps than there
\* are names.
Graphs ==
    [N \in {M \in SUBSET (StepId \cup {New}) : Cardinality(M) <= Cardinality(Name)} |->
        {E \in SUBSET (N \X N) : ValidDag(N, E)}]

Marked(draft, E) ==
    {[d EXCEPT !.isEndPhase = (d.id \in Sinks(Ids(draft), E))] : d \in draft}

SaveRead(r) ==
    /\ Ready(r)
    /\ \E draft \in Drafts : \E E \in Graphs[Ids(draft)] :
           Begin(r, [Idle EXCEPT !.step = "saving", !.draft = Marked(draft, E), !.edges = E,
                                 !.read = steps])
    /\ UNCHANGED <<steps, stepDeps, nextStep, member, copies, disturbed>>

RealId(n) == IF n = New THEN nextStep ELSE n

\* The steps after the save: the draft's, renumbered, and any that another save
\* brought in after this one looked.
Saved(o) ==
    LET kept == Ids(o.draft) \ {New}
        removed == Ids(o.read) \ kept
    IN {s \in steps : s.id \notin removed \cup kept}
           \cup {[d EXCEPT !.id = RealId(@), !.sortOrder = Position(o.draft, d)] : d \in o.draft}

\* Their dependencies: those of the draft instead of what the draft's steps had;
\* the others keep theirs, unless the step they led to is gone.
SavedDeps(o, S) ==
    {d \in stepDeps : d[1] \in Ids(S) \ Ids(o.draft) /\ d[2] \in Ids(S)}
        \cup {<<RealId(d[1]), RealId(d[2])>> : d \in o.edges}

LastNamed(phases, n) ==
    {p \in phases : p.name = n /\ \A q \in phases : q.name = n => q.id <= p.id}

\* Mutant: the name decides, and only without a namesake the provenance.
MatchedByName(phases, s) ==
    LET bySource == {p \in phases : p.source = s.id}
    IN IF LastNamed(phases, s.name) # {} THEN LastNamed(phases, s.name) ELSE bySource

\* The phase of a copy that stands for a step: by provenance, else by name.
Matched(phases, s) ==
    LET bySource == {p \in phases : p.source = s.id}
    IN IF bySource # {} THEN bySource ELSE LastNamed(phases, s.name)

\* Of several steps that match one phase the first claims it.
Claimed(phases, S, s) ==
    {p \in Matched(phases, s) :
        \A t \in S : Before(t, s) => p \notin Matched(phases, t)}

LastId(phases) == CHOOSE n \in {0} \cup Ids(phases) : \A p \in phases : p.id <= n

\* The phase of a step after the save: the one it claims, or one of its own.
StandsFor(phases, S, s) ==
    LET claimed == Claimed(phases, S, s) IN
    IF claimed # {}
    THEN {[p EXCEPT !.name = s.name, !.source = s.id] : p \in claimed}
    ELSE {[id |-> LastId(phases) + Position(S, s), source |-> s.id, name |-> s.name,
           at |-> Untouched]}

\* One copy's new phases; those that stand for no step go.
Synced(phases, S) == UNION {StandsFor(phases, S, s) : s \in S}

\* onDelete: SetNull, in every copy.
Forgotten(phases, gone) ==
    {IF p.source \in gone THEN [p EXCEPT !.source = None] ELSE p : p \in phases}

\* Mutant: complete and cancelled copies are rewritten with the rest.
ReachedAll(c) == TRUE

Reached(c) == Live(c)

SaveWrite(r) ==
    LET o == op[r]
        S == Saved(o)
        E == SavedDeps(o, S)
        gone == Ids(steps) \ Ids(S)
        Sync(c) ==
            LET left == Forgotten(c.phases, gone)
                phases == Synced(left, S)
            IN
            IF Reached(c)
            THEN [c EXCEPT !.phases = phases, !.deps = Wired(phases, E), !.behind = FALSE]
            ELSE [c EXCEPT !.phases = left, !.behind = TRUE]
    IN
    /\ o.step = "saving"
    /\ nextStep <= MaxStep
    /\ Finish(r)
    /\ IF Ids(o.draft) \ {New} \subseteq Ids(steps)
       THEN /\ steps' = S /\ stepDeps' = E
            /\ nextStep' = IF New \in Ids(o.draft) THEN nextStep + 1 ELSE nextStep
            /\ copies' = [c \in DOMAIN copies |-> Sync(copies[c])]
       ELSE UNCHANGED <<steps, stepDeps, nextStep, copies>>
    /\ UNCHANGED <<member, disturbed, spent>>

(* What people do to the copies: setProjectLifecycle and archiveProject, which *)
(* ask nothing, and the hill updates of a program that is under way.         *)
SetLifecycle(r) ==
    \E c \in DOMAIN copies, l \in {"active", "complete", "cancelled"} :
        /\ copies[c].lifecycle # l
        /\ Begin(r, Idle)
        /\ copies' = [copies EXCEPT ![c].lifecycle = l]
        /\ disturbed' = disturbed \cup {copies[c].partner}
        /\ UNCHANGED <<steps, stepDeps, nextStep, member>>

ToggleArchived(r) ==
    \E c \in DOMAIN copies :
        /\ Begin(r, Idle)
        /\ copies' = [copies EXCEPT ![c].isArchived = ~@]
        /\ disturbed' = disturbed \cup {copies[c].partner}
        /\ UNCHANGED <<steps, stepDeps, nextStep, member>>

Progress(r) ==
    \E c \in DOMAIN copies : \E p \in copies[c].phases :
        /\ Live(copies[c]) /\ p.at # Worked
        /\ Begin(r, Idle)
        /\ copies' = [copies EXCEPT ![c].phases = (@ \ {p}) \cup {[p EXCEPT !.at = Worked]}]
        /\ UNCHANGED <<steps, stepDeps, nextStep, member, disturbed>>

Next ==
    \E r \in Request :
        \/ AddBegin(r) \/ AddNext(r) \/ AddJoin(r) \/ AddCreate(r) \/ AddFails(r)
        \/ RemoveRead(r) \/ RemoveCommit(r)
        \/ SaveRead(r) \/ SaveWrite(r)
        \/ SetLifecycle(r) \/ ToggleArchived(r) \/ Progress(r)

Spec == Init /\ [][Next]_vars

-----------------------------------------------------------------------------
(* What an initiative promises                                               *)

Building(p) == \E r \in Request : op[r].step = "building" /\ op[r].partner = p

\* An active member has one active copy, whoever is not a member none: the rules
\* initiatives.ts says its actions own.  Overlapping requests about one partner,
\* an add that dies after the membership, and a lifecycle set by hand break them.
StandingIsOneCopy ==
    \A p \in Partner \ disturbed :
        Cardinality({c \in DOMAIN copies : copies[c].partner = p /\ Live(copies[c])})
            = IF member[p] = "active" /\ ~Building(p) THEN 1 ELSE 0

\* What a copy's dependencies say of the steps.
Leads(c) ==
    {<<pq[1].source, pq[2].source>> :
        pq \in {x \in c.phases \X c.phases : <<x[1].id, x[2].id>> \in c.deps}}

\* Every copy at work carries exactly the steps of the template, by the names and
\* with the dependencies they have now, unless it was built from steps already
\* replaced or came back after a save had passed it by.
CopiesCarryTheSteps ==
    \A c \in DOMAIN copies :
        Live(copies[c]) /\ ~copies[c].behind =>
            /\ Cardinality(copies[c].phases) = Cardinality(steps)
            /\ {<<p.source, p.name>> : p \in copies[c].phases}
                   = {<<s.id, s.name>> : s \in steps}
            /\ Leads(copies[c]) = stepDeps

\* A save that saw the steps as they are takes no work from one it keeps, under
\* whatever name: the phase that stood for the step stands for it afterwards.
KeptStepsKeepTheirWork ==
    [][\A r \in Request, c \in DOMAIN copies :
           /\ op[r].step = "saving" /\ op'[r].step = "idle" /\ op[r].read = steps
           /\ Live(copies[c]) /\ ~copies[c].behind
           => \A p \in copies[c].phases :
                  p.source \in Ids(steps') =>
                      \E q \in copies'[c].phases :
                          q.id = p.id /\ q.source = p.source /\ q.at = p.at]_vars

\* A copy that is complete, cancelled or archived is history: no save rewrites it.
HistoryIsNotRewritten ==
    [][\A c \in DOMAIN copies : ~Live(copies[c]) =>
           /\ {[p EXCEPT !.source = None] : p \in copies[c].phases}
                  = {[p EXCEPT !.source = None] : p \in copies'[c].phases}
           /\ copies'[c].deps = copies[c].deps]_vars

\* initiativeSync.ts: a removed step's phase and its records go, an added step
\* is created at zero progress.
AddedStepsStartAtZero ==
    [][\A c \in DOMAIN copies : Live(copies[c]) /\ steps' # steps =>
           \A p \in copies'[c].phases :
               p.source \in Ids(steps') \ Ids(steps) => p.at = Untouched]_vars
=============================================================================
