# AutoKnow: formal models

TLA+ modules, TLC configurations and TLAPS proofs about AutoKnow, kept beside
the code they describe.  Paths below are relative to the repository root.

Run TLC with `tlc -config <name>.cfg <module>.tla` and the proofs with
`tlapm <module>_proofs.tla`.  `PROJECT.json` lists, for a script or a
reader in a hurry, every component, run, mutant, hazard, finding and theorem,
and for every definition the lines of code it stands for.

## 1. The system

AutoKnow is a Next.js application over one Postgres database (Prisma).  It
tracks programs and the people and partners in them, reads documents about
them, and has Gemini digest the documents and write briefs.  It runs on Cloud
Run, on several instances, so any two requests may be served by different
processes; nothing but the database is shared.  Three flows write it:

1. **Pages and panels.** Server actions (`src/app/actions/*`) and the summary
   panel (`src/components/SummaryPanel.tsx`, `src/app/api/summaries`).
2. **The hourly worker.** Cloud Scheduler calls `src/app/api/cron/refresh`.
   Under a Postgres advisory lock it sweeps Google Drive, refreshes the web
   sources that are due, records a summary of the cycle, and rewrites briefs,
   all from one allowance of Gemini requests.
3. **Google Chat.** A mention of the app in a thread ingests the thread and may
   raise an escalation (`src/app/api/chat/events`, `src/lib/chatEvents.ts`).

A row is read, a slow call is awaited (a fetch, Gemini) or a check is made, and
the row is written from what was read before.  No row is locked, and apart from
one action every transaction runs at READ COMMITTED.  Most of what can go wrong
lives in those gaps.  The rest is arithmetic over dates that several pages do
separately and must come to the same result.

### Inventory

| Component | State | Operations | What is hard | What makes it correct | Status |
|---|---|---|---|---|---|
| Source refresh `lib/refresh.ts` | `ContextUrl`, `ContextRevision`, `ContextMention` | `refreshSource`, `runRefreshCycle` | two gates on values read before awaits; row, revision, mentions and vector must move together; failing sources in a queue | row = newest revision; derived data follows the digest; a stale row stays detectable; followed sources converge | modelled |
| Drive sweep `lib/driveSync.ts` | the same rows, `sourceVersion` | `runDriveSync` | version listed before, stamped after; budget; documents that vanish from the listing | as above; every demanded document is reached | partly: no folder walk |
| Ingest `lib/ingest.ts` | the same rows | `ingestLink`, `ingestContent` | two ingests of one source | one row and one initial revision per source | partly: no classification |
| Source actions `actions/context.ts`, `status.ts` | the same rows | refresh now, pause, mode, delete | toggles read, then write; delete under a refresh | history and row go together | modelled |
| Chat mentions `lib/chatEvents.ts` | the same rows, `Escalation` | `snapshotThread`, `raiseEscalation` | writes some columns of what refresh writes; duplicate check before the insert | derived data follows the digest; one open escalation per thread | partly: no envelope, no token |
| Worker, lock `api/cron/refresh`, `lib/singleFlight.ts` | session advisory lock | `GET`, `withSingleFlight` | lock lost with its connection; three stages, one allowance | no overlap without a lost lock; spend within the allowance | modelled |
| Budget `lib/ingestBudget.ts`, `cronCadence.ts` | `IngestionSetting` | arithmetic | rounding, zero is off | split over the stages | partly |
| Health `lib/ingestionHealth.ts` | `IngestionCycle` | `recordCycle`, health card | a backlog nobody sees | no silent backlog | partly |
| Briefs `lib/summaries.ts`, `chainFingerprint.ts` | `Summary` | `createSummary`, `getSummary`, `runSummaryCycle`, panel | evidence read before, dated after; several writers; capped cycle | nothing lost but what came meanwhile or found no room; stale briefs are rewritten | partly |
| Employment `lib/profiles.ts`, `lib/people.ts`, affiliations API | `PersonAffiliation`, `Person` | create, correct, move, cancel, post, delete | concurrent inserts into a timeline; a move and the person row in two transactions | one job and one holder of an address at a time; a move leaves no gap; cancelling undoes it | modelled |
| Program structure `actions/dependencies.ts`, `programPhases.ts`, `lib/programDag.ts` | `Phase`, `PhaseDependency` | whole-graph save, add, remove, post | isolation levels that do not see each other | acyclic; one final phase | modelled |
| Hill `actions/hill.ts`, state API, needle | `PhaseState`, `NeedleUpdate` | append a position, claim a start | position carried over from what was read | the dot stays where a person put it | partly: needle is single inserts |
| Templates, initiatives `lib/templateDag.ts`, `initiativeSync.ts` | `PhaseTemplate`, copies, `InitiativePartner` | membership, save with synchronisation | steps renamed into each other's names; batches without a transaction | one live copy per member, with the steps of the template and its own work | partly: no device links, cloning |
| Escalations `actions/escalations.ts`, `lib/escalationPostBack.ts` | `Escalation` | raise, edit, close, re-open, post back; deletes around it | read-then-write transitions; a mention that loses the save of its thread; deletions in several statements; posts after the response | an ending is kept; always about something; one open per thread; honest delivery badge | modelled |
| Partners `actions/partners.ts`, `lib/partnerDeletion.ts` | `Partner` | delete, edit | blockers counted before the transaction | nothing is left without a subject | partly |
| Critical chain and buffer `lib/criticalChain.ts`, `chainLedger.ts`, `bufferSeries.ts`, `chainDay.ts`, `chainInsights.ts`, `sop.ts` | none (pure) over phases and states | chain, ledger, replay, day series, day summary, diagnosis, next steps | rounding; three feeders of one ledger, and a second answer beside it (`lib/sop.ts`); a list of conditions restated by hand | one finish of the ledger; an outlook no brighter than it; books that balance; no past redrawn; no empty answer | partly |
| Quota latch `lib/geminiQuota.ts` | per-process cache | latch, expire | per instance, expires on read | - | not modelled |

Not modelled, with the reason in `PROJECT.json`: Gemini itself (its answers are
nondeterministic choices here), authentication, search (one read-only query),
one-off backfills, layout, translation, infrastructure.

## 2. The modules

| Module | What it is |
|---|---|
| `RevisionLog` | What the source tables promise: an append-only history per source, whose newest entry is what the row shows. |
| `SourceRefresh` | Everybody who writes one source, step by step.  Implements `RevisionLog`. |
| `SourceRefresh_proofs` | Its theorems: for every instance, for those without mentions, and for those without *Refresh now* either. |
| `RefreshCycle`, `RefreshCycle_proofs` | The worker: lock, allowance, queue, backlog; theorems about the lock, the allowance and the backlog. |
| `Briefs`, `Briefs_proofs` | The briefs: staleness, evidence, writers. |
| `Employment`, `Employment_proofs` | People, their addresses and their timeline of jobs. |
| `PhaseDag` | A dependency graph: ancestors, sinks, the validation, and what they mean said without a walk. |
| `CriticalChain` | The longest path by remaining days, and the same by enumeration of all paths. |
| `ProgramPhases`, `ProgramPhases_proofs` | The structure of one program and its dots, edited by several people.  Extends both; the proofs begin with lemmas about the graph operators. |
| `Initiative`, `Initiative_proofs` | One initiative: template, members, copies. |
| `Escalation`, `Escalation_proofs` | Escalations, the threads they come from, and what is deleted around them. |
| `ChainLedger`, `ChainLedger_proofs` | The buffer ledger of one program whose dots move while the calendar runs.  Extends `CriticalChain`. |
| `ChainViews` | What is drawn and said of that ledger elsewhere.  Extends `ChainLedger`. |
| `MC...` | Values for TLC, one per module with runs. |

`SourceRefresh` and `RefreshCycle` are two views of one worker and meet at
`refreshSource`.  `SourceRefresh` has each await of one visit and leaves open
which source is visited when; `RefreshCycle` has the order and the cost of the
visits and makes one visit one step.  `RefreshCycle`'s document states
(`current`, `edited`, `moved`, `touched`, `settled`) are what `Moved` and the
freeze rules of `SourceRefresh` make of a row.  `Briefs` sees sources as items
that are dated, or, when it is only their digest that changed, are not.
`ProgramPhases` composes the graph operators with the writers of the graph, and
checks the critical chain on every graph those writers can reach; `ChainLedger`
takes the graph as fixed and lets time pass.

Everywhere, a request that is being served is a record (`job[a]`, `op[r]`,
`cycle[w]`): where it is between two awaits, and the local variables the code
holds there.  A transaction is one step, what the code reads before it is a step
of its own.

### SourceRefresh

`row[s]` is the `ContextUrl` row, `revisions[s]` its `ContextRevision`s,
`remote[s]` the document itself.  Each request is a record `job[a]`: its
position (between two awaits) and the local variables the code holds there.
The positions of one refresh, with the code:

| Position | Left by | Code |
|---|---|---|
| `read` | `ReadRow` | `findUnique` in `refreshSource` |
| `fetch` | `NotModified` / `FetchText` / `FetchBlocked` / `FetchFails` | conditional GET or Drive export; Gate 1 (ETag) and Gate 2 (hash) |
| `same` | `TouchUnchanged` | Gate 2 said the text is the same |
| `freeze` | `Freeze` | `freeze()` |
| `distil` | `Distil` / `Refused` | `summarizeDocument`, `embedForStorage` |
| `commit` | `CommitChange` / `InsertRow` / `ReviseThread` | the transaction of refresh, ingest or a re-mention |
| `stamp` | `StampVersion` | `runDriveSync`'s own update of `sourceVersion` |

`GoneRow` is an update whose row is no longer there (Prisma's P2025); `Crash` is
a killed instance.  Both may end any request in the middle.

`frozenAt` and `frozenReason` are one field.  A text is a model value and its
hash is itself (SHA-256 is taken to separate texts).  Two digests may serialise
to one string (`DigestText`), because people and status are not part of the
string.  Time is counted in versions of the document: the code compares
timestamps in one place (`modifiedTime > lastChangedAt`), and versions tell
there what matters, except that a Drive `modifiedTime` does not move when only
the sharing does (`modified` next to `version`).

The constant `Throttling` says whether Drive may answer 403 to a document that
is shared ("too many requests").  The code reads every 403 as a withdrawn share.

### RefreshCycle

`lock` is the advisory lock, `cycle[w]` the variables of the tick: what is left
to sweep (`todo`), demand and spend, the page of due web sources, what is over,
the requests asked for briefs.  `used` and `passed` are history variables: what
was really requested, and what was left out.  `queue` is the web sources by
`lastCheckedAt`.  A tick that finds the lock taken does nothing.  `Listing` is
the order in which Drive lists documents, the same in every cycle; documents are
edited again at any time and without a bound.

### Briefs

`Begin`, `Gather` and `Insert` are the three parts of `createSummary` that see the
database: the previous brief's date, the evidence, the insert dated at its own
time. `Window` is where a query looks for documents; of these `Gather` takes the
`Newest`, as many as get on the list. A query takes ten, and the list they go on
ends at sixty items (`MAX_EVIDENCE`), so how many get on it depends on what else
is new: `Room` is the set of numbers it may be. A first brief looks back
`Lookback` (`WINDOW_DAYS`). `told`, `missed` and `left` are history variables:
what some brief was given, what came during a writing, and what a brief had no
room for or did not look back to.

`Order` is the order in which the cycle takes scopes: the ecosystem first, then
the programs as `findMany` returns them. That query names no `orderBy`; the model
assumes one order for all cycles, which is what Postgres tends to return and the
worst case for whoever is last. `world` is which documents come, which schedules
move (to and fro, without end) and how often the model fails, in one behaviour.

### Employment

`people` are the `Person` rows with their cached employer and address, `periods`
the `PersonAffiliation` rows, half-open between instants, `PerDay` of them a day.
The dialogs send midnights; `createPerson` falls back on the time of day
(`profiles.ts:279`), and the schemas coerce any date with a time
(`schemas.ts:407`), so every date in the model is any instant.  Each
action of `app/actions/people.ts` is its reads (`CreateCheck`, `ChangeCheck`,
`MoveRead`, `CancelRead`, `PostRead`) and its writes; a dated change commits the
move (`MoveWrite`) before it touches the row (`ChangeFollow`), and `Abandon` may
cut it in between.  `NoClash` is the exclusion constraint of the database.
`raced` and `cut` remember people two requests worked on at once and changes
that were cut; `sameDay` those moved on a day on which, later than the move, one
of their periods begins or ends (`Sharp`).

### ProgramPhases

`phases`, `deps`, `dot` are the rows and the newest positions.
`addPhaseDependency` is SERIALIZABLE: `AddBegin` takes the snapshot, `AddCommit`
walks that snapshot and what other such transactions have committed since: two
that would close a cycle together have one aborted.  The save is READ COMMITTED:
`SaveRead` finds the phases, `SaveWrite` replaces the graph.  `Carried` is the
position a note without one repeats.
`ValidDag` is `deriveEndPhase` with `validateTemplateDag`.  The walks of the code are
stated as smallest closed sets (`Ancestors`), which is what they compute and
what can be proved about.  `CriticalChain` counts the days left in hundredths
(`Remaining`), so that a percentage of a day needs no fraction.

### Initiative

`steps` and `stepDeps` are the `PhaseTemplate` and `PhaseTemplateDep` rows,
`copies` the programs with their phases and dependencies.  `addPartners` is a
loop without a transaction (`AddNext`, `AddJoin`, `AddCreate`, `AddFails`), and
`AddCreate` refuses a template that does not validate (`ValidTemplate`).  The
draft of a save carries any graph that validates, its end derived from it.
`SaveWrite` is the whole transaction of `saveTemplatePhases`, which ends in
`syncInitiativeCopies`: for each live copy, `Matched` gives each step the phase
that stands for it, by step id or else by name, the first of several steps that
match one phase claims it (`Claimed`), and `Synced` keeps, renames, adds and
removes; then the copy's dependencies are rebuilt from the steps' (`Wired`).
The loops over sorted steps are sets here: a step's place among them
(`Position`) is what the order decides.

### Escalation

`escalation` are the rows, `thread` what each saved Chat thread was classified
as, `alive` the programs and partners.  A transition is `StatusRead` and
`StatusWrite`; what the code schedules after the response is `Announce` (the
post) and `Record` (its outcome).  `Detached` is what a delete does to rows that
pointed there, the `onDelete` of each foreign key included.  `raced`, `extra`,
`vague` and `post` are history.

A mention is up to five steps: it finds the thread saved or not (`Mention`); a
saved one is summarized again if it changed (`Revise`); one that is not is looked
for again and classified (`Classify`) and inserted (`SaveThread`).  Whoever finds
it saved by another since is told of a duplicate *without the row's id*
(`Duplicate`; `ingest.ts:219-227`, `chatEvents.ts:346-348`): its escalation skips
the duplicate check and is about nothing.  `RaiseCheck` and `RaiseCreate` are
`raiseEscalation`.

`deleteProject` is one transaction at READ COMMITTED whose statements read
different snapshots, so it is two steps.  The first deletes the escalations about
the program alone and holds their rows (`Locked`): whoever would write these
waits for it (`Waits`).  The second detaches what names the program by then.  A
thread saved between two of the later statements is not told apart from one saved
before or after them.  `deletePartner` is `DeletePartnerRead`, its count of
blockers, and `DeletePartnerCommit`.

### ChainLedger and ChainViews

`history[p]` are the `PhaseState`s of phase p, `claimed[p]` its start claim,
`now` the calendar in ticks, `Ticks` to a day, where the code has milliseconds.
`Days` is `Math.round` of a span.  Five ticks a day are the least that round both
ways and by different amounts: two ticks vanish, three are a day.  A coarser grid
hides what the code does (on half days nothing positive is rounded down); what is
proved holds for every number of ticks, a day's milliseconds included.
`program` is one of `Programs`, which differ in estimates, dependencies, SOP date
and in whose people are wanted elsewhere.  `OnPage`, `InPortfolio` and `AsOf` are
the three feeders of `Schedule` (the program page, `chainLedgerData.ts`, the
replay for the trend).  `Attributed` and `Unattributed` are the waterfall,
`Register` the heading, `NextSteps` the list `ChainLedger.tsx` puts under it.
`shown` is a history variable: what the page projected at each past instant.

The portfolio has another answer to when a program finishes: today and the
longest chain of work that is left (`OutlookDays`, `OutlookBuffer`;
`sop.ts:272-276` calls it the deeper split).  It is not the ledger's finish, and
`OneStory` does not claim so.  `OutlookIsNoBrighter` says which way they part.

`Series` is the buffer per day: of each row, the idle days before it (`IdleMove`)
and its own days (`OwnMove`), spread over windows; `Moves` are those that move
something. Values are in 2520ths of a day, so that ramps over up to ten ticks are
exact; longer ones are rounded down, which what is proved of them allows for.
Before anything has started, `FirstStart` is today, also in the series of an
instant later that `PastStaysPut` compares; neither then draws a day that is over.
`StatesOn` and `GapsOn` are the summary of a day, `Unnamed` what no summary can
name: a handoff, or a phase's last hours past its plan, that rounds to no days.
`Diagnoses` keeps of `constraintDiagnosis` which situations it finds at the
constraint and how severe they are.

## 3. What TLC checks

| Run | Instance | Shows |
|---|---|---|
| `race` | one source, a Drive document or a Chat thread; a user doing all six operations and the cron; two texts, two digests, two versions, two rows (so that a row is deleted under a request in flight and pasted again), one crash | types; `NewestRevisionIsTheRow`; `ImplementsRevisionLog` |
| `alone` | web or Drive; a user who only pastes and deletes; three digests, two with one text; three versions, two rows, one fault | with the cron as the only refresher: `MentionsNameTheDigest`, `EmbeddingNamesTheDigest`, `OneRevisionPerChange`, `StaleIsDetectable` |
| `live` | web or Drive; pastes, three versions, one fault; fair | `FollowedSourcesConverge`, `SharedDocsAreDiscovered` |
| `cycle` | two workers, two Drive documents (one to refresh, one to discover) that are edited for ever, two web sources of which one always fails, budget 1, one brief, one fault; fair | `OverlapNeedsADrop`, `SpendWithinAllowance`, `NoSilentBacklog`; `DueSourcesAreChecked`, `DriveDemandIsMet` |
| `briefs` | two programs and the ecosystem, one panel and the cycle, room for one document or two, one request a cycle; a world of two documents, and one whose schedules move for ever and whose model fails once; fair | `LostOnlyWhileWriting`, `StaleBriefsAreRewritten` |
| `careers` | two people, two addresses, one job and none, two editors, three days of two instants, the clock stopping in the afternoon of the second, three requests, one cut short | `OneJobAtATime`, `OneCurrentHolder`, `AddressesAgree`, `CancelUndoesTheMove`, `MovesKeepTheCareer` |
| `sameday` | the same with one editor and four requests | violates `MovesNeverUncover` |
| `edits` | two editors, up to four phases, drafts of three with one new, three requests | `NoCycle`, `OneFinalPhase`, `DotStaysWherePlaced`, `ChainIsLongest` |
| `members` | two partners, two requests at a time and four in all, two names, four steps and two copies ever, drafts of two steps in any graph | `StandingIsOneCopy`, `CopiesCarryTheSteps`, `KeptStepsKeepTheirWork`, `HistoryIsNotRewritten` |
| `threads` | two requests at a time and four in all, one partner, program and thread, two escalations, one kill | `OneOpenPerThread`, `AboutSomething`, `DeliveryIsHonest` |
| `ledger` | three programs of two phases (one after the other, with an estimate of zero, or side by side), five ticks to a day, one day and what lies behind and before it, three updates and a claim | `OneStory`, `BooksBalance`, `AskedMeansTold`, `IdleTimeIsPaid`; `SeriesClosesTheBooks`, `PastStaysPut`, `DaysAreExplained`; `OutlookIsNoBrighter` |
| `panel` | two phases side by side before a third | violates `EveryConstraintIsDiagnosed` |

Bounds. *Sources:* a document needs three versions to change and change back while
a slower request still holds the first; with two texts, any third text behaves as
one of them to a comparison; sources do not interact in `refreshSource`, so one is
enough. Three digests are the least that separate "another digest" from "another
embedded text". Two rows allow one delete and re-paste under a request in flight.
Web pages, which `race` leaves out to have room for that, are in `alone`, and in
the proofs of all three of its properties. One fault suffices for the safety
properties about one commit; liveness is about what happens after the last fault.
*Cycle:* a document to refresh, one to discover, and a budget smaller than their
number; a fault is any of a refusal, a quota stop, an aborted cycle or a lost
connection, and a lost connection lets a second worker start. Edits have no bound,
so a document listed first can fill the budget in every cycle. *Briefs:* with one
request a cycle the scope taken last is passed over whenever another is due, and
the schedules see to it that one may always be. *Employment:* three requests allow
create, move, and another move or a cancel, by one editor or against another (the
run refuted had four); two instants a day tell midnight from a time of day; three
days are a past, a present and a scheduled change. *Structure:* a cycle by two
adds needs two phases, a second sink three, and a draft over something it did not
find four. *Initiative:* two partners and two names allow the swap of names and
the batch that is overtaken. *Escalation:* two requests are what a read-then-write
race takes; the second escalation is the duplicate. *Ledger:* a day of five ticks
with a claim of more than a day before it sees spans rounded up and down, an idle
handoff that rounds to nothing, an overrun, a midnight passed and a claim in the
past; every program of the run has an SOP date; "four weeks" and the days lost in
them are parameters (`TrendWindow`, `TrendLoss`) so that the trend can turn within
the bound; one estimate is zero, as old rows have it. The other `Max...` constants
bound the environment: how many requests, changes, clicks and faults there are. A
bound is never a guard on how the program goes on once a request has started; only
a fault is also counted, and in `members` a copy or a save beyond `MaxCopy` or
`MaxStep` waits for good (or, a copy, is cut by `AddFails`).

Deadlock is checked in `cycle`: the worker never rests.  The others may rightly
stop, when nobody has a request left or the clock has reached its bound.
Symmetry is used where only safety is checked.  Each property of a passing run has a
mutant, an operator in the same module that changes the model as a plausible bug
would, under which TLC finds the property violated.

Each property excepts, by a named history variable, the overlaps the code really
does not handle, and nothing else: `raced` (two requests at work on one person,
or two status changes of one escalation), `cut`, `mixed`, `loose`, `blurred`,
`disturbed`, `behind`, `extra`, `crossed`, `vague`, `missed`, `left`, `sameDay`,
`restated`.  Their comments say when each is set; the code sites are listed below.
`vague` has three cases: a thread classified as nothing, a mention that lost the
save of its thread, and a subject that an escalation came to have alone while it
was being deleted.  `PROJECT.json` marks the hazards in which the code goes wrong
itself: no property is claimed to cover those.

`TypeOK` of `SourceRefresh` is checked in `race` and proved; those of
`ProgramPhases`, `Escalation`, `Employment` and `Initiative` are proved.  Those of
`RefreshCycle` and `Briefs` are in no run and in no theorem: add them as an
INVARIANT when a bound or a variable changes.

### Fairness

`SourceRefresh`: weak fairness on the worker reaching each source and on each
started request going on.  Cloud Scheduler calls hourly without end, and a
request that is not killed is run to its end by its process.  That the worker
reaches every source is what `RefreshCycle` is about; its assumption in
`SourceRefresh` is `DueSourcesAreChecked` and `DriveDemandIsMet` there.  No
fairness is put on users, on the document or on faults.
`RefreshCycle`: weak fairness on some tick finding the lock free, and on the
steps of each running cycle.  `Briefs`: weak fairness on the cycle's steps.
The budgets are spent in one order that never changes, so neither liveness
property is without a condition: a document, or a scope, is reached unless those
before it fill the budget again and again.
The other modules state safety only.

### Where the code and its documents disagree

Two runs end in a counterexample on purpose; `PROJECT.json` quotes the lines.

- `sameday`.  The period that follows a move is looked for by instant and the
  one it falls in by day.  A period that began this afternoon is both to a move dated
  today: it is deleted, and the new one ends where it began.  In the same way a
  period that ends this afternoon is not covering to a move of this morning, and
  overlaps what the move opens (`careers` without `sameDay` in `OneJobAtATime`).
- `panel`.  The live constraint is found with the progress made and looked up
  among the phases of the plan.  When a phase beside the planned chain has become
  the longest way to the end, there is a constraint and no diagnosis, and the
  portfolio panel drops the program.

More was met while modelling.  For each, the way to see it:

*Sources*

- A transient 403 from Drive freezes the row with success, and the sweep then
  stamps the listed version: an old text under a new version, which nothing tells
  from a fresh one.  (`alone` with `Throttling = TRUE`: `StaleIsDetectable`.)
- *Refresh now* overlaps the worker on a web page.  The slower one compared with
  an older row; its "unchanged" write puts the newer ETag on the older text, and
  every later GET answers 304.  (`alone` with `Kinds <- MCWeb` and
  `UserOps <- MCPasteAndRefresh`: `StaleIsDetectable`.)
- A second mention writes a new digest and no vector, mentions or status.  (`MCChat`,
  `MCMentionOnly`: `EmbeddingNamesTheDigest`.)
- An unshared document leaves the listing, so nobody ever visits it to freeze it
  (`driveSync.ts:213`), though `docs/INGEST_FRESHNESS_PLAN.md:70` has "unshare =
  freeze access-revoked".  (In `SourceRefresh` the cron only starts on a Drive row
  whose document is shared.)
- A document whose `modifiedTime` moved and whose text did not is demanded,
  visited and counted as spent in every cycle.
- "Over budget - carries to next cycle" (`driveSync.ts:218-225`): the next cycle
  begins with the same documents.  As many as the budget that are edited (or
  touched) every cycle starve all that Drive lists after them, and the due web
  sources.  (`cycle` without the conditions of the two liveness properties.)  The
  same goes for the scopes of a brief cycle (`briefs`, without `MayBeSkipped`).
- Staleness of a brief compares `createdAt`, and a refresh does not move it: new
  facts in an old row make no brief stale (`summaries.ts:1226`).
- Content that arrives between a brief's evidence and its insert is older than
  the brief and in no evidence: `LostOnlyWhileWriting` carves out exactly this as
  `missed`.  So is a document beyond the caps on evidence (`summaries.ts:381`, `690`):
  the brief that had no room for it is dated after it, and the next one of the
  portfolio looks no further back (`left`).  `refresh.ts:358-361` does not count a distillation whose
  embedding was refused: `SpendWithinAllowance` speaks of successful work.

*Structure*

- A SERIALIZABLE add and a READ COMMITTED save do not see each other: together
  they can close a cycle, although the header of `programPhases.ts` has it that a
  broken program cannot be persisted (`mixed`).  Two overlapping saves leave two
  sinks (`loose`); a save deletes phases created after its draft was opened.
- The save is called the only door, and the rail (`?graph=classic`) still edits
  dependencies.  `addPhase` and `deletePhase` of `programs/[id]/actions.ts` have
  no callers.

*Initiatives and escalations*

- A save that adds a step with the name of a legacy phase takes that phase, with
  its progress, by the name fallback (`initiativeSync.ts:74`), although an added
  step is to start at zero (13-16).  (`members` with
  `AddedStepsStartAtZero`.)  Two overlapping saves that each add a step of one
  name do the same to each other.
- A failure between membership and copy leaves a member without a copy, whom a
  retry skips (`initiatives.ts:131-139`).
- Two overlapping saves leave a template with the steps of both and two ends; no
  partner can be added until it is saved again (`createProgramFromTemplate.ts:62`).
- Copies are said not to be edited structurally (`initiativeSync.ts:11`), and
  `saveProgramPhases` refuses (`programPhases.ts:37-38`); `addPhaseDependency`,
  `removePhaseDependency` and `POST /api/projects/[id]/phases` do not ask.
- Two closes that overlap both pass, and the later rewrites how it ended.  A
  re-opened escalation, or two triggers at once, make two open ones on a thread
  (`schema.prisma:915-917` expects one).  `deleteProject` nulls `duplicateOfId`: an
  escalation remains a duplicate of nothing.  `deletePartner` counts its blockers
  outside its transaction.
- "`contextUrlId` is on every outcome" of `ingestContent`, a comment has it
  (`chatEvents.ts:268-269`); the loser of two first mentions is told of a duplicate
  without one (`ingest.ts:219-227`).  Its escalation is about nothing and belongs to
  no thread.  (`threads` with `AboutSomething` for all escalations.)
- `deleteProject` deletes the escalations about the program alone in one statement
  and clears the program in the next (`programs/[id]/actions.ts:108-111`); one that
  an edit, or the deletion of its partner, leaves with the program alone in between
  ends about nothing.

*Ledger*

- `chainLedgerData.ts` claims the precedence of the program page for when a
  phase began.  The page retracts a start when the dot is back at 0 without a
  claim; portfolio and replay keep the first progress.  One program then shows two
  buffers: `OneStory` without its guard `~restated`.  The replay also uses
  today's start claims for the past, which `CRITICAL_CHAIN_VIEW_PLAN.md` does not
  list among its limitations.
- `sop.ts:272-276` says it itself: the portfolio's outlook counts the longest chain
  left, the ledger the planned chain, two answers to "when does this finish".  Where
  a phase beside the planned chain has fallen behind they are days apart; the
  outlook is then the darker one (`OutlookIsNoBrighter`).
- `chainLedger.ts:426` takes an imbalance of a day for rounding drift.  Rounding
  row by row and forecast noise alone make an "unattributed" row of three days on
  a chain of two phases worked in order, days lost without a name or days named
  that were not lost; `BooksBalance` bounds it by a day per phase and one.
- A day that falls on a handoff of less than half a day shows neither a phase nor
  a gap, only perhaps a credit (`chainLedger.ts:239-247`, `chainDay.ts:135`); and
  when an idle handoff grows past half a day, days gone by are redrawn by up to
  a day (`bufferSeries.ts:91-95`).  `DaysAreExplained` and `PastStaysPut` allow for
  exactly these.

## 4. What is proved

For every value of the constants the modules' assumptions admit:

| Theorem | Says | For |
|---|---|---|
| `TypeCorrect` | `Spec => []TypeOK` | every instance of `SourceRefresh`, of `ProgramPhases`, of `Escalation`, of `Initiative` |
| `RowIsNewestRevision` | `Spec => []NewestRevisionIsTheRow` | every instance of `SourceRefresh` |
| `RefinesRevisionLog` | `Spec => ImplementsRevisionLog` | the same |
| `MentionsFollow`, `StatusFollows` | `[]MentionsNameTheDigest`, `[]StatusFollowsNewestRevision` | no Chat mentions; users may paste, refresh, pause, toggle, delete |
| `ChangesAreRecordedOnce`, `VectorsNameTheirDigest` | `[]OneRevisionPerChange`, `[]EmbeddingNamesTheDigest` | no Chat mentions and no *Refresh now* |
| `OverlapCostsAConnection`, `SpendingStaysWithin`, `BacklogIsNeverSilent` | `[]OverlapNeedsADrop`, `[]SpendWithinAllowance`, `[]NoSilentBacklog` | every instance of `RefreshCycle` |
| `NothingElseIsLost` | `[]LostOnlyWhileWriting` | every instance of `Briefs` |
| `AddressesHaveOneHolder`, `JobsDoNotOverlap`, `MovesCoverTheCareer`, `CancellingGivesBack`, `AddressesStayAgreed` | `[]OneCurrentHolder`, `[]OneJobAtATime`, `MovesKeepTheCareer`, `[]CancelUndoesTheMove`, `[]AddressesAgree` | every instance of `Employment`, dates with a time of day included |
| `NoPhaseWaitsForItself`, `OneFinalPhaseHolds`, `DotsHold`, `TheDrawnChainIsLongest` | `[]NoCycle`, `[]OneFinalPhase`, `[]DotStaysWherePlaced`, `[]ChainIsLongest` | every instance of `ProgramPhases` |
| `AboutHolds`, `DeliveryHolds`, `EndingsHold`, `OneOpenHolds` | `[]AboutSomething`, `[]DeliveryIsHonest`, `EndingsAreKept`, `[]OneOpenPerThread` | every instance of `Escalation` |
| `MembersHaveOneCopy`, `CopiesFollowTheTemplate`, `SavesKeepTheWork`, `FinishedCopiesAreLeftAlone` | `[]StandingIsOneCopy`, `[]CopiesCarryTheSteps`, `KeptStepsKeepTheirWork`, `HistoryIsNotRewritten` | every instance of `Initiative` |
| `HeadingsAreAnswered`, `ProgramsHaveOneStory`, `BooksAlwaysBalance`, `IdleDaysAreAdded` | `[]AskedMeansTold`, `[]OneStory`, `[]BooksBalance`, `IdleTimeIsPaid` | every instance of `ChainLedger` |
| `EveryDayIsExplained`, `SeriesAlwaysClosesTheBooks`, `ThePastStaysPut` | `[]DaysAreExplained`, `[]SeriesClosesTheBooks`, `[]PastStaysPut` | every instance of `ChainViews` |

Assumptions: those the modules name, which TLC evaluates in every run, and the
restrictions of the last column.  They are needed, and each is one the code can
meet: on an instance with mentions TLC violates the two properties of the fourth
row, and with *Refresh now* against the cron the two of the fifth.
`StatusFollowsNewestRevision` and `EndingsAreKept` are in no run; their theorems
cover them.

**Every instance.**  Types alone are not inductive: a step that reads
`row[job[a].src]` needs to know that the request holds a source there.  `TypeOK`
therefore has `Holds(job[a])`, what a request must hold at each position; with
it `TypeOK` is inductive (`InitTypes`, `NextTypes`).  All steps that write a row
have one of two shapes (`WritersWrite`): they touch columns that history does
not repeat, or they write hash and digest and append the same to the revisions.
From this, `StepEffect` says what any step of any actor does: keep what is
shown, publish one revision of one source, or retire one source.  The other two
theorems are consequences: `NewestInductive` for the invariant, and
`HistoryStep` for the refinement, where publish and retire are exactly
`RevisionLog`'s actions and keeping is a stutter.

**Without mentions.**  `NoThreads` is inductive: no request revises a thread.
Then a write either keeps everything that comes from a digest or renews all of
it (`StepRowEffect`), so mentions and status follow.  Pauses, toggles and any
number of overlapping refreshes do not matter.

**The cron as the only refresher.**  Here the invariant is about the gap between
a read and a commit.  `CronReadsTheRow`: while the cron is on its way to a
commit, the row it read still says what it said, or is gone, and what it fetched
is something else.  The row may be gone and pasted again under the same
`sourceRef`; that the commit then does not find it needs `IdsAreSpent` (an id in
use or in hand is at most `inserted`, so a new row has another).  With
`NoRefreshers` (no user request reads or commits a refresh) the conjunction
`SoleRefresher` is inductive, and at a commit it gives both theorems: the
appended hash differs from the last one, and "the digest text did not move since
the read" means that it did not move since the vector was written.

**The lock.**  `Cardinality(Running) <= 1 + drops` is not inductive.
`StraysCostADrop` is: the holder is one of the running cycles, and those that
are not the holder are at most as many as the connections lost.  A tick needs a
free lock, so it adds a holder to strays that are already paid for.

**Allowance and backlog.**  Both properties are about the end of a cycle, and
each of its stages spends from what the one before left.  `Books` keeps accounts
at every position: the requests made are covered by what the stages have spent,
each within what is left of the budget (`Paid`), and a document passed over shows
as demand that was not spent, as an item over, or as a quota stop (`Flagged`).
The page of due sources comes out of `SelectSeq`; only that it is a sequence is
needed, and `CheckWeb` takes one element at a time.

**Briefs.**  A brief is dated at its insert, long after its evidence was read.
`Inv` says of each writer in between what its evidence is good for (`Covers`):
one that is about to gather goes by the date of a brief that accounts for what
is older, and one that has gathered accounts for all there is by now, up to
`missed` and `left`.  That what the caps leave out is what `left` records is a
matter of counting: of a window, the newest n are kept, so before any other at
least n stand that are no older (`LeftOutIsBeyond`).  Inserting makes the second
into the property.

**Careers.**  That jobs do not overlap is not inductive: a move reads the
timeline, and writes from what it read.  `Careers` says of everybody whom no two
requests disturbed, and who was not moved on a day with a later boundary, that
their periods are `Tidy` (not empty, apart), that one request at most is at work
on them (`OneAtWork`), and that what it read is still so (`Holds`).  Periods begin
and end at any instant of a day.  Where none of them does so later on the day of a
move (`Sharp`), what covers the day is what contains the instant
(`CoversSharp`), and that is all the move needs.  `MovesCoverTheCareer` is then about one
write, and `CancelRestores` arithmetic on half-open intervals.  Addresses need
more: `Claims` says that an address which a request has checked and not yet
written is nobody else's, unless it is recorded as raced; and `Settled` that what
covers today names the person's address, but for the one period a dated change
has opened and not yet followed.

**The structure of a program.**  The properties alone are not inductive;
`StructureInv` adds what a request in flight has read (`Sound`): a draft in hand
is a valid graph, and the snapshot of an add that no save has outdated has every
dependency of the program in it.  An add that commits on such a snapshot closes
no cycle because its new parent is not downstream of the phase
(`AddedDependency`); that what the walk finds is what acyclicity is about are
lemmas at the head of `ProgramPhases_proofs` on smallest closed sets, without induction
(`AncestorsAreLeast`, `NoOwnAncestorIsAcyclic`).  A save puts in a graph that was
valid as a draft; giving its new phases their real ids keeps it so, being one to
one (`RenamedGraph`).  Removing dependencies keeps a graph acyclic
(`FewerDependencies`), adding them keeps it converging
(`AddedDependencyConverges`).

**Dots.**  `DotInv` adds that an update which nothing overtook still holds the
phase's newest position (`Steady`) and that two updates of one phase at once are
recorded (`OneUpdateAtATime`), so that the position it repeats is the one placed
last.

**The critical chain.**  `ChainIsLongest` compares what three recursive functions
compute: the days ahead of every phase, the walk along the best of them, and the
days of a path.  Each is a `CHOOSE` of a function that solves its equation, so
first a solution must exist (`AheadExists`, `DaysSolve`, `PathSolves`).  This is
an induction, done by a least counterexample: among the sets of phases on which
no solution exists there is a smallest (`LeastSubset`), acyclicity gives it
a member nothing else in it waits for, and without that one there is a solution,
which extends.  From the equations: no path has more days than lie ahead of its
first phase (`DaysBound`), the walk has exactly those (`DaysExact`), and it ends
within the number of phases as it never comes back to one (`NoneTwice`,
`PathEnds`).  `LongestChain` puts this together for any finite acyclic graph; the
theorem applies it to what `TypeOK` says of a program.

**Escalations.** `Inv` says of each request in flight what makes its next write
right: a status change that no other overlapped is still allowed
(`ChangesAreAllowed`); a partner on its way out was the only subject of nothing,
and a program takes along what it was the only subject of (`CountsAreZero`); where
no post overlapped another, the one in flight is the latest (`OnePostAtATime`),
and what the row does not say yet a request is about to write
(`PostsAreOnTheirWay`). It is shown action by action (`CreateInv` to `KillInv`,
together `NextInv`), with lemmas for the shapes several actions share (one row
inserted, one row rewritten, rows detached). `EndingsAreKept` is an action
property from the same invariant: among the steps only `StatusWrite` changes how
an escalation ended, and `ChangesAreAllowed` says that where nothing overlapped it
only does so from or to open. `OneOpenPerThread` compares a count of rows with a
count of events. What `ThreadsAreBounded` bounds are the open escalations and the
triggers past their duplicate check together, and the triggers before it: any of
these may still pass its check, and then all that are past it were triggers too.

**Initiatives.**  `Standing` says of each undisturbed partner that one request at
most handles it (`Alone`), that what this one read is still so (`InHand`), and
that the partner has one live copy exactly if it is a member, unless a batch is
between the membership and the copy (`Settled`).  A batch cut there, requests
that overlap, and copies ended, re-opened or archived by hand are the
disturbances.  `HistoryIsNotRewritten` follows from what each action writes: a
synchronisation passes over every copy that is not live.  For these two, what a
save makes of the phases is left open.

The two theorems on the steps need it.  `CarryInv` says that the rows of the
template are apart by id and none has an id yet to be given (`TemplateInv`); that
the phases of a copy are apart by id and by the step they remember, and, unless
the copy is behind, stand for exactly the steps, with dependencies that say what
theirs do (`GoodCopy`); and that a request holds rows it could have read: steps to
build from, or a draft of old rows with at most one new one after them
(`Prepared`).  `AddCreate` may build from steps since replaced, which is why what
it read must be good by itself.  `SaveWriteCarries` rests on three lemmas:
`SavedIs` (a draft written over the template gives a template, whatever other
saves brought in), `SyncedIs` (each step claims at most one phase and each phase
is claimed at most once, `Claims`, so one phase for each step comes out) and
`WiredIs`.  `SavesKeepTheWork` then asks who claims the phase of a kept step: its
step has it by provenance; a step before it in the order might match it by name,
but if the save saw the steps as they are that one is a kept step too, and has a
phase of its own (`SavedIs`, `KeptPhaseIsClaimed`).  With another save in between
this fails, and so the property asks for it.

**What the ledger says.**  `HeadingsAreAnswered` needs no invariant: it holds of
arbitrary rows, in whatever way the feeders of a ledger disagree.  The other
three are about the rows, which come out of a recursive function along the chain:
`ScheduleIs` says that it gives a row for each phase of the chain, each made from
the facts of its phase and from the row before (`Recursion` and `Climb`, by a least
counterexample).  `LedgerInv` is what they know of the state: updates carry the
time they came at, and while nothing was restated a start is claimed on its day,
a dot back at 0 had no start to retract, and `shown` is what the rows up to an
instant and the starts claimed by then still give (`Then`).  For `OneStory`,
`AsOf` is `Then` although it reads today's facts: a first progress by t is the
first of the rows up to t (`FirstOfThen`).  For `IdleTimeIsPaid`, along the chain
a finished row stays and any other ends a tick later (`RowsMove`), because what is
finished ended by now.  For `BooksBalance`, `Balanced` bounds what the rows up to
one are off by, in half ticks (`Worth` of a number of days, so that half a day needs
no fraction): a day for each finished row, half for its variance and half for the
gap before it, a little more for the one phase that may be active, nothing for what
has not begun after it.

**What the views draw.**  The three theorems of `ChainViews` need nothing beyond
`LedgerInv` of the state; their work is in the rows.  `Placed` says where one lies
in time: what is done ended by now, what is active ends from now on, what has not
begun starts when its turn comes, and its days are its span but for half a day
(`Rounds`).
*`EveryDayIsExplained`*: the spans of a row cover it (`SpansCover`), and the ones
drawn as facts end by now, the others begin then (`SpansAreDrawn`).  Take an
instant of the day between the first start and the finish, and the last row that
has started by then: either it still runs, or the next row is due, and in a chain
worked in order what lies between two rows is an idle handoff (`SomethingThen`),
with a name or, if it is shorter than half a day, without.
*`SeriesAlwaysClosesTheBooks`*: every move ends before the last day does
(`LastDayIs`), a move that is over counts in full (`MoveIsOver`), and row by row
that is what the waterfall counts (`RowIsOver`); the order in which phases were
worked plays no part.  *`ThePastStaysPut`*: an instant later a finished row is the
same row, an active one has moved its forecast but none of it to a day gone by
(`OwnIsKept`), and only the idle days before what has not begun may have been
rounded the other way.  Spread over their window, every tick should have its share
of a day; what is drawn is off from that by less than half a day, in the direction
in which the window was rounded (`Share`, `IdleAccrued`), so two such drawings differ
by at most a day (`IdleIsRounded`).
The proof also asks that what is done had begun (`DoneHasBegun`): a dot at 100 is
progress, so it has a start even if nobody claimed one, and is not placed where
the phase before it ends, which the calendar may move.

Only model-checked:

- liveness and everything under fairness (`FollowedSourcesConverge`,
  `SharedDocsAreDiscovered`, `DueSourcesAreChecked`, `DriveDemandIsMet`,
  `StaleBriefsAreRewritten`), which the prover does not reach;
- `StaleIsDetectable`: it holds for the cron as the only refresher and a Drive that
  refuses only what is not shared, and the cases that matter most, *Refresh now*
  and a passing refusal, break it (section 3);
- `OutlookIsNoBrighter`: it compares the recursions of two different chains.

Every other property that a passing run checks is stated by a theorem above.

## 5. What the models leave out

- One visit is atomic in `RefreshCycle`, and documents are neither unshared nor
  paused there; Drive's listing keeps its order.  Requests of failed attempts are
  not counted, as the code does not count them.
- The latest-cycle row and the health card that reads it; only what is recorded.
- In `Briefs`: updates as evidence, partner and initiative scopes (same shapes),
  the order in which kinds of evidence fill the list (`Room` is any), the rules a text must keep
  (their effect, a second request, is there), and a transaction's commit being
  later than its `createdAt`.
- Classification of an ingested document, pasted text without a `sourceRef`,
  canonical URLs, the guards of the fetch, the seed-only mock connector.
- In `Employment`: how a name resolves to a person, dismissed addresses.
- In `ProgramPhases`: names, owners, partners and estimates of phases.
- In `Initiative`: device links, creating, renaming and archiving an initiative,
  cloning of templates; the doors below that edit a copy's own structure.
- In `Escalation`: severity, level, due date, the text of announcements, the
  owner's record in the directory; the three roles are one.  A post that was
  delivered and whose answer was lost on the way (`chatPost.ts:94`) counts as
  neither: only the answer is known to the code.  Of a violated constraint and of a
  lookup that finds the winner, the two ways to lose a save, one outcome is kept.
- In `ChainLedger` and `ChainViews`: programs without an SOP date in the run (the
  theorems have them), the classes of the outlook, changes of structure and
  estimates, the load of owners beyond "wanted elsewhere", the busiest people, the re-baseline
  hint, credit windows, wording and geometry.
- The derivation of the cycle's budget from the daily setting and the cron
  expression, the quota latch, the folder walk of the sweep.

More than half of the repository's lines are components, style, translations
(`i18n.ts`), seeds and mock corpora, which carry no state of their own; the
models cover the server actions and the libraries that decide something.

## 6. Plan

1. *(done)* Sources, cycle and briefs; types, newest revision, refinement,
   derived data and the lock proved.
2. *(done)* `Employment`, `PhaseDag`, `CriticalChain`, `ProgramPhases`,
   `Initiative`, `Escalation`, `ChainLedger`, `ChainViews`; the structure of a
   program and the escalations proved.
3. `IngestBudget`: the arithmetic of `ingestBudget.ts` and `cronCadence.ts` as
   operators against their stated bounds; `QuotaLatch`; the folder walk.
4. *(done)* The safety of sources, cycle, briefs, careers, dots, escalations and
   initiatives proved, but for what is computed by recursion.
5. *(done)* `ChainIsLongest` by a least counterexample instead of an induction;
   `CopiesCarryTheSteps` and `KeptStepsKeepTheirWork` with the synchronisation
   stated without a fold; the story, the idle days and the books of `ChainLedger`
   with the first technique.
6. *(done)* The views of the ledger, `DaysAreExplained` first; the day series is
   a column with a row for each phase of the chain, as the code makes it, instead
   of a sum over a set.
7. *(done)* Time at any resolution in `ChainLedger` and `Employment`; fixed orders
   under a budget that never comes to rest in `RefreshCycle` and `Briefs`, caps on
   evidence; mentions and deletions in their steps in `Escalation`; the outlook.
