---------------------------- MODULE RefreshCycle ----------------------------
(***************************************************************************)
(* The cron worker (app/api/cron/refresh): one tick takes the single-flight*)
(* lock and spends one Gemini allowance over three stages, in this order:  *)
(*                                                                         *)
(*   drive   runDriveSync      ingest what was newly shared, refresh what  *)
(*                             moved, in the order Drive lists it          *)
(*   web     runRefreshCycle   the sources due, longest unchecked first    *)
(*   record  recordCycle       the summary the drain alarm reads           *)
(*   brief   runSummaryCycle   briefs, with what is left                   *)
(*                                                                         *)
(* What one refresh does to its row is module SourceRefresh.  Here a source*)
(* is only what scheduling sees of it: does it demand work, and what does  *)
(* a visit cost.  A visit is one step; between two visits anything happens.*)
(***************************************************************************)
EXTENDS Naturals, Sequences, FiniteSets, SequencesExt, Functions

CONSTANTS
    Worker,             \* requests of Cloud Scheduler, on any instance
    None,               \* nobody holds the lock
    Listing,            \* the Drive documents, in the order files.list returns them
    Start,              \* Start[d]: how the sweep sees document d at the start
    WebDoc,             \* tracked sources the Drive sweep does not manage
    Broken,             \* those of them whose every check fails
    Budget,             \* perCycleBudget(dailyReingestBudgetDocs)
    MaxSummaryRequests, \* MAX_REQUESTS_PER_CYCLE
    MaxBriefs,          \* bound: missing or stale scopes in one cycle
    MaxChanges,         \* bound: documents shared, re-stamped or touched, pages edited
    MaxFaults           \* bound: refusals, quota errors, aborted cycles, lost connections

DriveDoc == Range(Listing)

ASSUME LockAssumption == None \notin Worker
ASSUME DocAssumption == IsInjective(Listing) /\ DOMAIN Start = DriveDoc /\ Broken \subseteq WebDoc
ASSUME BoundAssumption ==
    {Budget, MaxSummaryRequests, MaxBriefs, MaxChanges, MaxFaults}
        \subseteq Nat

VARIABLES
    lock,       \* who holds the session's advisory lock
    cycle,      \* cycle[w]: the tick that worker w is in the middle of
    drive,      \* drive[d]: what the Drive sweep would see of document d
    web,        \* web[c]: what a check of web source c would find
    queue,      \* web sources by lastCheckedAt, oldest first
    due,        \* web sources whose cadence has elapsed
    drops,      \* connections lost by a holder of the lock
    changes, faults     \* against their bounds

counters == <<changes, drops, faults>>
vars == <<lock, cycle, drive, web, queue, due, counters>>

(* absent   not shared with the service account                            *)
(* blank    shared, not ingested, exports as empty text                    *)
(* new      shared, not ingested                                           *)
(* current  ingested, nothing to do                                        *)
(* edited   its text changed                                               *)
(* moved    its version moved, its text and its time did not               *)
(* touched  modifiedTime is past the row's lastChangedAt, text unchanged   *)
(* settled  frozen or a snapshot                                           *)
DriveStatus == {"absent", "blank", "new", "current", "edited", "moved", "touched", "settled"}
WebStatus == {"same", "changed", "settled"}

Cycle == [at : {"idle", "drive", "web", "brief"},
          todo : Seq(DriveDoc), unknown : SUBSET DriveDoc,
          demand : Nat, spent : Nat, found : Nat,
          page : Seq(WebDoc), over : Nat, distilled : Nat, quota : BOOLEAN,
          briefs : Nat, asked : Nat,
          passed : Nat, used : Nat]

Idle == [at |-> "idle", todo |-> <<>>, unknown |-> {}, demand |-> 0, spent |-> 0, found |-> 0,
         page |-> <<>>, over |-> 0, distilled |-> 0, quota |-> FALSE, briefs |-> 0, asked |-> 0,
         passed |-> 0, used |-> 0]

TypeOK ==
    /\ lock \in Worker \cup {None}
    /\ cycle \in [Worker -> Cycle]
    /\ drive \in [DriveDoc -> DriveStatus]
    /\ web \in [WebDoc -> WebStatus]
    /\ queue \in Seq(WebDoc) /\ IsInjective(queue) /\ Range(queue) = WebDoc
    /\ due \subseteq WebDoc
    /\ counters \in (0 .. MaxChanges) \X (0 .. MaxFaults) \X (0 .. MaxFaults)

Init ==
    /\ lock = None
    /\ cycle = [w \in Worker |-> Idle]
    /\ drive = Start
    /\ web = [c \in WebDoc |-> "same"]
    /\ queue \in {q \in [1 .. Cardinality(WebDoc) -> WebDoc] : IsInjective(q)}
    /\ due = {}
    /\ changes = 0 /\ drops = 0 /\ faults = 0

-----------------------------------------------------------------------------

At(w, where) == cycle[w].at = where
Become(w, c) == cycle' = [cycle EXCEPT ![w] = c]
Least(a, b) == IF a < b THEN a ELSE b
Remaining(allowance, spending) == IF allowance > spending THEN allowance - spending ELSE 0

(* "finally": only a lock that is still held is released. *)
Unlock(w) == lock' = IF lock = w THEN None ELSE lock

Fault == faults < MaxFaults /\ faults' = faults + 1 /\ UNCHANGED changes

(* What the tracked rows and the listing, read once at the start of the    *)
(* sweep, make the sweep work on.                                          *)
Demands(d) == drive[d] \in {"blank", "new", "edited", "moved", "touched"}

(* Mutant of Sweep: the latest listed goes first.                          *)
SweepBackwards == SelectSeq(Reverse(Listing), Demands)

(* ... in the order of the listing, which is the same in every cycle.      *)
Sweep == SelectSeq(Listing, Demands)

(* The head of the sweep's list counts as demand and is done with. *)
PassHead(c) == [c EXCEPT !.todo = Tail(@), !.demand = @ + 1]

-----------------------------------------------------------------------------
(* Mutants: what a plausible mistake would make of the definitions below.  *)
(* No specification uses them; each breaks a property of this module.      *)

(* Go on whatever pg_try_advisory_lock says. *)
TickRegardless(w) ==
    /\ At(w, "idle")
    /\ lock' = w
    /\ Become(w, [Idle EXCEPT !.at = "drive", !.todo = Sweep,
                              !.unknown = {d \in DriveDoc : drive[d] \in {"blank", "new"}}])
    /\ UNCHANGED <<drive, web, queue, due, counters>>

(* The budget is looked at before the demand is counted. *)
DriveStopsCounting(w) ==
    /\ At(w, "drive")
    /\ cycle[w].todo # <<>>
    /\ cycle[w].spent >= Budget
    /\ Become(w, [cycle[w] EXCEPT !.passed = @ + Len(cycle[w].todo), !.todo = <<>>])
    /\ UNCHANGED <<lock, drive, web, queue, due, counters>>

(* Only the outcome "changed" is tallied: a digest that reads "resolved"   *)
(* spends both calls and reports "frozen".                                 *)
TallyChanged(outcome) == IF outcome = "same" THEN 1 ELSE 0

(* A failing source keeps its place in the queue. *)
KeepPlace(c) == UNCHANGED <<queue, due>>
-----------------------------------------------------------------------------
(* The world: people share and edit documents, time passes. *)

Change == changes < MaxChanges /\ changes' = changes + 1 /\ UNCHANGED <<drops, faults>>

Share(d) ==
    /\ drive[d] = "absent"
    /\ Change
    /\ \E st \in {"blank", "new"} : drive' = [drive EXCEPT ![d] = st]
    /\ UNCHANGED <<lock, cycle, web, queue, due>>

(* Documents are edited without end: no bound here.                        *)
EditDoc(d) ==
    /\ drive[d] \in {"blank", "current", "moved", "touched"}
    /\ drive' = [drive EXCEPT ![d] = IF @ = "blank" THEN "new" ELSE "edited"]
    /\ UNCHANGED <<lock, cycle, web, queue, due, counters>>

(* The version moves by itself (sharing, comments). *)
Restamp(d) ==
    /\ drive[d] = "current"
    /\ Change
    /\ drive' = [drive EXCEPT ![d] = "moved"]
    /\ UNCHANGED <<lock, cycle, web, queue, due>>

(* Renamed, reformatted, edited and edited back: modifiedTime moves.       *)
Touch(d) ==
    /\ drive[d] \in {"current", "moved"}
    /\ Change
    /\ drive' = [drive EXCEPT ![d] = "touched"]
    /\ UNCHANGED <<lock, cycle, web, queue, due>>

EditPage(c) ==
    /\ web[c] = "same"
    /\ Change
    /\ web' = [web EXCEPT ![c] = "changed"]
    /\ UNCHANGED <<lock, cycle, drive, queue, due>>

(* Its cadence elapses (lastCheckedAt <= cutoff). *)
BecomeDue(c) ==
    /\ c \notin due
    /\ due' = due \cup {c}
    /\ UNCHANGED <<lock, cycle, drive, web, queue, counters>>

World ==
    \/ \E d \in DriveDoc : Share(d) \/ EditDoc(d) \/ Restamp(d) \/ Touch(d)
    \/ \E c \in WebDoc : EditPage(c) \/ BecomeDue(c)

-----------------------------------------------------------------------------
(* The lock. *)

(* A tick that finds the lock taken skips: no step at all.  Which request  *)
(* serves it makes no difference, so it is a fixed idle one.               *)
Tick(w) ==
    /\ At(w, "idle")
    /\ w = CHOOSE v \in Worker : At(v, "idle")
    /\ lock = None
    /\ lock' = w
    /\ Become(w, [Idle EXCEPT !.at = "drive", !.todo = Sweep,
                              !.unknown = {d \in DriveDoc : drive[d] \in {"blank", "new"}}])
    /\ UNCHANGED <<drive, web, queue, due, counters>>

(* The session that holds the lock loses its connection, and with it the   *)
(* lock; the cycle works through other connections and goes on.            *)
DropConnection(w) ==
    /\ lock = w
    /\ Fault
    /\ drops' = drops + 1
    /\ lock' = None
    /\ UNCHANGED <<cycle, drive, web, queue, due>>

(* The instance dies, or an error escapes a stage (files.list, the version *)
(* stamp of a deleted row): no summary is recorded for this cycle.         *)
Abort(w) ==
    /\ ~At(w, "idle")
    /\ Fault
    /\ Become(w, Idle)
    /\ Unlock(w)
    /\ UNCHANGED <<drive, web, queue, due, drops>>

-----------------------------------------------------------------------------
(* Stage one: the Drive sweep. *)

Sweeping(w) == At(w, "drive") /\ cycle[w].todo # <<>> /\ cycle[w].spent < Budget
Doc(w) == Head(cycle[w].todo)

(* A newly shared document: classify, distil and embed are three requests. *)
(* If it was edited since the listing, the version stored is behind it. An *)
(* empty one is put off; one that somebody ingested is a duplicate.        *)
Discover(w) ==
    LET d == Doc(w)
        c == PassHead(cycle[w])
    IN  /\ Sweeping(w)
        /\ d \in cycle[w].unknown
        /\ IF drive[d] = "new"
           THEN /\ \E st \in {"current", "moved"} : drive' = [drive EXCEPT ![d] = st]
                /\ Become(w, [c EXCEPT !.spent = @ + 1, !.found = @ + 1, !.used = @ + 3])
           ELSE Become(w, c) /\ UNCHANGED drive
        /\ UNCHANGED <<lock, web, queue, due, counters>>

(* refreshSource on a tracked document.  Whatever it answers, as long as it*)
(* is ok the document counts as spent and its listed version is stored.    *)
RefreshDoc(w) ==
    LET d == Doc(w)
        edited == drive[d] = "edited"
    IN  /\ Sweeping(w)
        /\ d \notin cycle[w].unknown
        /\ \E st \in (CASE edited -> {"current", "moved", "settled"}
                        [] drive[d] = "moved" -> {"current"}
                        [] OTHER -> {drive[d]}) :
               drive' = [drive EXCEPT ![d] = st]
        /\ Become(w, [PassHead(cycle[w]) EXCEPT !.spent = @ + 1,
                                                !.used = @ + (IF edited THEN 2 ELSE 0)])
        /\ UNCHANGED <<lock, web, queue, due, counters>>

(* Refused, or an error: demand without spending, whatever was requested.  *)
DriveFails(w) ==
    /\ Sweeping(w)
    /\ Fault
    /\ Become(w, PassHead(cycle[w]))
    /\ UNCHANGED <<lock, drive, web, queue, due, drops>>

(* A quota error leaves the loop: what follows is not even counted. *)
DriveQuota(w) ==
    /\ Sweeping(w)
    /\ Fault
    /\ Become(w, [PassHead(cycle[w]) EXCEPT !.todo = <<>>, !.quota = TRUE,
                                            !.passed = @ + Len(cycle[w].todo)])
    /\ UNCHANGED <<lock, drive, web, queue, due, drops>>

(* "Over budget - carries to next cycle." *)
DriveOverBudget(w) ==
    LET n == Len(cycle[w].todo) IN
    /\ At(w, "drive")
    /\ n > 0
    /\ cycle[w].spent >= Budget
    /\ Become(w, [cycle[w] EXCEPT !.todo = <<>>, !.demand = @ + n, !.passed = @ + n])
    /\ UNCHANGED <<lock, drive, web, queue, due, counters>>

-----------------------------------------------------------------------------
(* Stage two: the due web sources, within what the sweep left. *)

Watched(c) == c \in due /\ web[c] # "settled"

WebPage(w) ==
    LET listed == SelectSeq(queue, Watched)
        left == Remaining(Budget, cycle[w].spent)
        n == Least(left, Len(listed))
    IN  /\ At(w, "drive")
        /\ cycle[w].todo = <<>>
        /\ Become(w, [cycle[w] EXCEPT !.at = "web", !.unknown = {}, !.page = SubSeq(listed, 1, n),
                                      !.over = Len(listed) - n, !.passed = @ + (Len(listed) - n)])
        /\ UNCHANGED <<lock, drive, web, queue, due, counters>>

Checking(w) == At(w, "web") /\ cycle[w].page # <<>>
Page(w) == Head(cycle[w].page)

(* lastCheckedAt = now *)
Checked(c) ==
    /\ queue' = Append(Remove(queue, c), c)
    /\ due' = due \ {c}

(* outcome.distilled: set for "changed" and for a "frozen" by resolution. *)
Tally(outcome) == 1

CheckWeb(w) ==
    LET c == Page(w)
        next == [cycle[w] EXCEPT !.page = Tail(@)]
    IN  /\ Checking(w)
        /\ c \notin Broken
        /\ Checked(c)
        /\ IF web[c] = "changed"
           THEN \E outcome \in {"same", "settled"} :
                    /\ web' = [web EXCEPT ![c] = outcome]
                    /\ Become(w, [next EXCEPT !.distilled = @ + Tally(outcome), !.used = @ + 2])
           ELSE Become(w, next) /\ UNCHANGED web
        /\ UNCHANGED <<lock, drive, counters>>

(* Rotate the failing source to the back of the queue. *)
Rotate(c) == Checked(c)

WebBroken(w) ==
    /\ Checking(w)
    /\ Page(w) \in Broken
    /\ Rotate(Page(w))
    /\ Become(w, [cycle[w] EXCEPT !.page = Tail(@)])
    /\ UNCHANGED <<lock, drive, web, counters>>

(* Refused once its text had changed: the distillation may have been spent,*)
(* and refreshSource does not say so.                                      *)
WebFails(w) ==
    /\ Checking(w)
    /\ Fault
    /\ Rotate(Page(w))
    /\ Become(w, [cycle[w] EXCEPT !.page = Tail(@)])
    /\ UNCHANGED <<lock, drive, web, drops>>

WebQuota(w) ==
    /\ Checking(w)
    /\ Fault
    /\ Become(w, [cycle[w] EXCEPT !.page = <<>>, !.quota = TRUE, !.passed = @ + Len(cycle[w].page)])
    /\ UNCHANGED <<lock, drive, web, queue, due, drops>>

-----------------------------------------------------------------------------
(* Stages three and four. *)

Backlog(c) == Remaining(c.demand, c.spent) + c.over

(* recordCycle reports Backlog(c) and c.quota to the log and to the row the*)
(* health card reads; then runSummaryCycle finds n scopes missing or stale.*)
Recording(w) == At(w, "web") /\ cycle[w].page = <<>>

RecordCycle(w) ==
    LET c == cycle[w] IN
    /\ Recording(w)
    /\ \E n \in 0 .. MaxBriefs :
           Become(w, [c EXCEPT !.at = "brief", !.briefs = n, !.demand = 0, !.over = 0, !.passed = 0,
                               !.quota = FALSE])
    /\ UNCHANGED <<lock, drive, web, queue, due, counters>>

(* summariesAffordable(requestBudget - requestsForDocs(...)), capped. *)
RequestCap(c) ==
    Least(Remaining(2 * Budget, 2 * (c.spent + c.distilled)), MaxSummaryRequests)

Affordable(c) == Remaining(RequestCap(c), c.asked)

(* One attempt, and one more if the answer breaks a mechanical rule and the*)
(* allowance still pays for it; none when there is nothing to synthesize.  *)
WriteBrief(w) ==
    LET c == cycle[w] IN
    /\ At(w, "brief")
    /\ c.briefs > 0
    /\ Affordable(c) >= 1
    /\ \E k \in 0 .. Least(2, Affordable(c)) :
           Become(w, [c EXCEPT !.briefs = @ - 1, !.asked = @ + k, !.used = @ + k])
    /\ UNCHANGED <<lock, drive, web, queue, due, counters>>

(* createSummary throws: its requests are not reported. *)
BriefFails(w) ==
    LET c == cycle[w] IN
    /\ At(w, "brief")
    /\ c.briefs > 0
    /\ Affordable(c) >= 1
    /\ Fault
    /\ Become(w, [c EXCEPT !.briefs = @ - 1])
    /\ UNCHANGED <<lock, drive, web, queue, due, drops>>

CycleDone(w) ==
    /\ At(w, "brief")
    /\ cycle[w].briefs = 0 \/ Affordable(cycle[w]) < 1
    /\ Become(w, Idle)
    /\ Unlock(w)
    /\ UNCHANGED <<drive, web, queue, due, counters>>

-----------------------------------------------------------------------------

Continue(w) ==
    \/ Discover(w) \/ RefreshDoc(w) \/ DriveOverBudget(w)
    \/ WebPage(w) \/ CheckWeb(w) \/ WebBroken(w)
    \/ RecordCycle(w) \/ WriteBrief(w) \/ CycleDone(w)

GoesWrong(w) ==
    \/ DriveFails(w) \/ DriveQuota(w) \/ WebFails(w) \/ WebQuota(w)
    \/ BriefFails(w) \/ Abort(w) \/ DropConnection(w)

Next == World \/ \E w \in Worker : Tick(w) \/ Continue(w) \/ GoesWrong(w)

Spec == Init /\ [][Next]_vars

(* Cloud Scheduler ticks again and again, and a cycle that is not killed   *)
(* goes on.  The world owes nothing, not even the passing of time.         *)
FairSpec ==
    /\ Spec
    /\ WF_vars(\E w \in Worker : Tick(w))
    /\ \A w \in Worker : WF_vars(Continue(w))

-----------------------------------------------------------------------------
(* Safety. *)

Running == {w \in Worker : ~At(w, "idle")}

(* Two cycles overlap only if the connection that held the lock was lost:  *)
(* the advisory lock goes with it, the work does not (lib/singleFlight).   *)
OverlapNeedsADrop == Cardinality(Running) <= 1 + drops

(* A cycle's successful work stays within the allowance the slider plots,  *)
(* whichever stage does it, plus the classify call of each discovery, which*)
(* GEMINI_CALLS_PER_DOC leaves out; what failed attempts requested comes on*)
(* top, since no stage counts it (lib/ingestBudget, api/cron/refresh).     *)
SpendWithinAllowance == \A w \in Worker : cycle[w].used <= 2 * Budget + cycle[w].found

(* A cycle that records no backlog and no quota stop passed over nothing:  *)
(* no document that demanded work, no source that was due (recordCycle is  *)
(* all that the drain alarm sees).                                         *)
NoSilentBacklog ==
    \A w \in Worker :
        (Recording(w) /\ Backlog(cycle[w]) = 0 /\ ~cycle[w].quota) => cycle[w].passed = 0

-----------------------------------------------------------------------------
(* Liveness. *)

(* Documents a sweep pays for: one that is only touched is paid for again  *)
(* in every sweep.                                                         *)
Costs(d) == drive[d] \in {"new", "edited", "moved", "touched"}
ListedBefore(d) == {Listing[i] : i \in {i \in DOMAIN Listing : \A j \in 1 .. i : Listing[j] # d}}
FillTheBudget(docs) == Cardinality({d \in docs : Costs(d)}) >= Budget

(* A source that is due is checked, however many broken ones were due      *)
(* before it (the rotation in runRefreshCycle), or it is frozen; unless    *)
(* the Drive documents fill the budget again and again, for they go first. *)
DueSourcesAreChecked ==
    <>[]~FillTheBudget(DriveDoc) =>
        \A c \in WebDoc : c \in due ~> (c \notin due \/ web[c] = "settled")

(* "Over budget - carries to next cycle": a document that is new or edited *)
(* does not stay so, however often it and the others are edited, unless    *)
(* those that Drive lists before it fill the budget again and again.  The  *)
(* first Budget documents of the listing never starve; any other may, since*)
(* the order is the same in every cycle.                                   *)
DriveDemandIsMet ==
    \A d \in DriveDoc :
        <>[]~FillTheBudget(ListedBefore(d)) => []<>(drive[d] \notin {"new", "edited"})
=============================================================================
