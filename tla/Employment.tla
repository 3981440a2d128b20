------------------------------ MODULE Employment ------------------------------
(***************************************************************************)
(* People and their employment timeline: lib/profiles.ts with the calendar *)
(* predicates of lib/people.ts, the server actions of                      *)
(* app/actions/people.ts, the affiliations API and the exclusion           *)
(* constraint of the database.                                             *)
(*                                                                         *)
(* A career is a set of half-open periods.  Several requests edit careers  *)
(* at once; what each reads before its write (the clash guard, the periods *)
(* a move will close, the overlap an API post looks for) is a step of its  *)
(* own, because the transactions run at READ COMMITTED.  The writes of one *)
(* transaction are one step: nobody sees them before the commit.           *)
(*                                                                         *)
(* A day has PerDay instants: PerDay * d is the midnight that begins day d *)
(* and the others are times of that day.  The dialogs send midnights, but  *)
(* a person added from the directory starts at the time of day, and every  *)
(* schema takes a date with a time; so dates are any instants here.        *)
(* A partner and a role together are a Job.                                *)
(***************************************************************************)
EXTENDS Integers, FiniteSets

CONSTANTS
    Person,      \* the Person rows there can be
    Job,         \* a partner and the role held there
    Address,     \* the canonical e-mail addresses
    NoAddress,   \* an address that was not recorded (NULL)
    NoJob,       \* a form that carries no company and role
    Editor,      \* the requests in flight: people at a form, API clients
    PerDay,      \* the instants told apart within a day
    Days,        \* the number of days a date can name
    LastTick,    \* bound: the instant at which the clock stops
    MaxRequests, \* bound: requests ever made
    MaxFaults    \* bound: requests cut short

ASSUME DaysAssumption ==
    /\ PerDay \in Nat \ {0} /\ Days \in Nat \ {0}
    /\ LastTick \in 0 .. PerDay * Days - 1
ASSUME SentinelAssumption == NoAddress \notin Address /\ NoJob \notin Job

VARIABLES
    now,         \* the clock, an instant
    people,      \* the Person rows: there or not, current address, cached employer
    periods,     \* the PersonAffiliation rows
    nextId,      \* the sequence behind PersonAffiliation.id
    op,          \* what each editor is in the middle of, and has read
    raced,       \* history: people and addresses two editors worked on at once
    cut,         \* history: people whose dated change was cut short
    sameDay,     \* history: people moved on a day on which, later than the
                 \* move, one of their periods began or ended
    spent,       \* requests made so far
    faults       \* requests cut short so far

vars == <<now, people, periods, nextId, op, raced, cut, sameDay, spent, faults>>

-----------------------------------------------------------------------------
(* Calendar                                                                  *)

Instant == 0 .. PerDay * Days - 1
Forever == PerDay * (Days + 1)       \* an end date that is NULL

Day(t) == t \div PerDay
NextDay(t) == PerDay * (Day(t) + 1)
HasTakenEffect(t, at) == Day(t) <= Day(at)

Covers(q, at) == q.start < NextDay(at) /\ q.end >= NextDay(at)
Overlap(q, r) == q.start < r.end /\ r.start < q.end

Here(p) == people[p].state = "here"

PeriodsOf(p) == {q \in periods : q.person = p}
CoveringOf(p, at) == {q \in PeriodsOf(p) : Covers(q, at)}

\* No period of p begins or ends on the day of the instant, but later: then what
\* covers the day is what contains the instant.
Sharp(p, at) ==
    \A q \in PeriodsOf(p) : \A t \in {q.start, q.end} : ~(at < t /\ t < NextDay(at))

\* Mutant: a period that starts on the instant counts as one that follows.
NextStartFrom(p, at) ==
    LET later == {q.start : q \in {r \in PeriodsOf(p) : r.start >= at}}
    IN  IF later = {} THEN Forever
        ELSE CHOOSE t \in later : \A u \in later : t <= u

\* The start of the first period of p after the instant, Forever if none.
NextStart(p, at) ==
    LET later == {q.start : q \in {r \in PeriodsOf(p) : r.start > at}}
    IN  IF later = {} THEN Forever
        ELSE CHOOSE t \in later : \A u \in later : t <= u

\* The database's exclusion constraint: an address names one person at a time.
NoClash(ps) ==
    \A q, r \in ps :
        /\ q.person # r.person
        /\ q.email = r.email /\ q.email # NoAddress
        /\ q.end > q.start /\ r.end > r.start
        => ~Overlap(q, r)

\* Mutant: only the periods are asked, the Person rows are not.
AddressFreeOnPeriods(a, except, at) ==
    \A p \in Person \ except :
        Here(p) => \A q \in CoveringOf(p, at) : q.email # a

\* addressHolderAsOf: nobody but `except` uses the address, on a Person row
\* whatever the date, or on a period covering the instant.
AddressFree(a, except, at) ==
    \A p \in Person \ except :
        Here(p) => /\ people[p].email # a
                           /\ \A q \in CoveringOf(p, at) : q.email # a

-----------------------------------------------------------------------------
(* Types                                                                     *)

Period == [id : Nat, person : Person, job : Job, start : Instant,
           end : Instant \cup {Forever}, email : Address \cup {NoAddress},
           via : {"app", "early", "api"}]

PersonRow == [state : {"unborn", "here", "gone"}, email : Address \cup {NoAddress},
              current : Job \cup {NoJob}]

Unborn == [state |-> "unborn", email |-> NoAddress, current |-> NoJob]

Steps == {"idle", "create", "correct", "change", "read", "moved", "cancel",
          "post", "delete"}

Idle == [step |-> "idle", person |-> {}, job |-> NoJob, email |-> NoAddress,
         at |-> 0, end |-> Forever, rows |-> {}]

Operation == [step : Steps, person : {s \in SUBSET Person : Cardinality(s) < 2},
              job : Job \cup {NoJob}, email : Address \cup {NoAddress},
              at : Instant, end : Instant \cup {Forever}, rows : SUBSET Period]

TypeOK ==
    /\ now \in Instant
    /\ people \in [Person -> PersonRow]
    /\ periods \subseteq Period
    /\ nextId \in Nat
    /\ op \in [Editor -> Operation]
    /\ raced \subseteq Person \cup Address
    /\ cut \subseteq Person /\ sameDay \subseteq Person
    /\ spent \in Nat /\ faults \in Nat

Init ==
    /\ now = 0
    /\ people = [p \in Person |-> Unborn]
    /\ periods = {}
    /\ nextId = 0
    /\ op = [e \in Editor |-> Idle]
    /\ raced = {} /\ cut = {} /\ sameDay = {}
    /\ spent = 0 /\ faults = 0

-----------------------------------------------------------------------------
(* Requests                                                                  *)

\* Another request is in the middle of working on the same person, or is
\* claiming the same address.
Contended(e, ps, as) ==
    LET others == {op[f] : f \in {g \in Editor \ {e} : op[g].step # "idle"}}
    IN  {p \in ps : \E o \in others : p \in o.person}
            \cup {a \in as \cap Address : \E o \in others : o.email = a}

Begin(e, o) ==
    /\ op[e].step = "idle"
    /\ spent < MaxRequests /\ spent' = spent + 1
    /\ op' = [op EXCEPT ![e] = o]
    /\ raced' = raced \cup Contended(e, o.person, {o.email})

Finish(e) == op' = [op EXCEPT ![e] = Idle]

Period0(p, j, s, t, a, via) ==
    [id |-> nextId, person |-> p, job |-> j, start |-> s, end |-> t,
     email |-> a, via |-> via]

(* createPersonAt: the clash guard, then person and period in one write.     *)
CreateCheck(e) ==
    \E j \in Job, a \in Address, t \in Instant :
        /\ \E p \in Person : people[p].state = "unborn"
        /\ AddressFree(a, {}, t)
        /\ Begin(e, [Idle EXCEPT !.step = "create", !.job = j, !.email = a,
                                 !.at = t])
        /\ UNCHANGED <<now, people, periods, nextId, cut, sameDay, faults>>

CreateWrite(e) ==
    LET o == op[e] IN
    /\ o.step = "create"
    /\ Finish(e)
    /\ \E p \in Person :
        /\ people[p].state = "unborn"
        /\ LET opened == Period0(p, o.job, o.at, Forever, o.email,
                                 IF HasTakenEffect(o.at, now) THEN "app"
                                 ELSE "early") IN
           IF NoClash(periods \cup {opened})
           THEN /\ periods' = periods \cup {opened}
                /\ nextId' = nextId + 1
                /\ people' = [people EXCEPT
                       ![p] = [state |-> "here", email |-> o.email,
                               current |-> o.job]]
           ELSE UNCHANGED <<periods, nextId, people>>
    /\ UNCHANGED <<now, raced, cut, sameDay, spent, faults>>

(* correctPersonRecord: no effective date, the covering periods in place.    *)
CorrectCheck(e) ==
    \E p \in Person, a \in Address, j \in Job \cup {NoJob} :
        /\ Here(p)
        /\ AddressFree(a, {p}, now)
        /\ Begin(e, [Idle EXCEPT !.step = "correct", !.person = {p}, !.job = j,
                                 !.email = a, !.at = now])
        /\ UNCHANGED <<now, people, periods, nextId, cut, sameDay, faults>>

CorrectWrite(e) ==
    LET o == op[e] IN
    /\ o.step = "correct"
    /\ Finish(e)
    /\ \E p \in o.person :
        LET touched == CoveringOf(p, o.at)
            corrected(q) ==
                [q EXCEPT !.email = o.email,
                          !.job = IF o.job = NoJob THEN q.job ELSE o.job]
            after == (periods \ touched) \cup {corrected(q) : q \in touched}
        IN  IF /\ Here(p)
               /\ o.job = NoJob \/ touched # {}
               /\ NoClash(after)
            THEN /\ periods' = after
                 /\ people' = [people EXCEPT
                       ![p].email = o.email,
                       ![p].current = IF o.job = NoJob THEN @ ELSE o.job]
            ELSE UNCHANGED <<periods, people>>
    /\ UNCHANGED <<now, nextId, raced, cut, sameDay, spent, faults>>

(* recordPersonChange: the clash guard, the move, the person's own columns.  *)
ChangeCheck(e) ==
    \E p \in Person, j \in Job, a \in Address, t \in Instant :
        /\ Here(p)
        /\ AddressFree(a, {p}, t)
        /\ Begin(e, [Idle EXCEPT !.step = "change", !.person = {p}, !.job = j,
                                 !.email = a, !.at = t])
        /\ UNCHANGED <<now, people, periods, nextId, cut, sameDay, faults>>

MoveRead(e) ==
    /\ op[e].step = "change"
    /\ \E p \in op[e].person :
        /\ op' = [op EXCEPT ![e].step = "read",
                            ![e].rows = CoveringOf(p, op[e].at),
                            ![e].end = NextStart(p, op[e].at)]
        /\ sameDay' = IF Sharp(p, op[e].at) THEN sameDay ELSE sameDay \cup {p}
    /\ UNCHANGED <<now, people, periods, nextId, raced, cut, spent, faults>>

\* The closing stamp: the job held today, if it has no address yet, gets the
\* person's.  By the ids of the rows that were read.
Stamped(ps, rows, a) ==
    LET ids == {q.id : q \in {r \in rows : r.email = NoAddress /\ Covers(r, now)}}
    IN  {IF q.id \in ids THEN [q EXCEPT !.email = a] ELSE q : q \in ps}

\* Mutant: a row left empty by the move is kept.
ClosedKeepingEmpty(ps, rows, at) ==
    LET before == {q.id : q \in {r \in rows : r.start < at}}
    IN  {IF q.id \in before THEN [q EXCEPT !.end = at] ELSE q : q \in ps}

\* Rows that began before the move end there, rows that begin on it go.
Closed(ps, rows, at) ==
    LET before == {q.id : q \in {r \in rows : r.start < at}}
        onDate == {q.id : q \in {r \in rows : r.start >= at}}
    IN  {IF q.id \in before THEN [q EXCEPT !.end = at] ELSE q :
             q \in {r \in ps : r.id \notin onDate}}

MoveWrite(e) ==
    LET o == op[e] IN
    /\ o.step = "read"
    /\ \E p \in o.person :
        LET stamped == Stamped(periods, o.rows, people[p].email)
            blank == Period0(p, o.job, o.at, o.end, NoAddress, "app")
            opened == IF Covers(blank, now)
                      THEN [blank EXCEPT !.email = o.email] ELSE blank
            after == Closed(stamped, o.rows, o.at) \cup {opened}
        IN  IF Here(p) /\ NoClash(stamped) /\ NoClash(after)
            THEN /\ periods' = after
                 /\ nextId' = nextId + 1
                 /\ op' = [op EXCEPT ![e].step = "moved", ![e].rows = {}]
            ELSE Finish(e) /\ UNCHANGED <<periods, nextId>>
    /\ UNCHANGED <<now, people, raced, cut, sameDay, spent, faults>>

\* Mutant: the row follows when the date has arrived, whether or not the new
\* period still covers today.
ChangeFollowWhenArrived(e) ==
    LET o == op[e] IN
    /\ o.step = "moved"
    /\ Finish(e)
    /\ \E p \in o.person :
        people' = IF Here(p) /\ HasTakenEffect(o.at, now)
                  THEN [people EXCEPT ![p].email = o.email,
                                      ![p].current = o.job]
                  ELSE people
    /\ UNCHANGED <<now, periods, nextId, raced, cut, sameDay, spent, faults>>

ChangeFollow(e) ==
    LET o == op[e] IN
    /\ o.step = "moved"
    /\ Finish(e)
    /\ \E p \in o.person :
        people' = IF Here(p)
                     /\ Covers([start |-> o.at, end |-> o.end], now)
                  THEN [people EXCEPT ![p].email = o.email,
                                      ![p].current = o.job]
                  ELSE people
    /\ UNCHANGED <<now, periods, nextId, raced, cut, sameDay, spent, faults>>

(* cancelScheduledPeriod: the scheduled row is read, then spliced out.       *)
CancelRead(e) ==
    \E q \in periods :
        /\ ~HasTakenEffect(q.start, now)
        /\ Begin(e, [Idle EXCEPT !.step = "cancel", !.person = {q.person},
                                 !.rows = {q}])
        /\ UNCHANGED <<now, people, periods, nextId, cut, sameDay, faults>>

\* Mutant: what the cancelled change had closed is reopened for good.
SplicedOpen(ps, s) ==
    {IF q.person = s.person /\ q.end = s.start THEN [q EXCEPT !.end = Forever]
     ELSE q : q \in {r \in ps : r.id # s.id}}

Spliced(ps, s) ==
    {IF q.person = s.person /\ q.end = s.start THEN [q EXCEPT !.end = s.end]
     ELSE q : q \in {r \in ps : r.id # s.id}}

CancelWrite(e) ==
    /\ op[e].step = "cancel"
    /\ Finish(e)
    /\ \E s \in op[e].rows :
        IF /\ \E q \in periods : q.id = s.id
           /\ NoClash(Spliced(periods, s))
        THEN periods' = Spliced(periods, s)
        ELSE UNCHANGED periods
    /\ UNCHANGED <<now, people, nextId, raced, cut, sameDay, spent, faults>>

(* POST /api/people/[id]/affiliations: the overlap is read, then the insert. *)
PostRead(e) ==
    \E p \in Person, j \in Job, a \in Address \cup {NoAddress},
       s \in Instant, t \in Instant \cup {Forever} :
        /\ Here(p)
        /\ t > s
        /\ \A q \in PeriodsOf(p) : ~Overlap(q, [start |-> s, end |-> t])
        /\ Begin(e, [Idle EXCEPT !.step = "post", !.person = {p}, !.job = j,
                                 !.email = a, !.at = s, !.end = t])
        /\ UNCHANGED <<now, people, periods, nextId, cut, sameDay, faults>>

PostWrite(e) ==
    LET o == op[e] IN
    /\ o.step = "post"
    /\ Finish(e)
    /\ \E p \in o.person :
        LET posted == Period0(p, o.job, o.at, o.end, o.email, "api") IN
        IF Here(p) /\ NoClash(periods \cup {posted})
        THEN periods' = periods \cup {posted} /\ nextId' = nextId + 1
        ELSE UNCHANGED <<periods, nextId>>
    /\ UNCHANGED <<now, people, raced, cut, sameDay, spent, faults>>

(* DELETE /api/people/[id]/affiliations/[affiliationId]                      *)
DeletePeriod(e) ==
    \E q \in periods :
        /\ op[e].step = "idle"
        /\ spent < MaxRequests /\ spent' = spent + 1
        /\ periods' = periods \ {q}
        /\ raced' = raced \cup Contended(e, {q.person}, {})
        /\ UNCHANGED <<now, people, nextId, op, cut, sameDay, faults>>

(* deletePerson: the periods go first, then the row, in no transaction.      *)
DeletePersonPeriods(e) ==
    \E p \in Person :
        /\ Here(p)
        /\ periods' = periods \ PeriodsOf(p)
        /\ Begin(e, [Idle EXCEPT !.step = "delete", !.person = {p}])
        /\ UNCHANGED <<now, people, nextId, cut, sameDay, faults>>

DeletePersonRow(e) ==
    /\ op[e].step = "delete"
    /\ Finish(e)
    /\ \E p \in op[e].person :
        people' = IF PeriodsOf(p) = {} THEN [people EXCEPT ![p].state = "gone"]
                  ELSE people
    /\ UNCHANGED <<now, periods, nextId, raced, cut, sameDay, spent, faults>>

(* A request dies between two of its steps; an open transaction rolls back.  *)
Abandon(e) ==
    /\ op[e].step # "idle"
    /\ faults < MaxFaults /\ faults' = faults + 1
    /\ Finish(e)
    /\ cut' = IF op[e].step = "moved" THEN cut \cup op[e].person ELSE cut
    /\ UNCHANGED <<now, people, periods, nextId, raced, sameDay, spent>>

Tick ==
    /\ now < LastTick
    /\ now' = now + 1
    /\ UNCHANGED <<people, periods, nextId, op, raced, cut, sameDay, spent, faults>>

Next ==
    \/ Tick
    \/ \E e \in Editor :
        \/ CreateCheck(e) \/ CreateWrite(e)
        \/ CorrectCheck(e) \/ CorrectWrite(e)
        \/ ChangeCheck(e) \/ MoveRead(e) \/ MoveWrite(e) \/ ChangeFollow(e)
        \/ CancelRead(e) \/ CancelWrite(e)
        \/ PostRead(e) \/ PostWrite(e) \/ DeletePeriod(e)
        \/ DeletePersonPeriods(e) \/ DeletePersonRow(e)
        \/ Abandon(e)

Spec == Init /\ [][Next]_vars

-----------------------------------------------------------------------------
(* What the timeline promises                                                *)

\* One person holds one job at an instant.  Nothing in the database says so: two
\* requests at work on the same person at once can break it, and a move on a day
\* in the middle of which a period ends.
OneJobAtATime ==
    \A p \in Person \ (raced \cup sameDay) : \A q, r \in PeriodsOf(p) :
        q # r => ~Overlap(q, r)

\* Person.email has no unique index any more: only two requests claiming one
\* address at once can leave it on two Person rows.
OneCurrentHolder ==
    \A p, q \in Person :
        /\ p # q /\ Here(p) /\ Here(q)
        /\ people[p].email = people[q].email
        => people[p].email \in raced

\* The row and the job agree on the address: a period the application opened
\* or corrected that covers today either records the person's current address
\* or none, unless a change was cut short between its two writes, raced, or fell
\* on a day on which another period began or ended later.
AddressesAgree ==
    \A p \in Person \ (raced \cup cut \cup sameDay) :
        (\A e \in Editor : p \notin op[e].person) =>
            \A q \in CoveringOf(p, now) :
                q.via = "app" => q.email \in {NoAddress, people[p].email}

DaysCovered(ps, p) ==
    {d \in 0 .. Days : \E q \in ps : q.person = p /\ Covers(q, PerDay * d)}

\* A move is an insert into a timeline: on no day on which the person had a
\* job before it are they left without one.
MovesNeverUncover ==
    [][\A e \in Editor, p \in Person \ raced :
          op[e].step = "read" /\ op'[e].step = "moved" /\ p \in op[e].person
              => DaysCovered(periods, p) \subseteq DaysCovered(periods', p)]_vars

\* So it is unless one of their periods begins or ends on the day of the move,
\* but later.
MovesKeepTheCareer ==
    [][\A e \in Editor, p \in Person \ (raced \cup sameDay) :
          op[e].step = "read" /\ op'[e].step = "moved" /\ p \in op[e].person
              => DaysCovered(periods, p) \subseteq DaysCovered(periods', p)]_vars

\* Cancelling is the move run backwards: a move scheduled inside a period that
\* another follows without a gap (or that is open), on a day on which none begins
\* or ends later, leaves the career as it was once cancelled, addresses apart.
Unaddressed(ps) == {[q EXCEPT !.email = NoAddress] : q \in ps}

CancelUndoesTheMove ==
    \A p \in Person \ (raced \cup sameDay) : \A q \in PeriodsOf(p) : \A t \in Instant :
        /\ ~HasTakenEffect(t, now) /\ Sharp(p, t)
        /\ q.start < t /\ t < q.end /\ q.end = NextStart(p, t)
        => LET opened == Period0(p, q.job, t, NextStart(p, t), NoAddress, "app")
               moved == Closed(periods, CoveringOf(p, t), t) \cup {opened}
           IN  Unaddressed(Spliced(moved, opened)) = Unaddressed(periods)
=============================================================================
