--------------------------- MODULE Employment_proofs ---------------------------
(***************************************************************************)
(* Theorems about Employment, for any number of people, jobs, addresses,   *)
(* requests and days.                                                      *)
(***************************************************************************)
EXTENDS Employment, FiniteSetTheorems, WellFoundedInduction, TLAPS

-----------------------------------------------------------------------------
(* The calendar. *)

\* A set of numbers has a least one: among its initial segments, which are
\* finite, one has none below it.
LEMMA LeastExists ==
    ASSUME NEW S, S \subseteq Nat, S # {}
    PROVE  \E n \in S : \A m \in S : n <= m
<1> DEFINE Upto(n) == S \cap 0 .. n
           Segments == {Upto(n) : n \in S}
           R == StrictSubsetOrdering(S)
<1>1. \A n \in S : IsFiniteSet(Upto(n))
    <2> SUFFICES ASSUME NEW n \in S PROVE IsFiniteSet(Upto(n))
        OBVIOUS
    <2>1. IsFiniteSet(0 .. n)
        BY FS_Interval
    <2> QED  BY <2>1, FS_Subset
<1>2. Segments \subseteq FiniteSubsetsOf(S) /\ Segments # {}
    BY <1>1 DEF FiniteSubsetsOf
<1>3. IsWellFoundedOn(R, FiniteSubsetsOf(S))
    BY FS_StrictSubsetOrderingWellFounded
<1>4. PICK X \in Segments : \A Y \in Segments : <<Y, X>> \notin R
    <2> HIDE DEF R, Segments
    <2> QED  BY <1>2, <1>3, WFMin
<1>5. PICK n \in S : X = Upto(n)
    OBVIOUS
<1>6. \A m \in S : n <= m
    <2> SUFFICES ASSUME NEW m \in S, m < n PROVE FALSE
        OBVIOUS
    <2>1. Upto(m) \subseteq Upto(n) /\ n \in Upto(n) /\ n \notin Upto(m)
        OBVIOUS
    <2>2. <<Upto(m), Upto(n)>> \in R
        BY <2>1 DEF StrictSubsetOrdering
    <2> QED  BY <1>4, <1>5, <2>2
<1> QED  BY <1>6

LEMMA TimesMono ==
    ASSUME NEW n \in Nat, NEW a \in Int, NEW b \in Int, a <= b
    PROVE  n * a <= n * b
OBVIOUS

\* An instant lies in the day it is said to lie in.
LEMMA InItsDay ==
    ASSUME NEW t \in Nat
    PROVE  /\ Day(t) \in Nat /\ PerDay * Day(t) <= t
           /\ NextDay(t) \in Nat /\ t < NextDay(t)
<1>1. PerDay \in Nat /\ PerDay > 0
    BY DaysAssumption
<1>2. ASSUME NEW n \in Nat, n > 0
      PROVE  t \div n \in Nat /\ n * (t \div n) <= t /\ t < n * (t \div n + 1) /\ n * (t \div n + 1) \in Nat
    BY <1>2
<1> QED  BY <1>1, <1>2 DEF NextDay, Day

LEMMA Later ==
    ASSUME NEW t \in Nat, NEW u \in Nat
    PROVE  /\ t <= u => NextDay(t) <= NextDay(u)
           /\ ~HasTakenEffect(t, u) => NextDay(u) <= t
           /\ HasTakenEffect(t, u) => t < NextDay(u)
<1>1. PerDay \in Nat
    BY DaysAssumption
<1>2. PICK d \in Nat : d = Day(t) /\ PerDay * d <= t /\ t < NextDay(t) /\ NextDay(t) = PerDay * (d + 1)
    BY InItsDay DEF NextDay
<1>3. PICK c \in Nat : c = Day(u) /\ PerDay * c <= u /\ u < NextDay(u) /\ NextDay(u) = PerDay * (c + 1)
    BY InItsDay DEF NextDay
<1>4. PICK a \in Nat, b \in Nat : a = NextDay(t) /\ b = NextDay(u)
    BY InItsDay
<1>5. PICK x \in Nat : x = PerDay * d
    BY <1>1
<1>6. d <= c => a <= b
    BY <1>1, <1>2, <1>3, <1>4, TimesMono
<1>7. c + 1 <= d => b <= x
    BY <1>1, <1>3, <1>4, <1>5, TimesMono
<1>8. x <= t /\ t < a /\ u < b
    BY <1>2, <1>3, <1>4, <1>5
<1>9. ASSUME t <= u PROVE a <= b
    BY <1>6, <1>7, <1>8, <1>9
<1>10. HasTakenEffect(t, u) <=> d <= c
    BY <1>2, <1>3 DEF HasTakenEffect
<1> QED  BY <1>4, <1>6, <1>7, <1>8, <1>9, <1>10

LEMMA Calendar ==
    ASSUME NEW t \in Nat
    PROVE  /\ NextDay(t) \in Nat /\ t < NextDay(t)
           /\ t + 1 \in Nat /\ NextDay(t) <= NextDay(t + 1)
<1>1. t + 1 \in Nat /\ t <= t + 1
    OBVIOUS
<1> QED  BY <1>1, InItsDay, Later

\* A period without an end outlasts every day.
LEMMA ForeverIsLast ==
    /\ Forever \in Nat
    /\ \A t \in Instant : t \in Nat /\ t < Forever
    /\ \A d \in 0 .. Days : PerDay * d \in Nat /\ NextDay(PerDay * d) <= Forever
<1>1. PerDay \in Nat /\ PerDay > 0 /\ Days \in Nat
    BY DaysAssumption
<1>2. PerDay * Days \in Nat /\ PerDay * (Days + 1) = PerDay * Days + PerDay
    BY <1>1
<1>3. Forever \in Nat /\ \A t \in Instant : t \in Nat /\ t < Forever
    <2>1. PICK x \in Nat : x = PerDay * Days
        BY <1>2
    <2> QED  BY <1>1, <1>2, <2>1 DEF Forever, Instant
<1>4. ASSUME NEW d \in 0 .. Days PROVE PerDay * d \in Nat /\ NextDay(PerDay * d) <= Forever
    <2>1. d \in Nat /\ PerDay * d \in Nat /\ d + 1 <= Days + 1
        BY <1>1
    <2>2. PerDay * (d + 1) <= PerDay * (Days + 1)
        BY <1>1, <2>1, TimesMono
    <2>3. ASSUME NEW n \in Nat, n > 0 PROVE (n * d) \div n = d
        BY <2>1, <2>3
    <2> QED  BY <1>1, <2>1, <2>2, <2>3 DEF NextDay, Day, Forever
<1> QED  BY <1>3, <1>4

\* The next start is a start after the instant, with none in between, or never.
LEMMA NextStartFound ==
    ASSUME NEW p, NEW t, \A q \in PeriodsOf(p) : q.start \in Instant
    PROVE  \/ /\ NextStart(p, t) = Forever
              /\ \A q \in PeriodsOf(p) : ~(q.start > t)
           \/ /\ \E q \in PeriodsOf(p) : q.start = NextStart(p, t) /\ q.start > t
              /\ \A q \in PeriodsOf(p) : q.start > t => NextStart(p, t) <= q.start
<1> DEFINE later == {q.start : q \in {r \in PeriodsOf(p) : r.start > t}}
<1>1. later \subseteq Nat
    BY ForeverIsLast
<1>2. CASE later = {}
    BY <1>2 DEF NextStart
<1>3. CASE later # {}
    <2>1. \E n \in later : \A m \in later : n <= m
        <3> HIDE DEF later
        <3> QED  BY <1>1, <1>3, LeastExists
    <2>2. NextStart(p, t) = CHOOSE n \in later : \A m \in later : n <= m
        BY <1>3 DEF NextStart
    <2>3. NextStart(p, t) \in later /\ \A m \in later : NextStart(p, t) <= m
        <3> HIDE DEF later
        <3> QED  BY <2>1, <2>2
    <2> QED  BY <2>3
<1> QED  BY <1>2, <1>3

-----------------------------------------------------------------------------
(* The invariant behind what is said of careers: what nobody has disturbed. *)

\* Of whom nothing is said: those on whom two requests were at work at once, and
\* those moved on a day on which a period began or ended later.
Excepted == raced \cup sameDay
USE DEF Excepted

\* Ids are the handles by which a write finds the rows that were read.
IdsAreHandles ==
    /\ \A q \in periods : q.id < nextId
    /\ \A q, r \in periods : q.id = r.id => q = r
    /\ \A e \in Editor : \A s \in op[e].rows :
           /\ s.id < nextId /\ s.person \in op[e].person
           /\ \A q \in periods : q.id = s.id => q.person = s.person

\* A request is about one person at most, and nobody who is not there yet has a
\* period or is worked on.
Subjects ==
    /\ \A e \in Editor : op[e].step \in {"idle", "create"} => op[e].person = {}
    /\ \A e \in Editor : \A p, q \in op[e].person : p = q
    /\ \A p \in Person : people[p].state = "unborn" =>
           PeriodsOf(p) = {} /\ \A e \in Editor : p \notin op[e].person

\* What a form must name is there: a job, and a period's end after its start.
Filled(o) ==
    /\ o.step \in {"create", "change", "read", "moved", "post"} =>
           o.job \in Job
    /\ o.step = "post" => o.at < o.end

Forms == \A e \in Editor : Filled(op[e])

\* A career: its periods are not empty, and do not overlap.
Tidy(p) ==
    /\ \A q \in PeriodsOf(p) : q.start < q.end
    /\ \A q, r \in PeriodsOf(p) : q # r => ~Overlap(q, r)

OneAtWork(p) == \A e, f \in Editor : p \in op[e].person /\ p \in op[f].person => e = f

\* What a request at work on p has read is still so.
Holds(o, p) ==
    /\ o.step = "post" => \A q \in PeriodsOf(p) : ~Overlap(q, [start |-> o.at, end |-> o.end])
    /\ o.step = "read" => o.rows = CoveringOf(p, o.at) /\ o.end = NextStart(p, o.at) /\ Sharp(p, o.at)
    /\ o.step = "cancel" => o.rows \subseteq PeriodsOf(p)

Undisturbed(p) ==
    /\ Tidy(p)
    /\ OneAtWork(p)
    /\ \A e \in Editor : p \in op[e].person => Holds(op[e], p)

Careers == \A p \in Person \ Excepted : Undisturbed(p)

Inv == TypeOK /\ IdsAreHandles /\ Subjects /\ Forms /\ Careers

-----------------------------------------------------------------------------
(* What requests are made of. *)

Alone == {s \in SUBSET Person : Cardinality(s) < 2}

LEMMA Singles == {} \in Alone /\ \A p \in Person : {p} \in Alone
BY FS_EmptySet, FS_Singleton DEF Alone

LEMMA IdleIsOperation == Idle \in Operation /\ Idle.step = "idle" /\ Idle.person = {} /\ Idle.rows = {}
<1>1. 0 \in Instant
    BY DaysAssumption DEF Instant
<1> QED  BY <1>1, Singles DEF Idle, Operation, Steps, Alone

LEMMA OperationFields ==
    ASSUME NEW o \in Operation
    PROVE  /\ o.step \in Steps /\ o.person \subseteq Person /\ o.person \in Alone
           /\ o.job \in Job \cup {NoJob} /\ o.email \in Address \cup {NoAddress}
           /\ o.at \in Instant /\ o.end \in Instant \cup {Forever} /\ o.rows \subseteq Period
           /\ o.at \in Nat /\ o.end \in Nat
BY ForeverIsLast DEF Operation, Alone

LEMMA PeriodFields ==
    ASSUME NEW q \in Period
    PROVE  /\ q.id \in Nat /\ q.person \in Person /\ q.job \in Job
           /\ q.start \in Instant /\ q.end \in Instant \cup {Forever}
           /\ q.start \in Nat /\ q.end \in Nat /\ q.email \in Address \cup {NoAddress}
           /\ q.via \in {"app", "early", "api"}
BY ForeverIsLast DEF Period

LEMMA Finished ==
    ASSUME TypeOK, NEW e \in Editor, Finish(e)
    PROVE  /\ op' \in [Editor -> Operation] /\ op'[e] = Idle
           /\ \A f \in Editor \ {e} : op'[f] = op[f]
BY IdleIsOperation DEF TypeOK, Finish

LEMMA Begun ==
    ASSUME TypeOK, Subjects, NEW e \in Editor, NEW o \in Operation, Begin(e, o)
    PROVE  /\ op' \in [Editor -> Operation] /\ op'[e] = o /\ op[e].step = "idle"
           /\ \A f \in Editor \ {e} : op'[f] = op[f]
           /\ raced' \subseteq Person \cup Address /\ raced \subseteq raced' /\ spent' \in Nat
           /\ \A p \in o.person \ raced' : \A f \in Editor \ {e} : p \notin op[f].person
           /\ o.email \in Address \ raced' =>
                 \A f \in Editor \ {e} : op[f].step # "idle" => op[f].email # o.email
<1>1. /\ op' \in [Editor -> Operation] /\ op'[e] = o /\ op[e].step = "idle" /\ spent' \in Nat
      /\ \A f \in Editor \ {e} : op'[f] = op[f]
    BY DEF Begin, TypeOK
<1>2. raced' = raced \cup Contended(e, o.person, {o.email})
    BY DEF Begin
<1>3. Contended(e, o.person, {o.email}) \subseteq Person \cup Address
    BY OperationFields DEF Contended
<1>4. ASSUME NEW p \in o.person, NEW f \in Editor \ {e}, p \in op[f].person
      PROVE  p \in Contended(e, o.person, {o.email})
    BY <1>4 DEF Contended, Subjects
<1>5. ASSUME o.email \in Address, NEW f \in Editor \ {e}, op[f].step # "idle", op[f].email = o.email
      PROVE  o.email \in Contended(e, o.person, {o.email})
    BY <1>5 DEF Contended
<1> QED  BY <1>1, <1>2, <1>3, <1>4, <1>5 DEF TypeOK

-----------------------------------------------------------------------------
(* Steps that several actions share. *)

\* Whom a step leaves alone, it leaves undisturbed.
LEMMA LeftAlone ==
    ASSUME NEW p, Undisturbed(p), PeriodsOf(p)' = PeriodsOf(p),
           \A f \in Editor : p \in op'[f].person => op'[f] = op[f]
    PROVE  Undisturbed(p)'
<1>1. Tidy(p)'
    BY DEF Undisturbed, Tidy, Overlap
<1>2. OneAtWork(p)'
    BY DEF Undisturbed, OneAtWork
<1>3. ASSUME NEW f \in Editor, p \in op'[f].person PROVE Holds(op[f], p)'
    <2>1. op'[f] = op[f] /\ Holds(op[f], p)
        BY <1>3 DEF Undisturbed
    <2>2. CoveringOf(p, op[f].at)' = CoveringOf(p, op[f].at)
        BY <2>1 DEF CoveringOf, Covers
    <2>3. NextStart(p, op[f].at)' = NextStart(p, op[f].at)
        BY <2>1 DEF NextStart
    <2>4. Sharp(p, op[f].at)' = Sharp(p, op[f].at)
        BY <2>1 DEF Sharp
    <2> QED  BY <2>1, <2>2, <2>3, <2>4 DEF Holds, Overlap
<1> QED  BY <1>1, <1>2, <1>3 DEF Undisturbed

\* A request begins and has written nothing yet.
LEMMA BeginInv ==
    ASSUME Inv, NEW e \in Editor, NEW o \in Operation, Begin(e, o),
           UNCHANGED <<now, people, periods, nextId, cut, sameDay, faults>>,
           o.step # "idle", o.step = "create" => o.person = {},
           \A p, q \in o.person : p = q, \A p \in o.person : people[p].state # "unborn",
           \A s \in o.rows : s \in periods /\ s.person \in o.person,
           Filled(o), \A p \in o.person : Holds(o, p)
    PROVE  Inv'
<1>1. /\ op' \in [Editor -> Operation] /\ op'[e] = o
      /\ \A f \in Editor \ {e} : op'[f] = op[f]
      /\ raced' \subseteq Person \cup Address /\ raced \subseteq raced' /\ spent' \in Nat
      /\ \A p \in o.person \ raced' : \A f \in Editor \ {e} : p \notin op[f].person
    BY Begun DEF Inv
<1>2. TypeOK'
    BY <1>1 DEF Inv, TypeOK
<1>3. IdsAreHandles'
    <2> SUFFICES ASSUME NEW f \in Editor, NEW s \in op'[f].rows
                 PROVE  /\ s.id < nextId /\ s.person \in op'[f].person
                        /\ \A q \in periods : q.id = s.id => q.person = s.person
        BY DEF Inv, IdsAreHandles
    <2>1. CASE f = e
        BY <1>1, <2>1 DEF Inv, IdsAreHandles
    <2>2. CASE f # e
        BY <1>1, <2>2 DEF Inv, IdsAreHandles
    <2> QED  BY <2>1, <2>2
<1>4. Subjects'
    <2>1. \A p \in Person : PeriodsOf(p)' = PeriodsOf(p)
        BY DEF PeriodsOf
    <2>2. \A f \in Editor : op'[f].step \in {"idle", "create"} => op'[f].person = {}
        BY <1>1 DEF Inv, Subjects
    <2>3. \A f \in Editor : \A p, q \in op'[f].person : p = q
        BY <1>1 DEF Inv, Subjects
    <2>4. \A p \in Person : people[p].state = "unborn" => \A f \in Editor : p \notin op'[f].person
        BY <1>1 DEF Inv, Subjects
    <2> QED  BY <2>1, <2>2, <2>3, <2>4 DEF Inv, Subjects
<1>5. Forms'
    BY <1>1 DEF Inv, Forms, Filled
<1>6. Careers'
    <2> SUFFICES ASSUME NEW p \in Person \ Excepted' PROVE Undisturbed(p)'
        BY DEF Careers
    <2>1. Undisturbed(p) /\ PeriodsOf(p)' = PeriodsOf(p)
        BY <1>1 DEF Inv, Careers, PeriodsOf
    <2>2. CASE p \notin o.person
        BY <1>1, <2>1, <2>2, LeftAlone
    <2>3. CASE p \in o.person
        <3>1. \A f \in Editor : p \in op'[f].person => f = e
            BY <1>1, <2>3
        <3>2. Tidy(p)'
            BY <2>1 DEF Undisturbed, Tidy, Overlap
        <3>3. Holds(o, p)'
            <4>1. Holds(o, p)
                BY <2>3
            <4>2. CoveringOf(p, o.at)' = CoveringOf(p, o.at) /\ NextStart(p, o.at)' = NextStart(p, o.at)
                BY <2>1 DEF CoveringOf, Covers, NextStart
            <4>3. Sharp(p, o.at)' = Sharp(p, o.at)
                BY <2>1 DEF Sharp
            <4> QED  BY <2>1, <4>1, <4>2, <4>3 DEF Holds, Overlap
        <3> QED  BY <1>1, <3>1, <3>2, <3>3 DEF Undisturbed, OneAtWork
    <2> QED  BY <2>2, <2>3
<1> QED  BY <1>2, <1>3, <1>4, <1>5, <1>6 DEF Inv

\* A write maps the rows it keeps, by their ids, and inserts at most one.
Writes(f, old, new) ==
    /\ old \subseteq periods
    /\ periods' = {f[q] : q \in old} \cup new
    /\ \A q \in old : f[q] \in Period /\ f[q].id = q.id /\ f[q].person = q.person
    /\ \A x, y \in new : x = y
    /\ \A x \in new : x \in Period /\ x.id = nextId /\ people'[x.person].state # "unborn"
    /\ nextId' = IF new = {} THEN nextId ELSE nextId + 1

\* What nobody is born into, and who is not unborn, by a step.
Stays == \A p \in Person : people'[p].state = "unborn" => people[p].state = "unborn"

\* The request at work ends, or goes on with nothing read.
Advances(e) ==
    /\ op' \in [Editor -> Operation] /\ \A g \in Editor \ {e} : op'[g] = op[g]
    /\ op'[e].person \subseteq op[e].person /\ op'[e].rows = {}
    /\ op'[e].step \in {"idle", "create"} => op'[e].person = {}
    /\ op'[e].step \notin {"post", "read", "cancel"}
    /\ Filled(op'[e])
    /\ people' \in [Person -> PersonRow] /\ Stays
    /\ raced' = raced /\ sameDay' = sameDay /\ now' = now /\ cut' \subseteq Person /\ spent' \in Nat /\ faults' \in Nat

LEMMA WriteShape ==
    ASSUME Inv, NEW e \in Editor, NEW f, NEW old, NEW new, Writes(f, old, new), Advances(e)
    PROVE  /\ (TypeOK /\ IdsAreHandles /\ Subjects /\ Forms)'
           /\ \A p \in Person :
                 (/\ \A q \in PeriodsOf(p) : q \in old /\ f[q] = q
                  /\ \A x \in new : x.person # p) => PeriodsOf(p)' = PeriodsOf(p)
<1> USE DEF Writes, Advances
<1>1. nextId \in Nat /\ nextId' \in Nat /\ nextId <= nextId'
    BY DEF Inv, TypeOK
<1>2. TypeOK'
    <2>1. periods' \subseteq Period
        OBVIOUS
    <2> QED  BY <1>1, <2>1 DEF Inv, TypeOK
<1>3. \A x \in periods' : \/ x \in new /\ x.id = nextId /\ nextId < nextId'
                          \/ \E q \in old : x = f[q] /\ q.id = x.id /\ q.person = x.person
    BY <1>1
<1>4. \A q \in periods : q.id < nextId /\ q.id \in Nat
    BY PeriodFields DEF Inv, TypeOK, IdsAreHandles
<1>5. \A x \in periods' : x.id < nextId'
    BY <1>1, <1>3, <1>4
<1>6. \A x, y \in periods' : x.id = y.id => x = y
    <2> SUFFICES ASSUME NEW x \in periods', NEW y \in periods', x.id = y.id PROVE x = y
        OBVIOUS
    <2>1. CASE x \in new \/ y \in new
        <3>1. x.id = nextId /\ y.id = nextId
            BY <2>1
        <3>2. ASSUME NEW q \in old, q.id = nextId PROVE FALSE
            BY <1>1, <1>4, <3>2
        <3>3. x \in new /\ y \in new
            BY <1>3, <3>1, <3>2
        <3> QED  BY <3>3
    <2>2. CASE x \notin new /\ y \notin new
        <3>1. PICK q \in old : x = f[q] /\ q.id = x.id
            BY <1>3, <2>2
        <3>2. PICK r \in old : y = f[r] /\ r.id = y.id
            BY <1>3, <2>2
        <3>3. q = r
            BY <3>1, <3>2 DEF Inv, IdsAreHandles
        <3> QED  BY <3>1, <3>2, <3>3
    <2> QED  BY <2>1, <2>2
<1>7. \A g \in Editor : \A s \in op'[g].rows :
           /\ s.id < nextId' /\ s.person \in op'[g].person
           /\ \A x \in periods' : x.id = s.id => x.person = s.person
    <2> SUFFICES ASSUME NEW g \in Editor, NEW s \in op'[g].rows
                 PROVE  /\ s.id < nextId' /\ s.person \in op'[g].person
                        /\ \A x \in periods' : x.id = s.id => x.person = s.person
        OBVIOUS
    <2>1. g # e /\ op'[g] = op[g] /\ s \in op[g].rows
        OBVIOUS
    <2>2. /\ s.id < nextId /\ s.person \in op[g].person
          /\ \A q \in periods : q.id = s.id => q.person = s.person
        BY <2>1 DEF Inv, IdsAreHandles
    <2>3. s.id \in Nat
        BY <2>1, OperationFields, PeriodFields DEF Inv, TypeOK
    <2>4. \A x \in periods' : x.id = s.id => x.person = s.person
        BY <1>1, <1>3, <2>2, <2>3
    <2> QED  BY <1>1, <2>1, <2>2, <2>3, <2>4
<1>8. IdsAreHandles'
    BY <1>5, <1>6, <1>7 DEF IdsAreHandles
<1>9. \A g \in Editor : op'[g].person \subseteq op[g].person
    OBVIOUS
<1>10. Subjects'
    <2>1. \A g \in Editor : op'[g].step \in {"idle", "create"} => op'[g].person = {}
        BY DEF Inv, Subjects
    <2>2. \A g \in Editor : \A p, q \in op'[g].person : p = q
        BY <1>9 DEF Inv, Subjects
    <2>3. ASSUME NEW p \in Person, people'[p].state = "unborn"
          PROVE  PeriodsOf(p)' = {} /\ \A g \in Editor : p \notin op'[g].person
        <3>1. PeriodsOf(p) = {} /\ \A g \in Editor : p \notin op[g].person
            BY <2>3 DEF Stays, Inv, Subjects
        <3> QED  BY <1>3, <1>9, <2>3, <3>1 DEF PeriodsOf
    <2> QED  BY <2>1, <2>2, <2>3 DEF Subjects
<1>11. Forms'
    BY DEF Inv, Forms, Filled
<1>12. ASSUME NEW p \in Person, \A q \in PeriodsOf(p) : q \in old /\ f[q] = q, \A x \in new : x.person # p
       PROVE  PeriodsOf(p)' = PeriodsOf(p)
    BY <1>3, <1>12 DEF PeriodsOf
<1> QED  BY <1>2, <1>8, <1>10, <1>11, <1>12


LEMMA WriteInv ==
    ASSUME Inv, NEW e \in Editor, NEW f, NEW old, NEW new, Writes(f, old, new), Advances(e),
           \A p \in Person \ Excepted :
               \/ /\ p \notin op[e].person /\ \A x \in new : x.person # p
                  /\ \A q \in PeriodsOf(p) : q \in old /\ f[q] = q
               \/ Tidy(p)' /\ (p \in op[e].person \/ \A g \in Editor : p \notin op[g].person)
    PROVE  Inv'
<1>1. (TypeOK /\ IdsAreHandles /\ Subjects /\ Forms)'
    BY WriteShape
<1>2. ASSUME NEW p \in Person \ Excepted PROVE Undisturbed(p)'
    <2>1. Undisturbed(p) /\ \A g \in Editor : op'[g].person \subseteq op[g].person
        BY <1>2 DEF Inv, Careers, Advances
    <2>2. CASE /\ p \notin op[e].person /\ \A x \in new : x.person # p
               /\ \A q \in PeriodsOf(p) : q \in old /\ f[q] = q
        <3>1. PeriodsOf(p)' = PeriodsOf(p)
            BY <2>2, WriteShape
        <3> QED  BY <2>1, <2>2, <3>1, LeftAlone DEF Advances
    <2>3. CASE Tidy(p)' /\ (p \in op[e].person \/ \A g \in Editor : p \notin op[g].person)
        <3>1. \A g \in Editor : p \in op'[g].person => g = e
            BY <2>1, <2>3 DEF Undisturbed, OneAtWork
        <3>2. Holds(op[e], p)'
            BY DEF Holds, Advances
        <3> QED  BY <2>3, <3>1, <3>2 DEF Undisturbed, OneAtWork
    <2> QED  BY <1>2, <2>2, <2>3
<1>3. Careers'
    BY <1>2 DEF Careers, Advances
<1> QED  BY <1>1, <1>3 DEF Inv

\* A request ends and writes nothing but, at most, a person's own columns.
LEMMA FinishInv ==
    ASSUME Inv, NEW e \in Editor, Finish(e), UNCHANGED <<now, periods, nextId, raced, sameDay>>,
           people' \in [Person -> PersonRow], Stays,
           cut' \subseteq Person, spent' \in Nat, faults' \in Nat
    PROVE  Inv'
<1> DEFINE f == [q \in periods |-> q]
<1>1. Writes(f, periods, {})
    BY DEF Writes, Inv, TypeOK
<1>2. Advances(e)
    BY Finished, IdleIsOperation DEF Advances, Inv, Filled
<1>4. ASSUME NEW p \in Person \ Excepted
      PROVE  \/ /\ p \notin op[e].person /\ \A x \in {} : x.person # p
                /\ \A q \in PeriodsOf(p) : q \in periods /\ f[q] = q
             \/ Tidy(p)' /\ (p \in op[e].person \/ \A g \in Editor : p \notin op[g].person)
    <2>1. Tidy(p)'
        BY <1>4 DEF Inv, Careers, Undisturbed, Tidy, PeriodsOf, Overlap
    <2>2. \A q \in PeriodsOf(p) : q \in periods /\ f[q] = q
        BY DEF PeriodsOf
    <2> QED  BY <2>1, <2>2
<1> HIDE DEF f
<1> QED  BY <1>1, <1>2, <1>4, WriteInv


LEMMA TickInv == ASSUME Inv, Tick PROVE Inv'
<1>1. now' \in Instant
    BY DaysAssumption DEF Tick, Inv, TypeOK, Instant
<1>2. TypeOK'
    BY <1>1 DEF Tick, Inv, TypeOK
<1>3. \A p \in Person : PeriodsOf(p)' = PeriodsOf(p)
    BY DEF Tick, PeriodsOf
<1>4. (IdsAreHandles /\ Subjects /\ Forms)'
    BY <1>3 DEF Tick, Inv, IdsAreHandles, Subjects, Forms, Filled
<1>5. Careers'
    BY <1>3, LeftAlone DEF Tick, Inv, Careers
<1> QED  BY <1>2, <1>4, <1>5 DEF Inv

LEMMA AbandonInv == ASSUME Inv, NEW e \in Editor, Abandon(e) PROVE Inv'
<1>1. op[e].person \subseteq Person
    BY OperationFields DEF Inv, TypeOK
<1> QED  BY <1>1, FinishInv DEF Abandon, Inv, TypeOK, Stays

LEMMA CreateCheckInv == ASSUME Inv, NEW e \in Editor, CreateCheck(e) PROVE Inv'
<1>1. PICK j \in Job, a \in Address, t \in Instant :
          /\ UNCHANGED <<now, people, periods, nextId, cut, sameDay, faults>>
          /\ Begin(e, [Idle EXCEPT !.step = "create", !.job = j, !.email = a, !.at = t])
    BY DEF CreateCheck
<1> DEFINE o == [Idle EXCEPT !.step = "create", !.job = j, !.email = a, !.at = t]
<1>2. o \in Operation
    BY IdleIsOperation DEF Operation, Steps
<1>3. o.step = "create" /\ o.person = {} /\ o.rows = {} /\ o.at = t /\ o.job = j
    BY DEF Idle
<1>4. Begin(e, o)
    BY <1>1
<1> HIDE DEF o
<1>5. Filled(o)
    BY <1>3 DEF Filled
<1> QED  BY <1>1, <1>2, <1>3, <1>4, <1>5, BeginInv

LEMMA CorrectCheckInv == ASSUME Inv, NEW e \in Editor, CorrectCheck(e) PROVE Inv'
<1>1. PICK p \in Person, a \in Address, j \in Job \cup {NoJob} :
          /\ Here(p) /\ UNCHANGED <<now, people, periods, nextId, cut, sameDay, faults>>
          /\ Begin(e, [Idle EXCEPT !.step = "correct", !.person = {p}, !.job = j,
                                   !.email = a, !.at = now])
    BY DEF CorrectCheck
<1> DEFINE o == [Idle EXCEPT !.step = "correct", !.person = {p}, !.job = j,
                             !.email = a, !.at = now]
<1>2. o \in Operation
    BY IdleIsOperation, Singles DEF Operation, Steps, Alone, Inv, TypeOK
<1>3. o.step = "correct" /\ o.person = {p} /\ o.rows = {}
    BY DEF Idle
<1>4. Begin(e, o)
    BY <1>1
<1> HIDE DEF o
<1>5. Filled(o) /\ Holds(o, p)
    BY <1>3 DEF Filled, Holds
<1>6. \A x \in o.person : x = p /\ people[x].state # "unborn"
    BY <1>1, <1>3 DEF Here
<1> QED  BY <1>1, <1>2, <1>3, <1>4, <1>5, <1>6, BeginInv

LEMMA ChangeCheckInv == ASSUME Inv, NEW e \in Editor, ChangeCheck(e) PROVE Inv'
<1>1. PICK p \in Person, j \in Job, a \in Address, t \in Instant :
          /\ Here(p) /\ UNCHANGED <<now, people, periods, nextId, cut, sameDay, faults>>
          /\ Begin(e, [Idle EXCEPT !.step = "change", !.person = {p}, !.job = j,
                                   !.email = a, !.at = t])
    BY DEF ChangeCheck
<1> DEFINE o == [Idle EXCEPT !.step = "change", !.person = {p}, !.job = j,
                             !.email = a, !.at = t]
<1>2. o \in Operation
    BY IdleIsOperation, Singles DEF Operation, Steps, Alone
<1>3. o.step = "change" /\ o.person = {p} /\ o.rows = {} /\ o.at = t /\ o.job = j
    BY DEF Idle
<1>4. Begin(e, o)
    BY <1>1
<1> HIDE DEF o
<1>5. Filled(o) /\ Holds(o, p)
    BY <1>3 DEF Filled, Holds
<1>6. \A x \in o.person : x = p /\ people[x].state # "unborn"
    BY <1>1, <1>3 DEF Here
<1> QED  BY <1>1, <1>2, <1>3, <1>4, <1>5, <1>6, BeginInv

LEMMA CancelReadInv == ASSUME Inv, NEW e \in Editor, CancelRead(e) PROVE Inv'
<1>1. PICK q \in periods :
          /\ UNCHANGED <<now, people, periods, nextId, cut, sameDay, faults>>
          /\ Begin(e, [Idle EXCEPT !.step = "cancel", !.person = {q.person}, !.rows = {q}])
    BY DEF CancelRead
<1> DEFINE o == [Idle EXCEPT !.step = "cancel", !.person = {q.person}, !.rows = {q}]
           p == q.person
<1>2. q \in Period /\ p \in Person /\ q \in PeriodsOf(p)
    BY PeriodFields DEF Inv, TypeOK, PeriodsOf
<1>3. o \in Operation
    BY <1>2, IdleIsOperation, Singles DEF Operation, Steps, Alone
<1>4. o.step = "cancel" /\ o.person = {p} /\ o.rows = {q}
    BY DEF Idle
<1>5. Begin(e, o)
    BY <1>1
<1>6. people[p].state # "unborn"
    BY <1>2 DEF Inv, Subjects
<1> HIDE DEF o, p
<1>7. Filled(o) /\ Holds(o, p)
    BY <1>2, <1>4 DEF Filled, Holds
<1>8. \A x \in o.person : x = p
    BY <1>4
<1>9. \A s \in o.rows : s \in periods /\ s.person \in o.person
    BY <1>2, <1>4 DEF PeriodsOf
<1> QED  BY <1>1, <1>3, <1>4, <1>5, <1>6, <1>7, <1>8, <1>9, BeginInv

LEMMA PostReadInv == ASSUME Inv, NEW e \in Editor, PostRead(e) PROVE Inv'
<1>1. PICK p \in Person, j \in Job, a \in Address \cup {NoAddress},
           s \in Instant, t \in Instant \cup {Forever} :
          /\ Here(p) /\ t > s /\ UNCHANGED <<now, people, periods, nextId, cut, sameDay, faults>>
          /\ \A q \in PeriodsOf(p) : ~Overlap(q, [start |-> s, end |-> t])
          /\ Begin(e, [Idle EXCEPT !.step = "post", !.person = {p}, !.job = j,
                                   !.email = a, !.at = s, !.end = t])
    BY DEF PostRead
<1> DEFINE o == [Idle EXCEPT !.step = "post", !.person = {p}, !.job = j,
                             !.email = a, !.at = s, !.end = t]
<1>2. o \in Operation
    BY IdleIsOperation, Singles DEF Operation, Steps, Alone
<1>3. o.step = "post" /\ o.person = {p} /\ o.rows = {} /\ o.at = s /\ o.end = t /\ o.job = j
    BY DEF Idle
<1>4. Begin(e, o)
    BY <1>1
<1> HIDE DEF o
<1>6. s < t
    BY <1>1, ForeverIsLast
<1>7. Filled(o)
    BY <1>3, <1>6 DEF Filled
<1>8. Holds(o, p)
    BY <1>1, <1>3 DEF Holds
<1>9. \A x \in o.person : x = p /\ people[x].state # "unborn"
    BY <1>1, <1>3 DEF Here
<1> QED  BY <1>1, <1>2, <1>3, <1>4, <1>7, <1>8, <1>9, BeginInv

LEMMA MoveReadInv == ASSUME Inv, NEW e \in Editor, MoveRead(e) PROVE Inv'
<1>1. PICK p \in op[e].person :
          /\ op' = [op EXCEPT ![e].step = "read", ![e].rows = CoveringOf(p, op[e].at),
                              ![e].end = NextStart(p, op[e].at)]
          /\ sameDay' = IF Sharp(p, op[e].at) THEN sameDay ELSE sameDay \cup {p}
    BY DEF MoveRead
<1>2. /\ op[e].step = "change"
      /\ UNCHANGED <<now, people, periods, nextId, raced, cut, spent, faults>>
    BY DEF MoveRead
<1>3. op[e] \in Operation /\ p \in Person
    BY OperationFields DEF Inv, TypeOK
<1>4. \A q \in PeriodsOf(p) : q \in Period /\ q.start \in Instant
    BY PeriodFields DEF PeriodsOf, Inv, TypeOK
<1>5. NextStart(p, op[e].at) \in Instant \cup {Forever}
    BY <1>4, NextStartFound
<1>6. CoveringOf(p, op[e].at) \subseteq PeriodsOf(p) /\ PeriodsOf(p) \subseteq periods
    BY DEF CoveringOf, PeriodsOf
<1>7. PICK o \in Operation :
          /\ o = op'[e] /\ o.step = "read" /\ o.person = op[e].person /\ o.at = op[e].at /\ o.job = op[e].job
          /\ o.rows = CoveringOf(p, o.at) /\ o.end = NextStart(p, o.at)
    <2> DEFINE n == [op[e] EXCEPT !.step = "read", !.rows = CoveringOf(p, op[e].at),
                                  !.end = NextStart(p, op[e].at)]
    <2>1. op'[e] = n
        BY <1>1 DEF Inv, TypeOK
    <2>2. n \in Operation
        BY <1>3, <1>4, <1>5, <1>6 DEF Operation, Steps
    <2>3. /\ n.step = "read" /\ n.person = op[e].person /\ n.at = op[e].at /\ n.job = op[e].job
          /\ n.rows = CoveringOf(p, op[e].at) /\ n.end = NextStart(p, op[e].at)
        BY <1>3 DEF Operation
    <2> HIDE DEF n
    <2> QED  BY <2>1, <2>2, <2>3
<1>14. op' \in [Editor -> Operation] /\ \A f \in Editor \ {e} : op'[f] = op[f]
    BY <1>1, <1>7 DEF Inv, TypeOK
<1>8. TypeOK'
    BY <1>1, <1>2, <1>3, <1>14 DEF Inv, TypeOK
<1>9. IdsAreHandles'
    <2> SUFFICES ASSUME NEW f \in Editor, NEW s \in op'[f].rows
                 PROVE  /\ s.id < nextId /\ s.person \in op'[f].person
                        /\ \A q \in periods : q.id = s.id => q.person = s.person
        BY <1>2 DEF Inv, IdsAreHandles
    <2>1. CASE f = e
        <3>1. s \in PeriodsOf(p)
            BY <1>6, <1>7, <1>14, <2>1
        <3> QED  BY <1>6, <1>7, <1>14, <2>1, <3>1 DEF Inv, IdsAreHandles, PeriodsOf
    <2>2. CASE f # e
        BY <1>7, <1>14, <2>2 DEF Inv, IdsAreHandles
    <2> QED  BY <2>1, <2>2
<1>10. \A f \in Editor : op'[f].person = op[f].person
    BY <1>7, <1>14
<1>11. Subjects'
    <2>1. \A x \in Person : PeriodsOf(x)' = PeriodsOf(x)
        BY <1>2 DEF PeriodsOf
    <2>2. \A f \in Editor : op'[f].step \in {"idle", "create"} => op'[f].person = {}
        BY <1>7, <1>14, <1>10 DEF Inv, Subjects
    <2>3. \A f \in Editor : \A x, y \in op'[f].person : x = y
        BY <1>10 DEF Inv, Subjects
    <2> QED  BY <1>2, <1>10, <2>1, <2>2, <2>3 DEF Inv, Subjects
<1>12. Forms'
    BY <1>2, <1>7, <1>14 DEF Inv, Forms, Filled
<1>13. Careers'
    <2> SUFFICES ASSUME NEW x \in Person \ Excepted' PROVE Undisturbed(x)'
        BY DEF Careers
    <2>1. Undisturbed(x) /\ PeriodsOf(x)' = PeriodsOf(x)
        BY <1>1, <1>2 DEF Inv, Careers, PeriodsOf
    <2>2. CASE x # p
        <3>1. x \notin op'[e].person
            BY <1>10, <2>2 DEF Inv, Subjects
        <3> QED  BY <1>7, <1>14, <2>1, <3>1, LeftAlone
    <2>3. CASE x = p
        <3>1. Tidy(p)'
            BY <2>1, <2>3 DEF Undisturbed, Tidy, Overlap
        <3>2. OneAtWork(p)'
            BY <1>10, <2>1, <2>3 DEF Undisturbed, OneAtWork
        <3>3. \A f \in Editor : p \in op'[f].person => f = e
            BY <1>10, <2>1, <2>3 DEF Undisturbed, OneAtWork
        <3>4. Holds(o, p)'
            <4>1. CoveringOf(p, o.at)' = CoveringOf(p, o.at) /\ NextStart(p, o.at)' = NextStart(p, o.at)
                BY <1>7, <1>14, <2>1, <2>3 DEF CoveringOf, Covers, NextStart
            <4>2. Sharp(p, o.at)
                BY <1>1, <1>7, <2>3
            <4>3. Sharp(p, o.at)'
                BY <2>1, <2>3, <4>2 DEF Sharp
            <4> QED  BY <1>7, <1>14, <4>1, <4>3 DEF Holds
        <3>5. \A f \in Editor : p \in op'[f].person => Holds(op[f], p)'
            BY <1>7, <3>3, <3>4
        <3> QED  BY <2>3, <3>1, <3>2, <3>5 DEF Undisturbed
    <2> QED  BY <2>2, <2>3
<1> QED  BY <1>8, <1>9, <1>11, <1>12, <1>13 DEF Inv

\* A period that overlaps none of a tidy career fits in.
LEMMA Inserted ==
    ASSUME NEW p, Tidy(p), NEW x, PeriodsOf(p)' = PeriodsOf(p) \cup {x},
           x.start < x.end,
           \A q \in PeriodsOf(p) : ~Overlap(q, x)
    PROVE  Tidy(p)'
BY DEF Tidy, Overlap

\* An insert, into the career of somebody on whom nobody else is at work.
LEMMA InsertInv ==
    ASSUME Inv, NEW e \in Editor, NEW x \in Period, Finish(e),
           periods' = periods \cup {x}, nextId' = nextId + 1, x.id = nextId,
           UNCHANGED <<now, raced, cut, sameDay, spent, faults>>,
           people' \in [Person -> PersonRow], Stays, people'[x.person].state # "unborn",
           op[e].person \subseteq {x.person},
           x.person \in op[e].person \/ \A g \in Editor : x.person \notin op[g].person,
           x.start < x.end,
           x.person \notin Excepted => \A q \in PeriodsOf(x.person) : ~Overlap(q, x)
    PROVE  Inv'
<1> DEFINE f == [q \in periods |-> q]
<1>1. Writes(f, periods, {x})
    BY DEF Writes, Inv, TypeOK
<1>2. Advances(e)
    BY Finished, IdleIsOperation DEF Advances, Inv, TypeOK, Filled
<1>3. ASSUME NEW p \in Person \ Excepted
      PROVE  \/ /\ p \notin op[e].person /\ \A y \in {x} : y.person # p
                /\ \A q \in PeriodsOf(p) : q \in periods /\ f[q] = q
             \/ Tidy(p)' /\ (p \in op[e].person \/ \A g \in Editor : p \notin op[g].person)
    <2>1. CASE p # x.person
        BY <2>1 DEF PeriodsOf
    <2>2. CASE p = x.person
        <3>1. PeriodsOf(p)' = PeriodsOf(p) \cup {x}
            BY <2>2 DEF PeriodsOf
        <3>2. Tidy(p)
            BY <1>3 DEF Inv, Careers, Undisturbed
        <3>3. Tidy(p)'
            BY <1>3, <2>2, <3>1, <3>2, Inserted
        <3> QED  BY <2>2, <3>3
    <2> QED  BY <2>1, <2>2
<1> HIDE DEF f
<1> QED  BY <1>1, <1>2, <1>3, WriteInv

LEMMA CreateWriteInv == ASSUME Inv, NEW e \in Editor, CreateWrite(e) PROVE Inv'
<1> DEFINE o == op[e]
<1>1. PICK p \in Person, via \in {"app", "early"} :
          /\ people[p].state = "unborn"
          /\ \/ /\ periods' = periods \cup {Period0(p, o.job, o.at, Forever, o.email, via)}
                /\ nextId' = nextId + 1
                /\ people' = [people EXCEPT ![p] = [state |-> "here", email |-> o.email, current |-> o.job]]
             \/ UNCHANGED <<periods, nextId, people>>
    BY DEF CreateWrite
<1>2. o.step = "create" /\ Finish(e) /\ UNCHANGED <<now, raced, cut, sameDay, spent, faults>>
    BY DEF CreateWrite
<1>3. CASE UNCHANGED <<periods, nextId, people>>
    BY <1>2, <1>3, FinishInv DEF Inv, TypeOK, Stays
<1>4. CASE nextId' = nextId + 1
    <2>1. o \in Operation
        BY DEF Inv, TypeOK
    <2> DEFINE x == Period0(p, o.job, o.at, Forever, o.email, via)
    <2>2. x \in Period /\ x.id = nextId /\ x.person = p /\ x.start = o.at /\ x.end = Forever
        BY <1>2, <2>1 DEF Period0, Period, Operation, Inv, TypeOK, Forms, Filled
    <2>3. x.start < x.end
        BY <1>2, <2>1, <2>2, ForeverIsLast, OperationFields DEF Inv, Forms, Filled
    <2>4. /\ periods' = periods \cup {x} /\ nextId' = nextId + 1
          /\ people' = [people EXCEPT ![p] = [state |-> "here", email |-> o.email, current |-> o.job]]
        BY <1>1, <1>4 DEF Inv, TypeOK
    <2>5. people' \in [Person -> PersonRow] /\ Stays /\ people'[p].state # "unborn"
        BY <1>2, <2>1, <2>4 DEF Inv, TypeOK, Operation, PersonRow, Stays
    <2>6. PeriodsOf(p) = {} /\ (\A g \in Editor : p \notin op[g].person) /\ o.person = {}
        BY <1>1, <1>2 DEF Inv, Subjects
    <2> HIDE DEF x
    <2> QED  BY <1>2, <2>2, <2>3, <2>4, <2>5, <2>6, InsertInv
<1> QED  BY <1>1, <1>3, <1>4

LEMMA PostWriteInv == ASSUME Inv, NEW e \in Editor, PostWrite(e) PROVE Inv'
<1> DEFINE o == op[e]
<1>1. PICK p \in o.person :
          \/ /\ periods' = periods \cup {Period0(p, o.job, o.at, o.end, o.email, "api")}
             /\ nextId' = nextId + 1 /\ Here(p)
          \/ UNCHANGED <<periods, nextId>>
    BY DEF PostWrite
<1>2. o.step = "post" /\ Finish(e) /\ UNCHANGED <<now, people, raced, cut, sameDay, spent, faults>>
    BY DEF PostWrite
<1>3. CASE UNCHANGED <<periods, nextId>>
    BY <1>2, <1>3, FinishInv DEF Inv, TypeOK, Stays
<1>4. CASE nextId' = nextId + 1
    <2>1. o \in Operation /\ p \in Person
        BY OperationFields DEF Inv, TypeOK
    <2> DEFINE x == Period0(p, o.job, o.at, o.end, o.email, "api")
    <2>2. x \in Period /\ x.id = nextId /\ x.person = p /\ x.start = o.at /\ x.end = o.end
        BY <1>2, <2>1 DEF Period0, Period, Operation, Inv, TypeOK, Forms, Filled
    <2>3. x.start < x.end
        BY <1>2, <2>2 DEF Inv, Forms, Filled
    <2>4. periods' = periods \cup {x} /\ nextId' = nextId + 1 /\ Here(p)
        BY <1>1, <1>4 DEF Inv, TypeOK
    <2>5. people' \in [Person -> PersonRow] /\ Stays /\ people'[p].state # "unborn"
        BY <1>2, <2>4 DEF Inv, TypeOK, Stays, Here
    <2>6. o.person \subseteq {p}
        BY DEF Inv, Subjects
    <2>7. p \notin Excepted => \A q \in PeriodsOf(p) : ~Overlap(q, x)
        BY <1>2, <2>1, <2>2 DEF Inv, Careers, Undisturbed, Holds, Overlap
    <2> HIDE DEF x
    <2> QED  BY <1>2, <2>2, <2>3, <2>4, <2>5, <2>6, <2>7, InsertInv
<1> QED  BY <1>1, <1>3, <1>4

\* Periods go: all of somebody's, at the start of a deletion, or one of somebody
\* on whom, but for a race, nobody is at work.
LEMMA RemoveInv ==
    ASSUME Inv, NEW e \in Editor, NEW o \in Operation,
           op' \in [Editor -> Operation], op'[e] = o, \A f \in Editor \ {e} : op'[f] = op[f],
           o.step \in {"idle", "delete"}, o.step = "idle" => o.person = {}, o.rows = {},
           \A p, q \in o.person : p = q, \A p \in o.person : people[p].state # "unborn",
           periods' \subseteq periods, UNCHANGED <<now, people, nextId, cut, sameDay, faults>>, spent' \in Nat,
           raced \subseteq raced', raced' \subseteq Person \cup Address,
           \A p \in Person \ Excepted' :
               \/ p \notin o.person /\ PeriodsOf(p)' = PeriodsOf(p)
               \/ \A f \in Editor \ {e} : p \notin op[f].person
    PROVE  Inv'
<1>1. TypeOK'
    BY DEF Inv, TypeOK
<1>2. IdsAreHandles'
    BY DEF Inv, IdsAreHandles
<1>3. Subjects'
    <2>1. \A p \in Person : PeriodsOf(p)' \subseteq PeriodsOf(p)
        BY DEF PeriodsOf
    <2>2. \A f \in Editor : op'[f].step \in {"idle", "create"} => op'[f].person = {}
        BY DEF Inv, Subjects
    <2>3. \A f \in Editor : \A p, q \in op'[f].person : p = q
        BY DEF Inv, Subjects
    <2>4. \A p \in Person : people[p].state = "unborn" => \A f \in Editor : p \notin op'[f].person
        BY DEF Inv, Subjects
    <2> QED  BY <2>1, <2>2, <2>3, <2>4 DEF Inv, Subjects
<1>4. Forms'
    BY DEF Inv, Forms, Filled
<1>5. Careers'
    <2> SUFFICES ASSUME NEW p \in Person \ Excepted' PROVE Undisturbed(p)'
        BY DEF Careers
    <2>1. Undisturbed(p)
        BY DEF Inv, Careers
    <2>2. CASE p \notin o.person /\ PeriodsOf(p)' = PeriodsOf(p)
        BY <2>1, <2>2, LeftAlone
    <2>3. CASE \A f \in Editor \ {e} : p \notin op[f].person
        <3>1. Tidy(p)'
            BY <2>1 DEF Undisturbed, Tidy, PeriodsOf, Overlap
        <3>2. \A f \in Editor : p \in op'[f].person => f = e
            BY <2>3
        <3>3. Holds(o, p)'
            BY DEF Holds
        <3> QED  BY <3>1, <3>2, <3>3 DEF Undisturbed, OneAtWork
    <2> QED  BY <2>2, <2>3
<1> QED  BY <1>1, <1>2, <1>3, <1>4, <1>5 DEF Inv

LEMMA DeletePeriodInv == ASSUME Inv, NEW e \in Editor, DeletePeriod(e) PROVE Inv'
<1>1. PICK q \in periods :
          /\ op[e].step = "idle" /\ spent' = spent + 1
          /\ periods' = periods \ {q}
          /\ raced' = raced \cup Contended(e, {q.person}, {})
          /\ UNCHANGED <<now, people, nextId, op, cut, sameDay, faults>>
    BY DEF DeletePeriod
<1> DEFINE C == Contended(e, {q.person}, {})
<1>2. q.person \in Person
    BY PeriodFields DEF Inv, TypeOK
<1>3. C \subseteq {q.person}
    BY DEF Contended
<1>4. ASSUME q.person \notin C, NEW f \in Editor \ {e} PROVE q.person \notin op[f].person
    <2>1. op[f].step = "idle" => op[f].person = {}
        BY DEF Inv, Subjects
    <2> QED  BY <1>4, <2>1 DEF Contended
<1> HIDE DEF C
<1>5. op[e].person = {} /\ op[e].rows = {} /\ op[e] \in Operation
    BY <1>1 DEF Inv, TypeOK, Subjects, IdsAreHandles
<1>6. ASSUME NEW p \in Person \ Excepted'
      PROVE  \/ p \notin op[e].person /\ PeriodsOf(p)' = PeriodsOf(p)
             \/ \A f \in Editor \ {e} : p \notin op[f].person
    <2>1. CASE p = q.person
        BY <1>1, <1>4, <2>1 DEF C
    <2>2. CASE p # q.person
        BY <1>1, <1>5, <2>2 DEF PeriodsOf
    <2> QED  BY <2>1, <2>2
<1>7. op' = op /\ op' \in [Editor -> Operation] /\ spent' \in Nat
    BY <1>1 DEF Inv, TypeOK
<1>8. raced \subseteq raced' /\ raced' \subseteq Person \cup Address
    BY <1>1, <1>2, <1>3 DEF C, Inv, TypeOK
<1> QED  BY <1>1, <1>5, <1>6, <1>7, <1>8, RemoveInv

LEMMA DeletePersonPeriodsInv == ASSUME Inv, NEW e \in Editor, DeletePersonPeriods(e) PROVE Inv'
<1>1. PICK p \in Person :
          /\ Here(p) /\ periods' = periods \ PeriodsOf(p)
          /\ UNCHANGED <<now, people, nextId, cut, sameDay, faults>>
          /\ Begin(e, [Idle EXCEPT !.step = "delete", !.person = {p}])
    BY DEF DeletePersonPeriods
<1> DEFINE o == [Idle EXCEPT !.step = "delete", !.person = {p}]
<1>2. o \in Operation
    BY IdleIsOperation, Singles DEF Operation, Steps, Alone
<1>3. o.step = "delete" /\ o.person = {p} /\ o.rows = {}
    BY DEF Idle
<1>4. Begin(e, o)
    BY <1>1
<1> HIDE DEF o
<1>5. /\ op' \in [Editor -> Operation] /\ op'[e] = o
      /\ \A f \in Editor \ {e} : op'[f] = op[f]
      /\ raced' \subseteq Person \cup Address /\ raced \subseteq raced' /\ spent' \in Nat
      /\ \A x \in o.person \ raced' : \A f \in Editor \ {e} : x \notin op[f].person
    BY <1>2, <1>4, Begun DEF Inv
<1>6. \A x \in Person : x # p => PeriodsOf(x)' = PeriodsOf(x)
    BY <1>1 DEF PeriodsOf
<1>7. \A x \in o.person : x = p /\ people[x].state # "unborn"
    BY <1>1, <1>3 DEF Here
<1>8. ASSUME NEW x \in Person \ Excepted'
      PROVE  \/ x \notin o.person /\ PeriodsOf(x)' = PeriodsOf(x)
             \/ \A f \in Editor \ {e} : x \notin op[f].person
    BY <1>3, <1>5, <1>6
<1> QED  BY <1>1, <1>2, <1>3, <1>5, <1>7, <1>8, RemoveInv

LEMMA DeletePersonRowInv == ASSUME Inv, NEW e \in Editor, DeletePersonRow(e) PROVE Inv'
<1>1. PICK p \in op[e].person :
          people' = IF PeriodsOf(p) = {} THEN [people EXCEPT ![p].state = "gone"] ELSE people
    BY DEF DeletePersonRow
<1>2. people' \in [Person -> PersonRow] /\ Stays
    BY <1>1 DEF Inv, TypeOK, PersonRow, Stays
<1> QED  BY <1>2, FinishInv DEF DeletePersonRow, Inv, TypeOK

LEMMA ChangeFollowInv == ASSUME Inv, NEW e \in Editor, ChangeFollow(e) PROVE Inv'
<1>1. PICK p \in op[e].person :
          \/ people' = [people EXCEPT ![p].email = op[e].email, ![p].current = op[e].job]
          \/ people' = people
    BY DEF ChangeFollow
<1>2. op[e] \in Operation
    BY DEF Inv, TypeOK
<1>3. people' \in [Person -> PersonRow] /\ Stays
    BY <1>1, <1>2, OperationFields DEF Inv, TypeOK, PersonRow, Stays
<1> QED  BY <1>3, FinishInv DEF ChangeFollow, Inv, TypeOK


LEMMA CorrectWriteInv == ASSUME Inv, NEW e \in Editor, CorrectWrite(e) PROVE Inv'
<1> DEFINE o == op[e]
           row(q, a, j) == [q EXCEPT !.email = a, !.job = IF j = NoJob THEN q.job ELSE j]
<1>1. PICK p \in o.person :
          \/ /\ periods' = (periods \ CoveringOf(p, o.at))
                               \cup {row(q, o.email, o.job) : q \in CoveringOf(p, o.at)}
             /\ people' = [people EXCEPT ![p].email = o.email,
                                         ![p].current = IF o.job = NoJob THEN @ ELSE o.job]
          \/ UNCHANGED <<periods, people>>
    BY DEF CorrectWrite
<1>2. o.step = "correct" /\ Finish(e) /\ UNCHANGED <<now, nextId, raced, cut, sameDay, spent, faults>>
    BY DEF CorrectWrite
<1>3. CASE UNCHANGED <<periods, people>>
    BY <1>2, <1>3, FinishInv DEF Inv, TypeOK, Stays
<1>4. CASE /\ periods' = (periods \ CoveringOf(p, o.at))
                             \cup {row(q, o.email, o.job) : q \in CoveringOf(p, o.at)}
           /\ people' = [people EXCEPT ![p].email = o.email,
                                       ![p].current = IF o.job = NoJob THEN @ ELSE o.job]
    <2>1. o \in Operation /\ p \in Person /\ periods \subseteq Period
        BY OperationFields DEF Inv, TypeOK
    <2> DEFINE f == [q \in periods |-> IF q \in CoveringOf(p, o.at) THEN row(q, o.email, o.job) ELSE q]
    <2>2. CoveringOf(p, o.at) \subseteq PeriodsOf(p) /\ PeriodsOf(p) \subseteq periods
        BY DEF CoveringOf, PeriodsOf
    <2>3. \A q \in periods : row(q, o.email, o.job) \in Period /\ row(q, o.email, o.job).id = q.id
                             /\ row(q, o.email, o.job).person = q.person
                             /\ row(q, o.email, o.job).start = q.start
                             /\ row(q, o.email, o.job).end = q.end
        BY <2>1 DEF Period, Operation
    <2> HIDE DEF row
    <2>4. periods' = {f[q] : q \in periods} \cup {}
        BY <1>4, <2>2
    <2>5. \A q \in periods : f[q] \in Period /\ f[q].id = q.id /\ f[q].person = q.person
                             /\ f[q].start = q.start /\ f[q].end = q.end
        BY <2>1, <2>3
    <2>6. \A q \in periods : q.person # p => f[q] = q
        BY <2>2 DEF PeriodsOf
    <2> HIDE DEF f
    <2>7. Writes(f, periods, {})
        BY <1>2, <2>4, <2>5 DEF Writes
    <2>8. people' \in [Person -> PersonRow] /\ Stays
        <3> DEFINE j == IF o.job = NoJob THEN people[p].current ELSE o.job
        <3>1. j \in Job \cup {NoJob} /\ people \in [Person -> PersonRow] /\ people[p].current \in Job \cup {NoJob}
            BY <2>1 DEF Operation, Inv, TypeOK, PersonRow
        <3>2. people' = [people EXCEPT ![p].email = o.email, ![p].current = j]
            BY <1>4, <2>1, <3>1
        <3> HIDE DEF j
        <3>3. [people[p] EXCEPT !.email = o.email, !.current = j] \in PersonRow
            BY <2>1, <3>1, OperationFields DEF PersonRow
        <3>4. people' = [people EXCEPT ![p] = [people[p] EXCEPT !.email = o.email, !.current = j]]
            BY <2>1, <3>1, <3>2
        <3>5. [people[p] EXCEPT !.email = o.email, !.current = j].state = people[p].state
            BY <2>1, <3>1 DEF PersonRow
        <3> QED  BY <2>1, <3>1, <3>3, <3>4, <3>5 DEF Stays
    <2>9. Advances(e)
        BY <1>2, <2>8, Finished, IdleIsOperation DEF Advances, Inv, TypeOK, Filled
    <2>10. ASSUME NEW x \in Person \ Excepted
           PROVE  \/ /\ x \notin o.person /\ \A y \in {} : y.person # x
                     /\ \A q \in PeriodsOf(x) : q \in periods /\ f[q] = q
                  \/ Tidy(x)' /\ (x \in o.person \/ \A g \in Editor : x \notin op[g].person)
        <3>1. CASE x # p
            <4>1. x \notin o.person
                BY <3>1 DEF Inv, Subjects
            <4> QED  BY <2>6, <3>1, <4>1 DEF PeriodsOf
        <3>2. CASE x = p
            <4>1. Tidy(x)
                BY <2>10 DEF Inv, Careers, Undisturbed
            <4>2. \A y \in PeriodsOf(x)' : \E q \in PeriodsOf(x) : y = f[q]
                BY <2>4, <2>5 DEF PeriodsOf
            <4>3. PeriodsOf(x) \subseteq periods
                BY DEF PeriodsOf
            <4>4. Tidy(x)'
                <5> SUFFICES ASSUME NEW y \in PeriodsOf(x)', NEW z \in PeriodsOf(x)'
                             PROVE  /\ y.start < y.end
                                    /\ y # z => ~Overlap(y, z)
                    BY DEF Tidy, Overlap
                <5>1. PICK q \in PeriodsOf(x) : y = f[q]
                    BY <4>2
                <5>2. PICK r \in PeriodsOf(x) : z = f[r]
                    BY <4>2
                <5>3. y.start = q.start /\ y.end = q.end /\ z.start = r.start /\ z.end = r.end
                    BY <2>5, <4>3, <5>1, <5>2
                <5> QED  BY <4>1, <5>1, <5>2, <5>3 DEF Tidy, Overlap
            <4> QED  BY <3>2, <4>4
        <3> QED  BY <3>1, <3>2
    <2> QED  BY <2>7, <2>9, <2>10, WriteInv
<1> QED  BY <1>1, <1>3, <1>4

LEMMA CancelWriteInv == ASSUME Inv, NEW e \in Editor, CancelWrite(e) PROVE Inv'
<1> DEFINE o == op[e]
<1>1. PICK s \in o.rows :
          \/ periods' = Spliced(periods, s)
          \/ periods' = periods
    BY DEF CancelWrite
<1>2. o.step = "cancel" /\ Finish(e) /\ UNCHANGED <<now, people, nextId, raced, cut, sameDay, spent, faults>>
    BY DEF CancelWrite
<1>3. CASE periods' = periods
    BY <1>2, <1>3, FinishInv DEF Inv, TypeOK, Stays
<1>4. CASE periods' = Spliced(periods, s)
    <2>1. s \in Period /\ s.person \in o.person /\ periods \subseteq Period
        BY OperationFields DEF Inv, TypeOK, IdsAreHandles
    <2> DEFINE old == {r \in periods : r.id # s.id}
               f == [q \in old |-> IF q.person = s.person /\ q.end = s.start
                                   THEN [q EXCEPT !.end = s.end] ELSE q]
    <2>2. periods' = {f[q] : q \in old} \cup {}
        BY <1>4 DEF Spliced
    <2>3. \A q \in old : f[q] \in Period /\ f[q].id = q.id /\ f[q].person = q.person
                         /\ f[q].start = q.start
                         /\ f[q].end = IF q.person = s.person /\ q.end = s.start THEN s.end ELSE q.end
        BY <2>1 DEF Period
    <2>4. \A q \in periods : q.person # s.person => q \in old /\ f[q] = q
        BY DEF Inv, IdsAreHandles
    <2>5. old \subseteq periods /\ \A q \in old : q.id # s.id
        OBVIOUS
    <2> HIDE DEF f, old
    <2>6. Writes(f, old, {})
        BY <1>2, <2>2, <2>3, <2>5 DEF Writes
    <2>7. Advances(e)
        BY <1>2, Finished, IdleIsOperation DEF Advances, Inv, TypeOK, Filled, Stays
    <2>8. ASSUME NEW x \in Person \ Excepted
          PROVE  \/ /\ x \notin o.person /\ \A y \in {} : y.person # x
                    /\ \A q \in PeriodsOf(x) : q \in old /\ f[q] = q
                 \/ Tidy(x)' /\ (x \in o.person \/ \A g \in Editor : x \notin op[g].person)
        <3>1. CASE x # s.person
            <4>1. x \notin o.person
                BY <2>1, <3>1 DEF Inv, Subjects
            <4> QED  BY <2>4, <3>1, <4>1 DEF PeriodsOf
        <3>2. CASE x = s.person
            <4>1. Tidy(x) /\ s \in PeriodsOf(x)
                BY <1>2, <2>1, <2>8, <3>2 DEF Inv, Careers, Undisturbed, Holds
            <4>2. \A y \in PeriodsOf(x)' : \E q \in PeriodsOf(x) : q \in old /\ y = f[q]
                BY <2>2, <2>3, <2>5 DEF PeriodsOf
            <4>3. \A q \in PeriodsOf(x) : q.person = s.person /\ q.start \in Nat /\ q.end \in Nat
                BY <2>1, <3>2, PeriodFields DEF PeriodsOf
            <4>4. Tidy(x)'
                <5> SUFFICES ASSUME NEW y \in PeriodsOf(x)', NEW z \in PeriodsOf(x)'
                             PROVE  /\ y.start < y.end
                                    /\ y # z => ~Overlap(y, z)
                    BY DEF Tidy, Overlap
                <5>1. PICK q \in PeriodsOf(x) : q \in old /\ y = f[q]
                    BY <4>2
                <5>2. PICK r \in PeriodsOf(x) : r \in old /\ z = f[r]
                    BY <4>2
                <5>3. /\ y.start = q.start /\ y.end = IF q.end = s.start THEN s.end ELSE q.end
                      /\ z.start = r.start /\ z.end = IF r.end = s.start THEN s.end ELSE r.end
                      /\ q # s /\ r # s /\ (y # z => q # r)
                    BY <2>3, <2>5, <4>3, <5>1, <5>2
                <5>4. /\ q.start < q.end /\ s.start < s.end /\ r.start < r.end
                      /\ ~Overlap(q, s) /\ ~Overlap(r, s) /\ (q # r => ~Overlap(q, r))
                    BY <4>1, <5>3 DEF Tidy
                <5>5. /\ q.start \in Nat /\ q.end \in Nat /\ r.start \in Nat /\ r.end \in Nat
                      /\ s.start \in Nat /\ s.end \in Nat
                    BY <4>1, <4>3
                <5> QED  BY <5>3, <5>4, <5>5 DEF Overlap
            <4> QED  BY <2>1, <3>2, <4>4
        <3> QED  BY <3>1, <3>2
    <2> QED  BY <2>6, <2>7, <2>8, WriteInv
<1> QED  BY <1>1, <1>3, <1>4

-----------------------------------------------------------------------------
(* The write of a move, row by row. *)

IdsOf(rows) == {q.id : q \in rows}
Blank(rows) == IdsOf({r \in rows : r.email = NoAddress /\ Covers(r, now)})
Began(rows, at) == IdsOf({r \in rows : r.start < at})
OnDate(rows, at) == IdsOf({r \in rows : r.start >= at})

Stamp(q, rows, a) ==
    IF q.id \in Blank(rows)
    THEN [q EXCEPT !.email = a] ELSE q

Close(q, rows, at) ==
    IF q.id \in Began(rows, at) THEN [q EXCEPT !.end = at] ELSE q

Kept(rows, at) == {q \in periods : q.id \notin OnDate(rows, at)}

\* A row as a move leaves it.
MovedRow(q, rows, at, a) == Close(Stamp(q, rows, a), rows, at)

LEMMA StampFields ==
    ASSUME NEW q \in Period, NEW rows, NEW a \in Address \cup {NoAddress}
    PROVE  /\ Stamp(q, rows, a) \in Period
           /\ Stamp(q, rows, a).id = q.id /\ Stamp(q, rows, a).person = q.person
           /\ Stamp(q, rows, a).start = q.start /\ Stamp(q, rows, a).via = q.via
           /\ Stamp(q, rows, a).end = q.end
           /\ q.id \in Blank(rows) => Stamp(q, rows, a).email = a
           /\ q.id \notin Blank(rows) => Stamp(q, rows, a).email = q.email
BY DEF Stamp, Period, IdsOf, Blank

LEMMA CloseFields ==
    ASSUME NEW q \in Period, NEW rows, NEW at \in Instant
    PROVE  /\ Close(q, rows, at) \in Period
           /\ Close(q, rows, at).id = q.id /\ Close(q, rows, at).person = q.person
           /\ Close(q, rows, at).start = q.start /\ Close(q, rows, at).via = q.via
           /\ Close(q, rows, at).email = q.email
           /\ q.id \in Began(rows, at) => Close(q, rows, at).end = at
           /\ q.id \notin Began(rows, at) => Close(q, rows, at).end = q.end
BY DEF Close, Period, IdsOf, Began

LEMMA MovedRowKeeps ==
    ASSUME NEW q \in Period, NEW rows, NEW at \in Instant, NEW a \in Address \cup {NoAddress}
    PROVE  /\ MovedRow(q, rows, at, a) \in Period
           /\ MovedRow(q, rows, at, a).id = q.id
           /\ MovedRow(q, rows, at, a).person = q.person
           /\ MovedRow(q, rows, at, a).start = q.start
           /\ MovedRow(q, rows, at, a).via = q.via
BY StampFields, CloseFields DEF MovedRow

LEMMA MovedRowEnd ==
    ASSUME NEW q \in Period, NEW rows, NEW at \in Instant, NEW a \in Address \cup {NoAddress}
    PROVE  /\ q.id \in Began(rows, at) => MovedRow(q, rows, at, a).end = at
           /\ q.id \notin Began(rows, at) => MovedRow(q, rows, at, a).end = q.end
BY StampFields, CloseFields DEF MovedRow

LEMMA MovedRowEmail ==
    ASSUME NEW q \in Period, NEW rows, NEW at \in Instant, NEW a \in Address \cup {NoAddress}
    PROVE  /\ q.id \in Blank(rows) => MovedRow(q, rows, at, a).email = a
           /\ q.id \notin Blank(rows) => MovedRow(q, rows, at, a).email = q.email
BY StampFields, CloseFields DEF MovedRow

LEMMA NotMoved ==
    ASSUME NEW q, NEW rows, NEW at, NEW a, q.id \notin IdsOf(rows)
    PROVE  MovedRow(q, rows, at, a) = q
BY DEF MovedRow, Close, Stamp, Began, Blank, IdsOf

\* The rows a move writes, the period it opens apart.
LEMMA MovedRows ==
    ASSUME periods \subseteq Period, NEW rows, NEW at \in Instant, NEW a \in Address \cup {NoAddress}, NEW x
    PROVE  x \in Closed(Stamped(periods, rows, a), rows, at)
               <=> \E q \in Kept(rows, at) : x = MovedRow(q, rows, at, a)
<1>1. \A q \in periods : Stamp(q, rows, a).id = q.id
    BY DEF Stamp, Period
<1>2. Stamped(periods, rows, a) = {Stamp(q, rows, a) : q \in periods}
    BY DEF Stamped, Stamp, IdsOf, Blank
<1>3. x \in Closed(Stamped(periods, rows, a), rows, at)
          <=> \E s \in Stamped(periods, rows, a) : s.id \notin OnDate(rows, at) /\ x = Close(s, rows, at)
    BY DEF Closed, Close, IdsOf, Began, OnDate
<1> HIDE DEF Stamp, Close
<1> QED  BY <1>1, <1>2, <1>3 DEF MovedRow, Kept

\* What the write does, whoever else is at work on the person.
MoveWrote(e, p, x) ==
    LET o == op[e] IN
    /\ x \in Period /\ x.id = nextId /\ x.person = p /\ x.start = o.at /\ x.end = o.end
    /\ x.via = "app" /\ x.email = IF Covers(x, now) THEN o.email ELSE NoAddress
    /\ x \in periods'
    /\ \A y : y \in periods' <=>
                 y = x \/ \E q \in Kept(o.rows, o.at) : y = MovedRow(q, o.rows, o.at, people[p].email)
    /\ nextId' = nextId + 1 /\ Here(p) /\ o.step = "read"
    /\ op' = [op EXCEPT ![e].step = "moved", ![e].rows = {}]
    /\ UNCHANGED <<now, people, raced, cut, sameDay, spent, faults>>

LEMMA MoveEffect ==
    ASSUME Inv, NEW e \in Editor, MoveWrite(e)
    PROVE  \/ Finish(e) /\ UNCHANGED <<now, people, periods, nextId, raced, cut, sameDay, spent, faults>>
           \/ \E p \in op[e].person : \E x \in Period : MoveWrote(e, p, x)
<1> DEFINE o == op[e]
           blank(p) == Period0(p, o.job, o.at, o.end, NoAddress, "app")
           x(p) == IF Covers(blank(p), now) THEN [blank(p) EXCEPT !.email = o.email] ELSE blank(p)
<1>1. PICK p \in o.person :
          \/ Finish(e) /\ UNCHANGED <<periods, nextId>>
          \/ /\ Here(p)
             /\ periods' = Closed(Stamped(periods, o.rows, people[p].email), o.rows, o.at) \cup {x(p)}
             /\ nextId' = nextId + 1
             /\ op' = [op EXCEPT ![e].step = "moved", ![e].rows = {}]
    BY DEF MoveWrite
<1>2. o.step = "read" /\ UNCHANGED <<now, people, raced, cut, sameDay, spent, faults>>
    BY DEF MoveWrite
<1>3. o \in Operation /\ p \in Person /\ people[p].email \in Address \cup {NoAddress}
    BY OperationFields DEF Inv, TypeOK, PersonRow
<1>4. o.job \in Job
    BY <1>2 DEF Inv, Forms, Filled
<1>5. blank(p) \in Period /\ blank(p).id = nextId /\ blank(p).person = p /\ blank(p).start = o.at
      /\ blank(p).end = o.end /\ blank(p).via = "app" /\ blank(p).email = NoAddress
    BY <1>3, <1>4 DEF Period0, Period, Operation, Inv, TypeOK
<1>6. /\ x(p) \in Period /\ x(p).id = nextId /\ x(p).person = p /\ x(p).start = o.at /\ x(p).end = o.end
      /\ x(p).via = "app" /\ x(p).email = IF Covers(x(p), now) THEN o.email ELSE NoAddress
    <2>1. ASSUME NEW b \in Period, NEW a \in Address \cup {NoAddress}
          PROVE  LET c == [b EXCEPT !.email = a] IN
                 c \in Period /\ c.id = b.id /\ c.person = b.person /\ c.start = b.start
                 /\ c.end = b.end /\ c.via = b.via /\ c.email = a
        BY DEF Period
    <2>2. o.email \in Address \cup {NoAddress}
        BY <1>3, OperationFields
    <2> HIDE DEF blank
    <2> QED  BY <1>5, <2>1, <2>2 DEF Covers
<1> HIDE DEF x
<1>7. o.at \in Instant
    BY <1>3, OperationFields
<1>8. CASE Finish(e) /\ UNCHANGED <<periods, nextId>>
    BY <1>2, <1>8
<1>9. CASE /\ Here(p)
           /\ periods' = Closed(Stamped(periods, o.rows, people[p].email), o.rows, o.at) \cup {x(p)}
           /\ nextId' = nextId + 1
           /\ op' = [op EXCEPT ![e].step = "moved", ![e].rows = {}]
    <2>1. \A y : y \in periods' <=>
              y = x(p) \/ \E q \in Kept(o.rows, o.at) : y = MovedRow(q, o.rows, o.at, people[p].email)
        <3>1. periods \subseteq Period
            BY DEF Inv, TypeOK
        <3> HIDE DEF o
        <3> QED  BY <1>3, <1>7, <1>9, <3>1, MovedRows
    <2>2. MoveWrote(e, p, x(p))
        BY <1>2, <1>6, <1>9, <2>1 DEF MoveWrote
    <2> QED  BY <1>6, <2>2
<1> QED  BY <1>1, <1>8, <1>9

\* When no period begins or ends later on the day, what covers it contains the
\* instant.
LEMMA CoversSharp ==
    ASSUME NEW p, NEW q \in PeriodsOf(p), q.start \in Nat, q.end \in Nat,
           NEW t \in Nat, Sharp(p, t)
    PROVE  Covers(q, t) <=> q.start <= t /\ t < q.end
<1>1. NextDay(t) \in Nat /\ t < NextDay(t)
    BY Calendar
<1>2. ~(t < q.start /\ q.start < NextDay(t)) /\ ~(t < q.end /\ q.end < NextDay(t))
    BY DEF Sharp
<1> QED  BY <1>1, <1>2 DEF Covers

\* How a row of an undisturbed career survives a move.
AfterMove(q, y, at, a) ==
    /\ y.id = q.id /\ y.start = q.start /\ y.via = q.via
    /\ y.end = IF q.start < at /\ at < q.end THEN at ELSE q.end
    /\ y.email = IF q.email = NoAddress /\ Covers(q, now) /\ Covers(q, at) THEN a ELSE q.email

LEMMA MoveOfUndisturbed ==
    ASSUME Inv, NEW e \in Editor, NEW p \in op[e].person, NEW x, MoveWrote(e, p, x), p \notin Excepted
    PROVE  /\ x \in PeriodsOf(p)' /\ x.start = op[e].at /\ x.end = NextStart(p, op[e].at)
           /\ op[e].at \in Nat
           /\ \A q \in PeriodsOf(p) : q.start # op[e].at =>
                  \E y \in PeriodsOf(p)' : y # x /\ AfterMove(q, y, op[e].at, people[p].email)
           /\ \A y \in PeriodsOf(p)' : y = x \/
                  \E q \in PeriodsOf(p) : q.start # op[e].at /\ AfterMove(q, y, op[e].at, people[p].email)
<1> DEFINE o == op[e]
           f(q) == MovedRow(q, o.rows, o.at, people[p].email)
<1>1. p \in Person /\ o.at \in Instant /\ o.at \in Nat /\ people[p].email \in Address \cup {NoAddress}
      /\ periods \subseteq Period
    BY OperationFields DEF Inv, TypeOK, PersonRow
<1>2. /\ Tidy(p) /\ o.rows = CoveringOf(p, o.at) /\ o.end = NextStart(p, o.at) /\ Sharp(p, o.at)
    BY <1>1 DEF MoveWrote, Inv, Careers, Undisturbed, Holds, Forms, Filled
<1>3. PeriodsOf(p) \subseteq periods /\ \A q \in PeriodsOf(p) : q.person = p
    BY DEF PeriodsOf
<1>4. \A q \in PeriodsOf(p) : /\ q.start \in Nat /\ q.end \in Nat /\ q.start < q.end
                              /\ (Covers(q, o.at) <=> q.start <= o.at /\ o.at < q.end)
    BY <1>1, <1>2, <1>3, PeriodFields, CoversSharp DEF Tidy
<1>5. \A q \in periods : \A r \in o.rows : r.id = q.id => r = q
    BY <1>2, <1>3 DEF Inv, IdsAreHandles, CoveringOf
<1>6. \A q \in PeriodsOf(p) :
          /\ q.id \in Began(o.rows, o.at) <=> q.start < o.at /\ o.at < q.end
          /\ q.id \in OnDate(o.rows, o.at) <=> q.start = o.at
          /\ q.id \in Blank(o.rows)
                 <=> q.email = NoAddress /\ Covers(q, now) /\ Covers(q, o.at)
    <2> SUFFICES ASSUME NEW q \in PeriodsOf(p)
                 PROVE  /\ q.id \in Began(o.rows, o.at) <=> q.start < o.at /\ o.at < q.end
                        /\ q.id \in OnDate(o.rows, o.at) <=> q.start = o.at
                        /\ q.id \in Blank(o.rows)
                               <=> q.email = NoAddress /\ Covers(q, now) /\ Covers(q, o.at)
        OBVIOUS
    <2>1. q \in o.rows <=> Covers(q, o.at)
        BY <1>2 DEF CoveringOf
    <2>2. \A r \in o.rows : r.id = q.id => r = q
        BY <1>3, <1>5
    <2>3. q.id \in Began(o.rows, o.at) <=> q \in o.rows /\ q.start < o.at
        BY <2>2 DEF IdsOf, Began
    <2>4. q.id \in OnDate(o.rows, o.at) <=> q \in o.rows /\ q.start >= o.at
        BY <2>2 DEF IdsOf, OnDate
    <2>5. q.id \in Blank(o.rows)
              <=> q \in o.rows /\ q.email = NoAddress /\ Covers(q, now)
        BY <2>2 DEF IdsOf, Blank
    <2> QED  BY <1>1, <1>4, <2>1, <2>3, <2>4, <2>5
<1>7. \A q \in periods :
          /\ f(q).id = q.id /\ f(q).person = q.person /\ f(q).start = q.start /\ f(q).via = q.via
          /\ f(q).end = IF q.id \in Began(o.rows, o.at) THEN o.at ELSE q.end
          /\ f(q).email = IF q.id \in Blank(o.rows) THEN people[p].email ELSE q.email
    <2> SUFFICES ASSUME NEW q \in periods
                 PROVE  /\ f(q).id = q.id /\ f(q).person = q.person /\ f(q).start = q.start /\ f(q).via = q.via
                        /\ f(q).end = IF q.id \in Began(o.rows, o.at) THEN o.at ELSE q.end
                        /\ f(q).email = IF q.id \in Blank(o.rows) THEN people[p].email ELSE q.email
        OBVIOUS
    <2>1. q \in Period
        BY <1>1
    <2>2. f(q).id = q.id /\ f(q).person = q.person /\ f(q).start = q.start /\ f(q).via = q.via
        BY <1>1, <2>1, MovedRowKeeps
    <2>3. /\ q.id \in Began(o.rows, o.at) => f(q).end = o.at
          /\ q.id \notin Began(o.rows, o.at) => f(q).end = q.end
        BY <1>1, <2>1, MovedRowEnd
    <2>4. /\ q.id \in Blank(o.rows) => f(q).email = people[p].email
          /\ q.id \notin Blank(o.rows) => f(q).email = q.email
        BY <1>1, <2>1, MovedRowEmail
    <2> QED  BY <2>2, <2>3, <2>4
<1>8. /\ x.person = p /\ x \in periods'
      /\ \A y : y \in periods' <=> y = x \/ \E q \in Kept(o.rows, o.at) : y = f(q)
    BY DEF MoveWrote
<1> HIDE DEF f
<1>9. ASSUME NEW q \in PeriodsOf(p), q.start # o.at
      PROVE  f(q) \in PeriodsOf(p)' /\ f(q) # x /\ AfterMove(q, f(q), o.at, people[p].email)
    <2>1. q \in Kept(o.rows, o.at)
        BY <1>3, <1>6, <1>9 DEF Kept
    <2>2. f(q).id < nextId /\ x.id = nextId /\ nextId \in Nat /\ f(q).id \in Nat
        BY <1>1, <1>3, <1>7, PeriodFields DEF MoveWrote, Inv, IdsAreHandles, TypeOK
    <2>3. f(q) \in PeriodsOf(p)'
        BY <1>3, <1>7, <1>8, <2>1 DEF PeriodsOf
    <2>4. AfterMove(q, f(q), o.at, people[p].email)
        <3>1. /\ f(q).id = q.id /\ f(q).start = q.start /\ f(q).via = q.via
              /\ f(q).end = IF q.id \in Began(o.rows, o.at) THEN o.at ELSE q.end
              /\ f(q).email = IF q.id \in Blank(o.rows) THEN people[p].email ELSE q.email
            BY <1>3, <1>7
        <3>2. /\ q.id \in Began(o.rows, o.at) <=> q.start < o.at /\ o.at < q.end
              /\ q.id \in Blank(o.rows)
                     <=> q.email = NoAddress /\ Covers(q, now) /\ Covers(q, o.at)
            BY <1>6
        <3> QED  BY <3>1, <3>2 DEF AfterMove
    <2> QED  BY <2>2, <2>3, <2>4
<1>10. ASSUME NEW y \in PeriodsOf(p)', y # x
       PROVE  \E q \in PeriodsOf(p) : q.start # o.at /\ AfterMove(q, y, o.at, people[p].email)
    <2>1. PICK q \in Kept(o.rows, o.at) : y = f(q)
        BY <1>8, <1>10 DEF PeriodsOf
    <2>2. q \in PeriodsOf(p) /\ q.id \notin OnDate(o.rows, o.at)
        BY <1>7, <2>1 DEF PeriodsOf, Kept
    <2>3. q.start # o.at
        BY <1>6, <2>2
    <2> QED  BY <1>9, <2>1, <2>2, <2>3
<1>11. x \in PeriodsOf(p)'
    BY <1>8 DEF PeriodsOf
<1> QED  BY <1>1, <1>2, <1>9, <1>10, <1>11 DEF MoveWrote

\* A move leaves a tidy career tidy: the opened period ends where the next begins.
LEMMA MovedTidy ==
    ASSUME Inv, NEW e \in Editor, NEW p \in op[e].person, NEW x, MoveWrote(e, p, x), p \notin Excepted,
           \A y, z \in PeriodsOf(p)' : y.id = z.id => y = z
    PROVE  Tidy(p)'
<1> DEFINE at == op[e].at
<1>1. p \in Person
    BY OperationFields DEF Inv, TypeOK
<1>2. Tidy(p)
    BY <1>1 DEF Inv, Careers, Undisturbed
<1>3. \A q \in PeriodsOf(p) : /\ q.start \in Instant /\ q.start \in Nat /\ q.end \in Nat
                              /\ q.start < q.end
    BY <1>2, PeriodFields DEF Tidy, PeriodsOf, Inv, TypeOK
<1>4. /\ x.start = at /\ x.end = NextStart(p, at) /\ at \in Nat /\ at \in Instant
      /\ \A y \in PeriodsOf(p)' : y = x \/
             \E q \in PeriodsOf(p) : q.start # at /\ AfterMove(q, y, at, people[p].email)
    BY <1>1, MoveOfUndisturbed, OperationFields DEF Inv, TypeOK
<1> HIDE DEF at
<1>5. x.end \in Nat /\ at < x.end /\ \A q \in PeriodsOf(p) : q.start > at => x.end <= q.start
    BY <1>3, <1>4, NextStartFound, ForeverIsLast
<1>6. ASSUME NEW y \in PeriodsOf(p)', y # x
      PROVE  /\ y.start \in Nat /\ y.end \in Nat /\ y.start < y.end
             /\ ~Overlap(x, y) /\ ~Overlap(y, x)
             /\ \E q \in PeriodsOf(p) : /\ q.id = y.id /\ q.start = y.start /\ y.end <= q.end
                                        /\ AfterMove(q, y, at, people[p].email)
    <2>1. PICK q \in PeriodsOf(p) : q.start # at /\ AfterMove(q, y, at, people[p].email)
        BY <1>4, <1>6
    <2>2. y.start = q.start /\ y.id = q.id /\ y.end = IF q.start < at /\ at < q.end THEN at ELSE q.end
        BY <2>1 DEF AfterMove
    <2>3. q.start \in Nat /\ q.end \in Nat /\ q.start < q.end
        BY <1>3
    <2>4. y.start \in Nat /\ y.end \in Nat /\ y.start < y.end /\ y.end <= q.end
        BY <1>4, <2>2, <2>3
    <2>5. y.end <= at \/ x.end <= y.start
        BY <1>4, <1>5, <2>1, <2>2, <2>3
    <2>6. ~Overlap(x, y) /\ ~Overlap(y, x)
        BY <1>4, <1>5, <2>4, <2>5 DEF Overlap
    <2> QED  BY <2>1, <2>2, <2>4, <2>6
<1>7. ASSUME NEW y \in PeriodsOf(p)', NEW z \in PeriodsOf(p)', y # x, z # x, y # z
      PROVE  ~Overlap(y, z)
    <2>1. PICK q \in PeriodsOf(p) : q.id = y.id /\ q.start = y.start /\ y.end <= q.end
        BY <1>6, <1>7
    <2>2. PICK r \in PeriodsOf(p) : r.id = z.id /\ r.start = z.start /\ z.end <= r.end
        BY <1>6, <1>7
    <2>3. y.id # z.id
        BY <1>7
    <2>4. ~Overlap(q, r)
        BY <1>2, <2>1, <2>2, <2>3 DEF Tidy
    <2>5. y.start \in Nat /\ y.end \in Nat /\ z.start \in Nat /\ z.end \in Nat /\ q.end \in Nat /\ r.end \in Nat
        BY <1>3, <1>6, <1>7
    <2> QED  BY <2>1, <2>2, <2>4, <2>5 DEF Overlap
<1>8. ASSUME NEW y \in PeriodsOf(p)'
      PROVE  /\ y.start < y.end
             /\ \A z \in PeriodsOf(p)' : y # z => ~Overlap(y, z)
    <2>1. CASE y = x
        BY <1>4, <1>5, <1>6, <2>1
    <2>2. CASE y # x
        BY <1>6, <1>7, <2>2
    <2> QED  BY <2>1, <2>2
<1> QED  BY <1>8 DEF Tidy, Overlap

LEMMA MoveWriteInv == ASSUME Inv, NEW e \in Editor, MoveWrite(e) PROVE Inv'
<1> DEFINE o == op[e]
<1>1. CASE Finish(e) /\ UNCHANGED <<now, people, periods, nextId, raced, cut, sameDay, spent, faults>>
    BY <1>1, FinishInv DEF Inv, TypeOK, Stays
<1>2. CASE \E p \in o.person : \E x \in Period : MoveWrote(e, p, x)
    <2>1. PICK p \in o.person, x \in Period : MoveWrote(e, p, x)
        BY <1>2
    <2>2. o \in Operation /\ p \in Person /\ o.at \in Instant /\ people[p].email \in Address \cup {NoAddress}
        BY OperationFields DEF Inv, TypeOK, PersonRow
    <2>3. periods \subseteq Period /\ o.rows \subseteq Period
        BY <2>2, OperationFields DEF Inv, TypeOK
    <2> DEFINE old == Kept(o.rows, o.at)
               f == [q \in periods |-> MovedRow(q, o.rows, o.at, people[p].email)]
    <2>4. \A q \in periods : /\ f[q] \in Period /\ f[q].id = q.id /\ f[q].person = q.person
                             /\ q.id \notin IdsOf(o.rows) => f[q] = q
        <3>1. \A q \in periods : q \in Period
            BY <2>3
        <3> QED  BY <2>2, <3>1, MovedRowKeeps, NotMoved
    <2>5. old \subseteq periods /\ \A q \in periods : q.id \notin IdsOf(o.rows) => q \in old
        BY DEF Kept, IdsOf, OnDate
    <2>6. \A q \in periods : q.person # p => q \in old /\ f[q] = q
        <3>1. \A q \in periods : q.person # p => q.id \notin IdsOf(o.rows)
            BY DEF IdsOf, Inv, IdsAreHandles, Subjects
        <3> QED  BY <2>4, <2>5, <3>1
    <2>7. \A y : y \in periods' <=> y = x \/ \E q \in old : y = f[q]
        BY <2>1, <2>5 DEF MoveWrote
    <2>8. o.person \subseteq {p}
        BY DEF Inv, Subjects
    <2> HIDE DEF old, f
    <2>10. Writes(f, old, {x})
        <3>1. periods' = {f[q] : q \in old} \cup {x}
            BY <2>7
        <3> QED  BY <2>1, <2>4, <2>5, <3>1 DEF Writes, MoveWrote, Here
    <2>11. Advances(e)
        <3>1. op' \in [Editor -> Operation] /\ op'[e] = [o EXCEPT !.step = "moved", !.rows = {}]
              /\ \A g \in Editor \ {e} : op'[g] = op[g]
            BY <2>1, <2>2 DEF MoveWrote, Inv, TypeOK, Operation, Steps
        <3>2. op'[e].step = "moved" /\ op'[e].rows = {} /\ op'[e].person = o.person
              /\ op'[e].at = o.at /\ op'[e].job = o.job
            BY <2>2, <3>1 DEF Operation
        <3>3. Filled(op'[e])
            BY <2>1, <3>2 DEF MoveWrote, Inv, Forms, Filled
        <3>4. people' = people /\ people' \in [Person -> PersonRow] /\ raced' = raced /\ sameDay' = sameDay
              /\ now' = now /\ cut' \subseteq Person /\ spent' \in Nat /\ faults' \in Nat
            BY <2>1 DEF MoveWrote, Inv, TypeOK
        <3> QED  BY <3>1, <3>2, <3>3, <3>4 DEF Advances, Stays
    <2>12. ASSUME NEW y \in Person \ Excepted
           PROVE  \/ /\ y \notin o.person /\ \A z \in {x} : z.person # y
                     /\ \A q \in PeriodsOf(y) : q \in old /\ f[q] = q
                  \/ Tidy(y)' /\ (y \in o.person \/ \A g \in Editor : y \notin op[g].person)
        <3>1. CASE y # p
            BY <2>1, <2>6, <2>8, <3>1 DEF MoveWrote, PeriodsOf
        <3>2. CASE y = p
            <4>1. IdsAreHandles'
                BY <2>10, <2>11, WriteShape
            <4>2. \A z, w \in PeriodsOf(p)' : z.id = w.id => z = w
                BY <4>1 DEF IdsAreHandles, PeriodsOf
            <4>3. Tidy(y)'
                BY <2>1, <2>12, <3>2, <4>2, MovedTidy
            <4> QED  BY <3>2, <4>3
        <3> QED  BY <3>1, <3>2
    <2> QED  BY <2>10, <2>11, <2>12, WriteInv
<1> QED  BY <1>1, <1>2, MoveEffect

\* The only step from what a move has read to what it has written.
LEMMA OnlyMoveWrite ==
    ASSUME Inv, Next, NEW e \in Editor, op[e].step = "read", op'[e].step = "moved"
    PROVE  MoveWrite(e)
<1> SUFFICES ASSUME ~MoveWrite(e) PROVE FALSE
    OBVIOUS
<1>1. op' # op
    OBVIOUS
<1>2. ASSUME NEW f \in Editor, NEW o, op' = [op EXCEPT ![f] = o] PROVE f = e
    BY <1>2 DEF Inv, TypeOK
<1>3. ASSUME NEW f \in Editor, Finish(f) PROVE FALSE
    BY <1>2, <1>3, IdleIsOperation DEF Finish, Inv, TypeOK
<1>4. ASSUME NEW f \in Editor, NEW o, Begin(f, o) PROVE FALSE
    BY <1>2, <1>4 DEF Begin
<1>5. ASSUME NEW f \in Editor, MoveRead(f) PROVE FALSE
    BY <1>5 DEF MoveRead, Inv, TypeOK
<1>6. ASSUME NEW f \in Editor, MoveWrite(f), f # e PROVE FALSE
    BY <1>3, <1>6 DEF MoveWrite, Inv, TypeOK
<1>7. ASSUME NEW f \in Editor,
             CreateCheck(f) \/ CorrectCheck(f) \/ ChangeCheck(f) \/ CancelRead(f) \/ PostRead(f)
                 \/ DeletePersonPeriods(f)
      PROVE  FALSE
    BY <1>4, <1>7 DEF CreateCheck, CorrectCheck, ChangeCheck, CancelRead, PostRead, DeletePersonPeriods
<1>8. ASSUME NEW f \in Editor,
             CreateWrite(f) \/ CorrectWrite(f) \/ ChangeFollow(f) \/ CancelWrite(f) \/ PostWrite(f)
                 \/ DeletePersonRow(f) \/ Abandon(f)
      PROVE  FALSE
    BY <1>3, <1>8 DEF CreateWrite, CorrectWrite, ChangeFollow, CancelWrite, PostWrite,
                      DeletePersonRow, Abandon
<1>9. ASSUME Tick \/ \E f \in Editor : DeletePeriod(f) PROVE FALSE
    BY <1>1, <1>9 DEF Tick, DeletePeriod
<1> QED  BY <1>5, <1>6, <1>7, <1>8, <1>9 DEF Next

LEMMA InitInv == Init => Inv
<1> SUFFICES ASSUME Init PROVE Inv
    OBVIOUS
<1>1. \A p \in Person : PeriodsOf(p) = {} /\ people[p].state = "unborn"
    BY DEF Init, PeriodsOf, Unborn
<1>2. 0 \in Instant
    BY DaysAssumption DEF Instant
<1>3. TypeOK
    BY <1>2, IdleIsOperation DEF Init, TypeOK, Unborn, PersonRow
<1>4. \A e \in Editor : op[e] = Idle
    BY DEF Init
<1>5. IdsAreHandles /\ Subjects /\ Forms
    BY <1>1, <1>4, IdleIsOperation DEF Init, IdsAreHandles, Subjects, Forms, Filled
<1>6. Careers
    BY <1>1, <1>4, IdleIsOperation DEF Careers, Undisturbed, Tidy, OneAtWork
<1> QED  BY <1>3, <1>5, <1>6 DEF Inv

LEMMA NextInv == ASSUME Inv, [Next]_vars PROVE Inv'
<1>1. CASE Tick
    BY <1>1, TickInv
<1>2. ASSUME NEW e \in Editor,
             \/ CreateCheck(e) \/ CreateWrite(e) \/ CorrectCheck(e) \/ CorrectWrite(e)
             \/ ChangeCheck(e) \/ MoveRead(e) \/ MoveWrite(e) \/ ChangeFollow(e)
             \/ CancelRead(e) \/ CancelWrite(e) \/ PostRead(e) \/ PostWrite(e)
             \/ DeletePeriod(e) \/ DeletePersonPeriods(e) \/ DeletePersonRow(e) \/ Abandon(e)
      PROVE  Inv'
    BY <1>2, CreateCheckInv, CreateWriteInv, CorrectCheckInv, CorrectWriteInv, ChangeCheckInv,
       MoveReadInv, MoveWriteInv, ChangeFollowInv, CancelReadInv, CancelWriteInv, PostReadInv,
       PostWriteInv, DeletePeriodInv, DeletePersonPeriodsInv, DeletePersonRowInv, AbandonInv
<1>3. CASE UNCHANGED vars
    <2>1. \A p \in Person : PeriodsOf(p)' = PeriodsOf(p)
        BY <1>3 DEF vars, PeriodsOf
    <2>2. (TypeOK /\ IdsAreHandles /\ Subjects /\ Forms)'
        BY <1>3, <2>1 DEF vars, Inv, TypeOK, IdsAreHandles, Subjects, Forms
    <2>3. Careers'
        BY <1>3, <2>1, LeftAlone DEF vars, Inv, Careers
    <2> QED  BY <2>2, <2>3 DEF Inv
<1> QED  BY <1>1, <1>2, <1>3 DEF Next

\* The invariant.
THEOREM CareersHold == Spec => []Inv
BY InitInv, NextInv, PTL DEF Spec

\* Each variable keeps its type.
THEOREM TypeCorrect == Spec => []TypeOK
BY CareersHold, PTL DEF Inv

\* One person holds one job at an instant, unless two requests worked on them at
\* once, or they were moved on a day on which a period began or ended later.
THEOREM JobsDoNotOverlap == Spec => []OneJobAtATime
<1>1. Inv => OneJobAtATime
    BY DEF Inv, Careers, Undisturbed, Tidy, OneJobAtATime
<1> QED  BY <1>1, CareersHold, PTL

\* A move leaves no day uncovered that was covered: the day is still on the row
\* it was on, or on the period the move opened.
LEMMA MoveCovers ==
    ASSUME Inv, Inv', NEW e \in Editor, NEW p \in op[e].person, NEW x, MoveWrote(e, p, x), p \notin Excepted
    PROVE  DaysCovered(periods, p) \subseteq DaysCovered(periods', p)
<1> DEFINE at == op[e].at
<1>1. p \in Person
    BY OperationFields DEF Inv, TypeOK
<1>2. Tidy(p)
    BY <1>1 DEF Inv, Careers, Undisturbed
<1>3. \A q \in PeriodsOf(p) : /\ q.start \in Instant /\ q.start \in Nat /\ q.end \in Nat
                              /\ q.start < q.end
    BY <1>2, PeriodFields DEF Tidy, PeriodsOf, Inv, TypeOK
<1>4. /\ x \in PeriodsOf(p)' /\ x.start = at /\ x.end = NextStart(p, at) /\ at \in Nat
      /\ \A q \in PeriodsOf(p) : q.start # at =>
             \E y \in PeriodsOf(p)' : y # x /\ AfterMove(q, y, at, people[p].email)
    BY MoveOfUndisturbed
<1> HIDE DEF at
<1>5. \/ x.end = Forever /\ \A q \in PeriodsOf(p) : ~(q.start > at)
      \/ \E r \in PeriodsOf(p) : r.start = x.end /\ r.start > at
    BY <1>3, <1>4, NextStartFound
<1>6. ASSUME NEW d \in 0 .. Days, NEW q \in PeriodsOf(p), Covers(q, PerDay * d)
      PROVE  \E y \in PeriodsOf(p)' : Covers(y, PerDay * d)
    <2> DEFINE t == NextDay(PerDay * d)
    <2>1. d \in Nat /\ NextDay(PerDay * d) = t /\ t \in Nat /\ t <= Forever
        BY ForeverIsLast, Calendar, DaysAssumption
    <2> HIDE DEF t
    <2>2. q.start < t /\ q.end >= t
        BY <1>6, <2>1 DEF Covers
    <2>3. CASE q.start # at /\ ~(q.start < at /\ at < t)
        <3>1. PICK y \in PeriodsOf(p)' : AfterMove(q, y, at, people[p].email)
            BY <1>4, <2>3
        <3>2. y.start = q.start /\ y.end = IF q.start < at /\ at < q.end THEN at ELSE q.end
            BY <3>1 DEF AfterMove
        <3>3. y.start < t /\ y.end >= t
            BY <1>3, <1>4, <2>1, <2>2, <2>3, <3>2
        <3> QED  BY <2>1, <3>3 DEF Covers
    <2>4. CASE q.start <= at /\ at < t
        <3>1. ASSUME NEW r \in PeriodsOf(p), r.start = x.end, r.start > at, r.start < t PROVE FALSE
            <4>1. r # q
                BY <1>3, <1>4, <2>4, <3>1
            <4>2. ~Overlap(r, q)
                BY <1>2, <4>1 DEF Tidy
            <4>3. r.start < q.end /\ q.start < r.end
                BY <1>3, <1>4, <2>1, <2>2, <2>4, <3>1
            <4> QED  BY <4>2, <4>3 DEF Overlap
        <3>2. x.end >= t
            BY <1>3, <1>5, <2>1, <3>1
        <3> QED  BY <1>4, <2>1, <2>4, <3>2 DEF Covers
    <2> QED  BY <1>3, <1>4, <2>1, <2>2, <2>3, <2>4
<1> QED  BY <1>6 DEF DaysCovered, PeriodsOf

\* On no day on which somebody had a job does a move leave them without one, with
\* the same exceptions.
THEOREM MovesCoverTheCareer == Spec => MovesKeepTheCareer
<1> DEFINE Step == \A e \in Editor, p \in Person \ Excepted :
                       op[e].step = "read" /\ op'[e].step = "moved" /\ p \in op[e].person
                           => DaysCovered(periods, p) \subseteq DaysCovered(periods', p)
<1>1. Inv /\ Inv' /\ [Next]_vars => [Step]_vars
    <2> SUFFICES ASSUME Inv, Inv', Next, NEW e \in Editor, NEW p \in Person \ Excepted,
                        op[e].step = "read", op'[e].step = "moved", p \in op[e].person
                 PROVE  DaysCovered(periods, p) \subseteq DaysCovered(periods', p)
        OBVIOUS
    <2>1. MoveWrite(e)
        BY OnlyMoveWrite
    <2>2. op'[e] # Idle
        BY IdleIsOperation
    <2>3. PICK q \in op[e].person, x \in Period : MoveWrote(e, q, x)
        BY <2>1, <2>2, MoveEffect, Finished DEF Inv
    <2>4. q = p
        BY DEF Inv, Subjects
    <2> QED  BY <2>3, <2>4, MoveCovers
<1> QED  BY <1>1, CareersHold, PTL DEF Spec, MovesKeepTheCareer

\* Of the rows that a move and its cancelling touch, each is as it was: the one
\* that was closed is reopened up to where it ended, and no other ends there.
LEMMA CancelRestores ==
    ASSUME Inv, NEW p \in Person \ Excepted, NEW q \in PeriodsOf(p), NEW t \in Instant, Sharp(p, t),
           q.start < t, t < q.end, q.end = NextStart(p, t)
    PROVE  LET opened == Period0(p, q.job, t, NextStart(p, t), NoAddress, "app")
               moved == Closed(periods, CoveringOf(p, t), t) \cup {opened}
           IN  Spliced(moved, opened) = periods
<1> DEFINE opened == Period0(p, q.job, t, NextStart(p, t), NoAddress, "app")
           closed(r) == IF r.id = q.id THEN [r EXCEPT !.end = t] ELSE r
           spliced(r) == IF r.person = p /\ r.end = t THEN [r EXCEPT !.end = q.end] ELSE r
           moved == Closed(periods, CoveringOf(p, t), t) \cup {opened}
<1>1. Tidy(p) /\ q \in periods /\ q \in Period /\ q.person = p /\ t \in Nat /\ t \in Instant
    BY ForeverIsLast DEF Inv, Careers, Undisturbed, PeriodsOf, TypeOK
<1>2. \A r \in PeriodsOf(p) : r.start \in Nat /\ r.end \in Nat /\ r.start < r.end
    BY <1>1, PeriodFields DEF Tidy, PeriodsOf, Inv, TypeOK
<1>3. ASSUME NEW r \in PeriodsOf(p), r # q PROVE ~(r.start < t /\ t <= r.end)
    <2>1. ~Overlap(r, q)
        BY <1>1, <1>3 DEF Tidy
    <2> QED  BY <1>1, <1>2, <2>1 DEF Overlap
<1>4. CoveringOf(p, t) = {q}
    <2>1. \A r \in PeriodsOf(p) : Covers(r, t) <=> r.start <= t /\ t < r.end
        BY <1>1, <1>2, CoversSharp
    <2>2. ASSUME NEW r \in PeriodsOf(p), r # q, r.start = t, t < r.end PROVE FALSE
        <3>1. ~Overlap(r, q)
            BY <1>1, <2>2 DEF Tidy
        <3> QED  BY <1>1, <1>2, <2>2, <3>1 DEF Overlap
    <2> QED  BY <1>1, <1>2, <1>3, <2>1, <2>2 DEF CoveringOf
<1>5. Closed(periods, {q}, t) = {closed(r) : r \in periods}
    <2>1. {r.id : r \in {r \in {q} : r.start < t}} = {q.id} /\ {r.id : r \in {r \in {q} : r.start >= t}} = {}
        BY <1>1, <1>2
    <2> QED  BY <2>1 DEF Closed
<1>6. opened.id = nextId /\ opened.person = p /\ opened.start = t /\ opened.end = q.end
    BY DEF Period0
<1>7. \A r \in periods : r \in Period /\ r.id # nextId
    BY PeriodFields DEF Inv, TypeOK, IdsAreHandles
<1>8. ASSUME NEW r \in periods PROVE closed(r).id = r.id /\ spliced(closed(r)) = r
    <2>1. CASE r = q
        BY <1>1, <2>1 DEF Period
    <2>2. CASE r # q
        <3>1. r.id # q.id
            BY <1>1, <2>2 DEF Inv, IdsAreHandles
        <3>2. ~(r.person = p /\ r.end = t)
            BY <1>1, <1>2, <1>3, <2>2 DEF PeriodsOf
        <3> QED  BY <3>1, <3>2
    <2> QED  BY <2>1, <2>2
<1>9. moved = {closed(r) : r \in periods} \cup {opened}
    BY <1>4, <1>5
<1>10. \A x : x \in Spliced(moved, opened) <=> \E y \in moved : y.id # opened.id /\ x = spliced(y)
    BY <1>6 DEF Spliced
<1> HIDE DEF opened, closed, spliced, moved
<1>11. \A x : x \in Spliced(moved, opened) <=> x \in periods
    BY <1>6, <1>7, <1>8, <1>9, <1>10
<1> QED  BY <1>11 DEF moved, opened

\* Cancelling a move gives the career it was made in back, with the same
\* exceptions.
THEOREM CancellingGivesBack == Spec => []CancelUndoesTheMove
<1>1. Inv => CancelUndoesTheMove
    BY CancelRestores DEF CancelUndoesTheMove
<1> QED  BY <1>1, CareersHold, PTL

-----------------------------------------------------------------------------
(* Addresses: a request that claims one has it to itself until it is recorded. *)

Claiming(o) == o.step \in {"create", "correct", "change", "read", "moved"}

Claims ==
    /\ \A e \in Editor : Claiming(op[e]) => op[e].email \in Address
    /\ \A p \in Person : Here(p) => people[p].email \in Address
    /\ \A e \in Editor : Claiming(op[e]) /\ op[e].email \notin raced =>
           /\ \A p \in Person \ op[e].person : Here(p) => people[p].email # op[e].email
           /\ \A f \in Editor \ {e} : op[f].step # "idle" => op[f].email # op[e].email
    /\ OneCurrentHolder

\* Nobody gets an address, and no request begins.
LEMMA ClaimsStay ==
    ASSUME Claims, raced \subseteq raced',
           \A p \in Person : Here(p)' => Here(p) /\ people'[p].email = people[p].email,
           \A f \in Editor : \/ op'[f].step = "idle"
                             \/ /\ op[f].step # "idle" /\ op'[f].email = op[f].email
                                /\ op'[f].person = op[f].person
                                /\ Claiming(op'[f]) => Claiming(op[f])
    PROVE  Claims'
<1>1. \A e \in Editor : Claiming(op'[e]) => op'[e].step # "idle"
    BY DEF Claiming
<1>2. \A e \in Editor : Claiming(op'[e]) => op'[e].email \in Address
    BY <1>1 DEF Claims
<1>3. \A p \in Person : Here(p)' => people'[p].email \in Address
    BY DEF Claims
<1>4. ASSUME NEW e \in Editor, Claiming(op'[e]), op'[e].email \notin raced'
      PROVE  /\ \A p \in Person \ op'[e].person : Here(p)' => people'[p].email # op'[e].email
             /\ \A f \in Editor \ {e} : op'[f].step # "idle" => op'[f].email # op'[e].email
    BY <1>1, <1>4 DEF Claims
<1>5. OneCurrentHolder'
    BY DEF Claims, OneCurrentHolder
<1> QED  BY <1>2, <1>3, <1>4, <1>5 DEF Claims

\* A request begins; if it claims an address, nobody has it.
LEMMA ClaimsBegin ==
    ASSUME Inv, Claims, NEW e \in Editor, NEW o \in Operation, Begin(e, o), people' = people,
           Claiming(o) => o.email \in Address /\ \A p \in Person \ o.person : Here(p) => people[p].email # o.email
    PROVE  Claims'
<1>1. /\ op'[e] = o /\ raced \subseteq raced'
      /\ \A f \in Editor \ {e} : op'[f] = op[f]
      /\ o.email \in Address \ raced' => \A f \in Editor \ {e} : op[f].step # "idle" => op[f].email # o.email
    BY Begun DEF Inv
<1>2. \A p \in Person : Here(p)' <=> Here(p)
    BY DEF Here
<1>3. \A f \in Editor : Claiming(op'[f]) => op'[f].email \in Address
    BY <1>1 DEF Claims
<1>4. \A p \in Person : Here(p)' => people'[p].email \in Address
    BY <1>2 DEF Claims
<1>5. ASSUME NEW f \in Editor, Claiming(op'[f]), op'[f].email \notin raced'
      PROVE  /\ \A p \in Person \ op'[f].person : Here(p)' => people'[p].email # op'[f].email
             /\ \A g \in Editor \ {f} : op'[g].step # "idle" => op'[g].email # op'[f].email
    <2>1. op'[f].email \in Address /\ op'[f].email \notin raced
        BY <1>1, <1>3, <1>5
    <2>2. CASE f = e
        BY <1>1, <1>2, <1>5, <2>1, <2>2
    <2>3. CASE f # e
        <3>1. op'[f] = op[f] /\ op[f].step # "idle"
            BY <1>1, <1>5, <2>3 DEF Claiming
        <3>2. \A p \in Person \ op[f].person : Here(p) => people[p].email # op[f].email
            BY <1>5, <2>1, <3>1 DEF Claims
        <3>3. \A g \in Editor \ {e, f} : op[g].step # "idle" => op[g].email # op[f].email
            BY <1>5, <2>1, <3>1 DEF Claims
        <3>4. o.email # op[f].email
            BY <1>1, <1>5, <2>1, <2>3, <3>1
        <3> QED  BY <1>1, <1>2, <3>1, <3>2, <3>3, <3>4
    <2> QED  BY <2>2, <2>3
<1>6. OneCurrentHolder'
    BY <1>1, <1>2 DEF Claims, OneCurrentHolder
<1> QED  BY <1>3, <1>4, <1>5, <1>6 DEF Claims

\* A claim is recorded.
LEMMA ClaimsWrite ==
    ASSUME Claims, NEW e \in Editor, Claiming(op[e]), NEW p \in Person, op[e].person \subseteq {p},
           op'[e].step = "idle", \A f \in Editor \ {e} : op'[f] = op[f], raced' = raced,
           \A x \in Person \ {p} : people'[x] = people[x], people'[p].email = op[e].email
    PROVE  Claims'
<1>1. \A x \in Person \ {p} : Here(x)' <=> Here(x)
    BY DEF Here
<1>2. op[e].step # "idle" /\ op[e].email \in Address
    BY DEF Claiming, Claims
<1>3. \A f \in Editor : Claiming(op'[f]) => f # e
    BY DEF Claiming
<1>4. \A f \in Editor : Claiming(op'[f]) => op'[f].email \in Address
    BY <1>3 DEF Claims
<1>5. \A x \in Person : Here(x)' => people'[x].email \in Address
    BY <1>1, <1>2 DEF Claims
<1>6. ASSUME NEW f \in Editor, Claiming(op'[f]), op'[f].email \notin raced'
      PROVE  /\ \A x \in Person \ op'[f].person : Here(x)' => people'[x].email # op'[f].email
             /\ \A g \in Editor \ {f} : op'[g].step # "idle" => op'[g].email # op'[f].email
    <2>1. f # e /\ op'[f] = op[f] /\ Claiming(op[f]) /\ op[f].email \notin raced
        BY <1>3, <1>6
    <2>2. op[e].email # op[f].email
        BY <1>2, <2>1 DEF Claims
    <2>3. \A x \in Person \ op[f].person : Here(x) => people[x].email # op[f].email
        BY <2>1 DEF Claims
    <2>4. \A g \in Editor \ {e, f} : op[g].step # "idle" => op[g].email # op[f].email
        BY <2>1 DEF Claims
    <2> QED  BY <1>1, <2>1, <2>2, <2>3, <2>4
<1>7. OneCurrentHolder'
    <2>1. op[e].email \notin raced =>
              \A x \in Person \ {p} : Here(x) => people[x].email # op[e].email
        BY DEF Claims
    <2>2. \A x, y \in Person \ {p} : x # y /\ Here(x) /\ Here(y) /\ people[x].email = people[y].email
                                         => people[x].email \in raced
        BY DEF Claims, OneCurrentHolder
    <2> QED  BY <1>1, <2>1, <2>2 DEF OneCurrentHolder
<1> QED  BY <1>4, <1>5, <1>6, <1>7 DEF Claims

LEMMA ClaimsChecks ==
    ASSUME Inv, Claims, NEW e \in Editor, CreateCheck(e) \/ CorrectCheck(e) \/ ChangeCheck(e)
    PROVE  Claims'
<1>1. \E o \in Operation : /\ Begin(e, o) /\ people' = people
                           /\ o.email \in Address
                           /\ \A p \in Person \ o.person : Here(p) => people[p].email # o.email
    <2>1. CASE CreateCheck(e)
        <3>1. PICK j \in Job, a \in Address, t \in Instant :
                  /\ AddressFree(a, {}, t) /\ UNCHANGED people
                  /\ Begin(e, [Idle EXCEPT !.step = "create", !.job = j, !.email = a, !.at = t])
            BY <2>1 DEF CreateCheck
        <3> DEFINE o == [Idle EXCEPT !.step = "create", !.job = j, !.email = a, !.at = t]
        <3>2. o \in Operation /\ o.email = a /\ o.person = {}
            BY IdleIsOperation DEF Operation, Steps
        <3> HIDE DEF o
        <3>3. \A p \in Person : Here(p) => people[p].email # a
            BY <3>1 DEF AddressFree
        <3> QED  BY <3>1, <3>2, <3>3 DEF o
    <2>2. CASE CorrectCheck(e)
        <3>1. PICK p \in Person, a \in Address, j \in Job \cup {NoJob} :
                  /\ AddressFree(a, {p}, now) /\ UNCHANGED people
                  /\ Begin(e, [Idle EXCEPT !.step = "correct", !.person = {p}, !.job = j,
                                           !.email = a, !.at = now])
            BY <2>2 DEF CorrectCheck
        <3> DEFINE o == [Idle EXCEPT !.step = "correct", !.person = {p}, !.job = j,
                                     !.email = a, !.at = now]
        <3>2. o \in Operation /\ o.email = a /\ o.person = {p}
            BY IdleIsOperation, Singles DEF Operation, Steps, Alone, Inv, TypeOK
        <3> HIDE DEF o
        <3>3. \A x \in Person \ {p} : Here(x) => people[x].email # a
            BY <3>1 DEF AddressFree
        <3> QED  BY <3>1, <3>2, <3>3 DEF o
    <2>3. CASE ChangeCheck(e)
        <3>1. PICK p \in Person, j \in Job, a \in Address, t \in Instant :
                  /\ AddressFree(a, {p}, t) /\ UNCHANGED people
                  /\ Begin(e, [Idle EXCEPT !.step = "change", !.person = {p}, !.job = j,
                                           !.email = a, !.at = t])
            BY <2>3 DEF ChangeCheck
        <3> DEFINE o == [Idle EXCEPT !.step = "change", !.person = {p}, !.job = j,
                                     !.email = a, !.at = t]
        <3>2. o \in Operation /\ o.email = a /\ o.person = {p}
            BY IdleIsOperation, Singles DEF Operation, Steps, Alone
        <3> HIDE DEF o
        <3>3. \A x \in Person \ {p} : Here(x) => people[x].email # a
            BY <3>1 DEF AddressFree
        <3> QED  BY <3>1, <3>2, <3>3 DEF o
    <2> QED  BY <2>1, <2>2, <2>3
<1> QED  BY <1>1, ClaimsBegin

LEMMA ClaimsOtherBegins ==
    ASSUME Inv, Claims, NEW e \in Editor, CancelRead(e) \/ PostRead(e) \/ DeletePersonPeriods(e)
    PROVE  Claims'
<1>1. \E o \in Operation : Begin(e, o) /\ people' = people /\ ~Claiming(o)
    <2>1. CASE CancelRead(e)
        <3>1. PICK q \in periods :
                  UNCHANGED people /\ Begin(e, [Idle EXCEPT !.step = "cancel", !.person = {q.person}, !.rows = {q}])
            BY <2>1 DEF CancelRead
        <3> DEFINE o == [Idle EXCEPT !.step = "cancel", !.person = {q.person}, !.rows = {q}]
        <3>2. q \in Period /\ q.person \in Person
            BY PeriodFields DEF Inv, TypeOK
        <3>3. o \in Operation /\ o.step = "cancel"
            BY <3>2, IdleIsOperation, Singles DEF Operation, Steps, Alone
        <3> HIDE DEF o
        <3> QED  BY <3>1, <3>3 DEF o, Claiming
    <2>2. CASE PostRead(e)
        <3>1. PICK p \in Person, j \in Job, a \in Address \cup {NoAddress},
                   s \in Instant, t \in Instant \cup {Forever} :
                  /\ UNCHANGED people
                  /\ Begin(e, [Idle EXCEPT !.step = "post", !.person = {p}, !.job = j,
                                           !.email = a, !.at = s, !.end = t])
            BY <2>2 DEF PostRead
        <3> DEFINE o == [Idle EXCEPT !.step = "post", !.person = {p}, !.job = j,
                                     !.email = a, !.at = s, !.end = t]
        <3>2. o \in Operation /\ o.step = "post"
            BY IdleIsOperation, Singles DEF Operation, Steps, Alone
        <3> HIDE DEF o
        <3> QED  BY <3>1, <3>2 DEF o, Claiming
    <2>3. CASE DeletePersonPeriods(e)
        <3>1. PICK p \in Person :
                  UNCHANGED people /\ Begin(e, [Idle EXCEPT !.step = "delete", !.person = {p}])
            BY <2>3 DEF DeletePersonPeriods
        <3> DEFINE o == [Idle EXCEPT !.step = "delete", !.person = {p}]
        <3>2. o \in Operation /\ o.step = "delete"
            BY IdleIsOperation, Singles DEF Operation, Steps, Alone
        <3> HIDE DEF o
        <3> QED  BY <3>1, <3>2 DEF o, Claiming
    <2> QED  BY <2>1, <2>2, <2>3
<1> QED  BY <1>1, ClaimsBegin

LEMMA ClaimsRecorded ==
    ASSUME Inv, Claims, NEW e \in Editor, CreateWrite(e) \/ CorrectWrite(e) \/ ChangeFollow(e)
    PROVE  Claims'
<1>1. /\ Finish(e) /\ raced' = raced /\ Claiming(op[e])
      /\ \/ people' = people
         \/ \E p \in Person : /\ op[e].person \subseteq {p} /\ people'[p].email = op[e].email
                              /\ \A x \in Person \ {p} : people'[x] = people[x]
    <2>1. CASE CreateWrite(e)
        <3>1. PICK p \in Person :
                  \/ people' = people
                  \/ people' = [people EXCEPT ![p] = [state |-> "here", email |-> op[e].email, current |-> op[e].job]]
            BY <2>1 DEF CreateWrite
        <3>2. Finish(e) /\ raced' = raced /\ Claiming(op[e]) /\ op[e].person = {}
            BY <2>1 DEF CreateWrite, Claiming, Inv, Subjects
        <3> QED  BY <3>1, <3>2 DEF Inv, TypeOK
    <2>2. CASE CorrectWrite(e)
        <3>1. PICK p \in op[e].person :
                  \/ people' = people
                  \/ \E j : people' = [people EXCEPT ![p].email = op[e].email, ![p].current = j]
            BY <2>2 DEF CorrectWrite
        <3>2. Finish(e) /\ raced' = raced /\ Claiming(op[e])
            BY <2>2 DEF CorrectWrite, Claiming
        <3>3. p \in Person /\ op[e].person \subseteq {p}
            BY OperationFields DEF Inv, TypeOK, Subjects
        <3> QED  BY <3>1, <3>2, <3>3 DEF Inv, TypeOK, PersonRow
    <2>3. CASE ChangeFollow(e)
        <3>1. PICK p \in op[e].person :
                  \/ people' = people
                  \/ people' = [people EXCEPT ![p].email = op[e].email, ![p].current = op[e].job]
            BY <2>3 DEF ChangeFollow
        <3>2. Finish(e) /\ raced' = raced /\ Claiming(op[e])
            BY <2>3 DEF ChangeFollow, Claiming
        <3>3. p \in Person /\ op[e].person \subseteq {p}
            BY OperationFields DEF Inv, TypeOK, Subjects
        <3> QED  BY <3>1, <3>2, <3>3 DEF Inv, TypeOK, PersonRow
    <2> QED  BY <2>1, <2>2, <2>3
<1>2. op'[e].step = "idle" /\ \A f \in Editor \ {e} : op'[f] = op[f]
    BY <1>1, Finished, IdleIsOperation DEF Inv
<1>3. CASE people' = people
    <2>1. \A p \in Person : Here(p)' <=> Here(p)
        BY <1>3 DEF Here
    <2> QED  BY <1>1, <1>2, <1>3, <2>1, ClaimsStay
<1>4. CASE people' # people
    BY <1>1, <1>2, <1>4, ClaimsWrite
<1> QED  BY <1>3, <1>4

LEMMA ClaimsUntouched ==
    ASSUME Inv, Claims, NEW e \in Editor,
           \/ MoveRead(e) \/ MoveWrite(e) \/ CancelWrite(e) \/ PostWrite(e) \/ DeletePeriod(e)
           \/ DeletePersonRow(e) \/ Abandon(e)
    PROVE  Claims'
<1>1. raced \subseteq raced'
    BY DEF MoveRead, MoveWrite, CancelWrite, PostWrite, DeletePeriod, DeletePersonRow, Abandon
<1>2. \A p \in Person : Here(p)' => Here(p) /\ people'[p].email = people[p].email
    <2>1. CASE DeletePersonRow(e)
        BY <2>1 DEF DeletePersonRow, Here, Inv, TypeOK, PersonRow
    <2>2. CASE people' = people
        BY <2>2 DEF Here
    <2> QED  BY <2>1, <2>2 DEF MoveRead, MoveWrite, CancelWrite, PostWrite, DeletePeriod, Abandon
<1>3. \A f \in Editor : \/ op'[f].step = "idle"
                        \/ /\ op[f].step # "idle" /\ op'[f].email = op[f].email
                           /\ op'[f].person = op[f].person
                           /\ Claiming(op'[f]) => Claiming(op[f])
    <2>1. CASE Finish(e) \/ op' = op
        <3>1. op'[e].step = "idle" \/ op' = op
            BY <2>1, Finished, IdleIsOperation DEF Inv
        <3>2. \A f \in Editor \ {e} : op'[f] = op[f]
            BY <2>1, Finished DEF Inv
        <3> QED  BY <3>1, <3>2
    <2>2. CASE MoveRead(e)
        <3>1. PICK r, u : op' = [op EXCEPT ![e].step = "read", ![e].rows = r, ![e].end = u]
            BY <2>2 DEF MoveRead
        <3>2. op[e].step = "change"
            BY <2>2 DEF MoveRead
        <3> QED  BY <3>1, <3>2 DEF Claiming, Inv, TypeOK, Operation
    <2>3. CASE MoveWrite(e) /\ ~Finish(e)
        BY <2>3 DEF MoveWrite, Claiming, Inv, TypeOK, Operation
    <2> QED
        BY <2>1, <2>2, <2>3 DEF MoveWrite, CancelWrite, PostWrite, DeletePeriod, DeletePersonRow, Abandon
<1> QED  BY <1>1, <1>2, <1>3, ClaimsStay

LEMMA ClaimsNext == ASSUME Inv, Claims, [Next]_vars PROVE Claims'
<1>1. CASE Tick \/ UNCHANGED vars
    <2>1. people' = people /\ op' = op /\ raced' = raced
        BY <1>1 DEF Tick, vars
    <2> QED  BY <2>1 DEF Claims, OneCurrentHolder, Here
<1>2. CASE ~(Tick \/ UNCHANGED vars)
    BY <1>2, ClaimsChecks, ClaimsOtherBegins, ClaimsRecorded, ClaimsUntouched DEF Next
<1> QED  BY <1>1, <1>2

\* An address is on one Person row, unless two requests claimed it at once.
THEOREM AddressesHaveOneHolder == Spec => []OneCurrentHolder
<1>1. Init => Claims
    BY IdleIsOperation DEF Init, Claims, Claiming, OneCurrentHolder, Here, Unborn
<1>2. Claims => OneCurrentHolder
    BY DEF Claims
<1> QED  BY <1>1, <1>2, CareersHold, ClaimsNext, PTL DEF Spec

-----------------------------------------------------------------------------
(* The address on the job. *)

\* The second write of the move that opened q is still to come.
Coming(q, p) ==
    \E e \in Editor : /\ op[e].step = "moved" /\ p \in op[e].person
                      /\ q.start = op[e].at /\ q.end = op[e].end /\ q.email = op[e].email

\* What is scheduled has no address; what covers today has the person's, if any,
\* or that of a move whose second write is to come.
Agreed(p) ==
    \A q \in PeriodsOf(p) : q.via = "app" =>
        /\ q.start >= NextDay(now) => q.email = NoAddress
        /\ Covers(q, now) => q.email \in {NoAddress, people[p].email} \/ Coming(q, p)

\* What the requests at work on p rely on: nothing a correction does not touch has
\* an address and starts later; what a cancelling reopens has no other address
\* than the person's; what a move opened is still there.
StillAgreed(o, p) ==
    /\ o.step = "correct" =>
           o.at <= now /\ \A q \in PeriodsOf(p) :
               q.via = "app" /\ q.start >= NextDay(o.at) => q.email = NoAddress
    /\ o.step = "cancel" =>
           \A s \in o.rows : \A q \in PeriodsOf(p) :
               q.via = "app" /\ q.end = s.start => q.email \in {NoAddress, people[p].email}
    /\ o.step = "moved" =>
           Here(p) /\ \E q \in PeriodsOf(p) :
               q.start = o.at /\ q.end = o.end /\ q.email \in {NoAddress, o.email}

Settled(p) == Agreed(p) /\ \A e \in Editor : p \in op[e].person => StillAgreed(op[e], p)

Addresses == \A p \in Person \ (raced \cup cut \cup sameDay) : Settled(p)

LEMMA RowDates ==
    ASSUME Inv, NEW p, NEW q \in PeriodsOf(p)
    PROVE  /\ q.start \in Nat /\ q.end \in Nat /\ q.person = p /\ q \in Period /\ q \in periods
           /\ NextDay(now) \in Nat /\ now \in Nat
BY PeriodFields, Calendar, ForeverIsLast DEF PeriodsOf, Inv, TypeOK

LEMMA RequestDates ==
    ASSUME Inv, NEW e \in Editor
    PROVE  op[e].at \in Nat /\ op[e].end \in Nat /\ NextDay(op[e].at) \in Nat
BY OperationFields, Calendar DEF Inv, TypeOK

\* Time passes, and the requests at work on p read what they read.
LEMMA SettledStays ==
    ASSUME Inv, NEW p, Settled(p), now' = now \/ now' = now + 1,
           PeriodsOf(p)' = PeriodsOf(p), people'[p].email = people[p].email,
           \A f \in Editor : op[f].step = "moved" /\ p \in op[f].person => op'[f] = op[f],
           \A f \in Editor : p \in op'[f].person =>
               \/ op'[f].step \notin {"correct", "cancel", "moved"}
               \/ op'[f] = op[f] /\ (Here(p) => Here(p)')
    PROVE  Settled(p)'
<1>1. now \in Nat /\ now' \in Nat /\ now <= now' /\ NextDay(now) \in Nat /\ NextDay(now') \in Nat
      /\ NextDay(now) <= NextDay(now')
    <2>1. now \in Nat /\ now' \in Nat /\ now <= now'
        BY ForeverIsLast DEF Inv, TypeOK
    <2>2. NextDay(now) \in Nat /\ NextDay(now') \in Nat
        BY <2>1, Calendar
    <2>3. NextDay(now) <= NextDay(now')
        BY <2>1, Later
    <2> QED  BY <2>1, <2>2, <2>3
<1>2. \A q \in PeriodsOf(p) : Coming(q, p) => Coming(q, p)'
    BY DEF Coming
<1>3. Agreed(p)'
    <2> SUFFICES ASSUME NEW q \in PeriodsOf(p), q.via = "app"
                 PROVE  /\ q.start >= NextDay(now') => q.email = NoAddress
                        /\ Covers(q, now)' => q.email \in {NoAddress, people'[p].email} \/ Coming(q, p)'
        BY DEF Agreed
    <2>1. /\ q.start >= NextDay(now) => q.email = NoAddress
          /\ Covers(q, now) => q.email \in {NoAddress, people[p].email} \/ Coming(q, p)
        BY DEF Settled, Agreed
    <2>2. q.start \in Nat /\ q.end \in Nat
        BY RowDates
    <2>3. Covers(q, now)' => q.start >= NextDay(now) \/ Covers(q, now)
        BY <1>1, <2>2 DEF Covers
    <2>4. q.start >= NextDay(now') => q.start >= NextDay(now)
        BY <1>1, <2>2
    <2> QED  BY <1>2, <2>1, <2>3, <2>4
<1>4. ASSUME NEW f \in Editor, p \in op'[f].person PROVE StillAgreed(op[f], p)' 
    <2>1. CASE op'[f].step \notin {"correct", "cancel", "moved"}
        BY <2>1 DEF StillAgreed
    <2>2. CASE op'[f] = op[f] /\ (Here(p) => Here(p)')
        <3>1. StillAgreed(op[f], p)
            BY <1>4, <2>2 DEF Settled
        <3>2. op[f].at <= now => op[f].at <= now'
            BY <1>1, RequestDates
        <3> QED  BY <2>2, <3>1, <3>2 DEF StillAgreed
    <2> QED  BY <1>4, <2>1, <2>2
<1> QED  BY <1>3, <1>4 DEF Settled

\* The career of somebody whom a write is not about is as it was.
LEMMA OtherCareers ==
    ASSUME Inv, NEW e \in Editor, NEW y \in Person, y \notin op[e].person,
           CorrectWrite(e) \/ MoveWrite(e) \/ ChangeFollow(e) \/ CancelWrite(e) \/ PostWrite(e)
    PROVE  PeriodsOf(y)' = PeriodsOf(y) /\ people'[y] = people[y]
<1>1. op[e].person \subseteq Person /\ \A p, q \in op[e].person : p = q
    BY OperationFields DEF Inv, TypeOK, Subjects
<1>2. CASE CorrectWrite(e)
    <2> DEFINE row(q, a, j) == [q EXCEPT !.email = a, !.job = IF j = NoJob THEN q.job ELSE j]
    <2>1. PICK p \in op[e].person :
              \/ /\ periods' = (periods \ CoveringOf(p, op[e].at))
                                   \cup {row(q, op[e].email, op[e].job) : q \in CoveringOf(p, op[e].at)}
                 /\ \E j : people' = [people EXCEPT ![p].email = op[e].email, ![p].current = j]
              \/ UNCHANGED <<periods, people>>
        BY <1>2 DEF CorrectWrite
    <2>2. \A q \in periods : row(q, op[e].email, op[e].job).person = q.person
        BY DEF Inv, TypeOK, Period
    <2>3. CoveringOf(p, op[e].at) \subseteq periods /\ \A q \in CoveringOf(p, op[e].at) : q.person = p
        BY DEF CoveringOf, PeriodsOf
    <2> HIDE DEF row
    <2>4. PeriodsOf(y)' = PeriodsOf(y)
        BY <2>1, <2>2, <2>3 DEF PeriodsOf
    <2> QED  BY <1>1, <2>1, <2>4 DEF Inv, TypeOK
<1>3. CASE MoveWrite(e)
    <2>1. people' = people
        BY <1>3 DEF MoveWrite
    <2>2. CASE periods' = periods
        BY <2>1, <2>2 DEF PeriodsOf
    <2>3. CASE \E p \in op[e].person : \E x \in Period : MoveWrote(e, p, x)
        <3>1. PICK p \in op[e].person, x \in Period : MoveWrote(e, p, x)
            BY <2>3
        <3> DEFINE o == op[e]
                   f(q) == MovedRow(q, o.rows, o.at, people[p].email)
        <3>2. \A z : z \in periods' <=> z = x \/ \E q \in Kept(o.rows, o.at) : z = f(q)
            BY <3>1 DEF MoveWrote
        <3>3. \A q \in periods : q.person # p => q.id \notin IdsOf(o.rows)
            BY <1>1 DEF IdsOf, Inv, IdsAreHandles
        <3>4. \A q \in periods : q.person # p => f(q) = q /\ q \in Kept(o.rows, o.at)
            BY <3>3, NotMoved DEF Kept, OnDate, IdsOf
        <3>5. \A q \in periods : f(q).person = q.person
            <4>1. o.at \in Instant /\ people[p].email \in Address \cup {NoAddress} /\ periods \subseteq Period
                BY <1>1, OperationFields DEF Inv, TypeOK, PersonRow
            <4> QED  BY <4>1, MovedRowKeeps
        <3>6. Kept(o.rows, o.at) \subseteq periods /\ x.person = p
            BY <3>1 DEF Kept, MoveWrote
        <3> HIDE DEF f, o
        <3> QED  BY <2>1, <3>2, <3>4, <3>5, <3>6 DEF PeriodsOf
    <2> QED  BY <1>3, <2>2, <2>3, MoveEffect
<1>4. CASE ChangeFollow(e)
    <2>1. periods' = periods
        BY <1>4 DEF ChangeFollow
    <2>2. people'[y] = people[y]
        BY <1>4 DEF ChangeFollow, Inv, TypeOK
    <2> QED  BY <2>1, <2>2 DEF PeriodsOf
<1>5. CASE CancelWrite(e)
    <2>1. PICK s \in op[e].rows : periods' = Spliced(periods, s) \/ periods' = periods
        BY <1>5 DEF CancelWrite
    <2>2. s.person \in op[e].person /\ \A q \in periods : q.id = s.id => q.person = s.person
        BY DEF Inv, IdsAreHandles
    <2>3. \A q \in periods : [q EXCEPT !.end = s.end].person = q.person
        BY DEF Inv, TypeOK, Period
    <2>4. CASE periods' = periods
        BY <1>5, <2>4 DEF CancelWrite, PeriodsOf
    <2>5. CASE periods' = Spliced(periods, s)
        <3> DEFINE f(q) == IF q.person = s.person /\ q.end = s.start THEN [q EXCEPT !.end = s.end] ELSE q
                   old == {q \in periods : q.id # s.id}
        <3>1. periods' = {f(q) : q \in old}
            BY <2>5 DEF Spliced
        <3>2. \A q \in periods : f(q).person = q.person /\ (q.person # s.person => f(q) = q /\ q \in old)
            BY <2>2, <2>3
        <3>3. s.person # y /\ old \subseteq periods
            BY <2>2
        <3> HIDE DEF f, old
        <3>4. PeriodsOf(y)' = PeriodsOf(y)
            BY <3>1, <3>2, <3>3 DEF PeriodsOf
        <3> QED  BY <1>5, <3>4 DEF CancelWrite
    <2> QED  BY <2>1, <2>4, <2>5
<1>6. CASE PostWrite(e)
    BY <1>6 DEF PostWrite, PeriodsOf, Period0
<1> QED  BY <1>2, <1>3, <1>4, <1>5, <1>6

\* Nobody else is at work on somebody undisturbed.
LEMMA AtWorkAlone ==
    ASSUME Inv, NEW e \in Editor, NEW p \in Person \ Excepted, p \in op[e].person
    PROVE  /\ \A f \in Editor : p \in op[f].person => f = e
           /\ \A q : Coming(q, p) => op[e].step = "moved" /\ q.start = op[e].at /\ q.end = op[e].end
                                     /\ q.email = op[e].email
BY DEF Inv, Careers, Undisturbed, OneAtWork, Coming

\* A request begins: the only one at work on its person, but for a race.
LEMMA SettledBegin ==
    ASSUME Inv, Addresses, NEW e \in Editor, NEW o \in Operation, Begin(e, o),
           UNCHANGED <<now, people, periods, cut, sameDay>>, NEW p \in Person \ (raced' \cup cut' \cup sameDay'),
           o.step # "moved", Here(p) => Here(p)',
           p \in o.person /\ Agreed(p) /\ (\A q : ~Coming(q, p)) => StillAgreed(o, p)
    PROVE  Settled(p)'
<1>1. /\ op'[e] = o /\ op[e].step = "idle" /\ raced \subseteq raced'
      /\ \A f \in Editor \ {e} : op'[f] = op[f]
      /\ p \in o.person => \A f \in Editor \ {e} : p \notin op[f].person
    BY Begun DEF Inv
<1>2. Settled(p) /\ PeriodsOf(p)' = PeriodsOf(p)
    BY <1>1 DEF Addresses, PeriodsOf
<1>3. CASE p \notin o.person
    <2>1. \A f \in Editor : p \in op'[f].person => op'[f] = op[f] /\ (Here(p) => Here(p)')
        BY <1>1, <1>3
    <2>2. \A f \in Editor : op[f].step = "moved" => op'[f] = op[f]
        BY <1>1
    <2> QED  BY <1>2, <2>1, <2>2, SettledStays
<1>4. CASE p \in o.person
    <2>1. op[e].person = {}
        BY <1>1 DEF Inv, Subjects
    <2>2. \A q : ~Coming(q, p)
        BY <1>1, <1>4, <2>1 DEF Coming
    <2>3. Agreed(p)'
        BY <1>2, <2>2 DEF Settled, Agreed, Covers
    <2>4. StillAgreed(o, p)
        BY <1>2, <1>4, <2>2 DEF Settled
    <2>5. StillAgreed(o, p)'
        BY <1>2, <2>4 DEF StillAgreed, Here
    <2>6. \A f \in Editor : p \in op'[f].person => f = e
        BY <1>1, <1>4
    <2> QED  BY <1>1, <2>3, <2>5, <2>6 DEF Settled
<1> QED  BY <1>3, <1>4

LEMMA SettledBegins ==
    ASSUME Inv, Addresses, NEW e \in Editor, NEW p \in Person \ (raced' \cup cut' \cup sameDay'),
           CreateCheck(e) \/ CorrectCheck(e) \/ ChangeCheck(e) \/ CancelRead(e) \/ PostRead(e)
    PROVE  Settled(p)'
<1>1. UNCHANGED <<now, people, periods, cut, sameDay>> /\ (Here(p) => Here(p)')
    BY DEF CreateCheck, CorrectCheck, ChangeCheck, CancelRead, PostRead, Here
<1>2. \E o \in Operation : /\ Begin(e, o) /\ o.step # "moved"
                           /\ p \in o.person /\ Agreed(p) /\ (\A q : ~Coming(q, p)) => StillAgreed(o, p)
    <2>1. CASE CreateCheck(e)
        <3>1. PICK j \in Job, a \in Address, t \in Instant :
                  Begin(e, [Idle EXCEPT !.step = "create", !.job = j, !.email = a, !.at = t])
            BY <2>1 DEF CreateCheck
        <3> DEFINE o == [Idle EXCEPT !.step = "create", !.job = j, !.email = a, !.at = t]
        <3>2. o \in Operation /\ o.step = "create"
            BY IdleIsOperation DEF Operation, Steps
        <3> HIDE DEF o
        <3> QED  BY <3>1, <3>2 DEF o, StillAgreed
    <2>2. CASE CorrectCheck(e)
        <3>1. PICK x \in Person, a \in Address, j \in Job \cup {NoJob} :
                  Begin(e, [Idle EXCEPT !.step = "correct", !.person = {x}, !.job = j,
                                        !.email = a, !.at = now])
            BY <2>2 DEF CorrectCheck
        <3> DEFINE o == [Idle EXCEPT !.step = "correct", !.person = {x}, !.job = j,
                                     !.email = a, !.at = now]
        <3>2. o \in Operation /\ o.step = "correct" /\ o.at = now
            BY IdleIsOperation, Singles DEF Operation, Steps, Alone, Inv, TypeOK
        <3>3. now <= now
            BY ForeverIsLast DEF Inv, TypeOK
        <3>4. Begin(e, o)
            BY <3>1
        <3> HIDE DEF o
        <3> QED  BY <3>2, <3>3, <3>4 DEF StillAgreed, Agreed
    <2>3. CASE ChangeCheck(e)
        <3>1. PICK x \in Person, j \in Job, a \in Address, t \in Instant :
                  Begin(e, [Idle EXCEPT !.step = "change", !.person = {x}, !.job = j,
                                        !.email = a, !.at = t])
            BY <2>3 DEF ChangeCheck
        <3> DEFINE o == [Idle EXCEPT !.step = "change", !.person = {x}, !.job = j,
                                     !.email = a, !.at = t]
        <3>2. o \in Operation /\ o.step = "change"
            BY IdleIsOperation, Singles DEF Operation, Steps, Alone
        <3> HIDE DEF o
        <3> QED  BY <3>1, <3>2 DEF o, StillAgreed
    <2>4. CASE CancelRead(e)
        <3>1. PICK s \in periods :
                  /\ ~HasTakenEffect(s.start, now)
                  /\ Begin(e, [Idle EXCEPT !.step = "cancel", !.person = {s.person}, !.rows = {s}])
            BY <2>4 DEF CancelRead
        <3> DEFINE o == [Idle EXCEPT !.step = "cancel", !.person = {s.person}, !.rows = {s}]
        <3>2. s \in Period /\ s.person \in Person /\ s.start \in Nat
            BY PeriodFields DEF Inv, TypeOK
        <3>3. o \in Operation /\ o.step = "cancel" /\ o.rows = {s}
            BY <3>2, IdleIsOperation, Singles DEF Operation, Steps, Alone
        <3>4. Begin(e, o)
            BY <3>1
        <3> HIDE DEF o
        <3>5. NextDay(now) <= s.start
            BY <3>1, <3>2, Later, ForeverIsLast DEF Inv, TypeOK
        <3>6. ASSUME Agreed(p), \A q : ~Coming(q, p), NEW q \in PeriodsOf(p), q.via = "app", q.end = s.start
              PROVE  q.email \in {NoAddress, people[p].email}
            <4>1. q.start \in Nat /\ NextDay(now) \in Nat
                BY RowDates
            <4>2. q.start >= NextDay(now) \/ Covers(q, now)
                BY <3>2, <3>5, <3>6, <4>1 DEF Covers
            <4> QED  BY <3>6, <4>2 DEF Agreed
        <3> QED  BY <3>3, <3>4, <3>6 DEF StillAgreed
    <2>5. CASE PostRead(e)
        <3>1. PICK x \in Person, j \in Job, a \in Address \cup {NoAddress},
                   s \in Instant, t \in Instant \cup {Forever} :
                  Begin(e, [Idle EXCEPT !.step = "post", !.person = {x}, !.job = j,
                                        !.email = a, !.at = s, !.end = t])
            BY <2>5 DEF PostRead
        <3> DEFINE o == [Idle EXCEPT !.step = "post", !.person = {x}, !.job = j,
                                     !.email = a, !.at = s, !.end = t]
        <3>2. o \in Operation /\ o.step = "post"
            BY IdleIsOperation, Singles DEF Operation, Steps, Alone
        <3> HIDE DEF o
        <3> QED  BY <3>1, <3>2 DEF o, StillAgreed
    <2> QED  BY <2>1, <2>2, <2>3, <2>4, <2>5
<1> QED  BY <1>1, <1>2, SettledBegin

\* Those whom a write is not about, and those whom it leaves as they were.
LEMMA SettledOthers ==
    ASSUME Inv, Addresses, NEW e \in Editor, NEW p \in Person \ (raced' \cup cut' \cup sameDay'),
           raced' = raced, cut \subseteq cut', sameDay' = sameDay, now' = now,
           PeriodsOf(p)' = PeriodsOf(p), people'[p].email = people[p].email,
           \A f \in Editor \ {e} : op'[f] = op[f],
           op'[e].step \notin {"correct", "cancel", "moved"} \/ p \notin op'[e].person,
           op[e].step # "moved" \/ p \notin op[e].person,
           Here(p)' = Here(p) \/ p \in op[e].person
    PROVE  Settled(p)'
<1>1. Settled(p)
    BY DEF Addresses
<1>2. p \in op[e].person => \A f \in Editor : p \in op[f].person => f = e
    BY AtWorkAlone
<1>3. \A f \in Editor : op[f].step = "moved" /\ p \in op[f].person => op'[f] = op[f]
    OBVIOUS
<1>4. ASSUME NEW f \in Editor, p \in op'[f].person
      PROVE  \/ op'[f].step \notin {"correct", "cancel", "moved"}
             \/ op'[f] = op[f] /\ (Here(p) => Here(p)')
    BY <1>2, <1>4
<1> QED  BY <1>1, <1>3, <1>4, SettledStays

LEMMA SettledCreate ==
    ASSUME Inv, Addresses, NEW e \in Editor, NEW p \in Person \ (raced' \cup cut' \cup sameDay'), CreateWrite(e)
    PROVE  Settled(p)'
<1>1. PICK x \in Person, via \in {"app", "early"} :
          /\ people[x].state = "unborn"
          /\ \/ /\ periods' = periods \cup {Period0(x, op[e].job, op[e].at, Forever, op[e].email, via)}
                /\ people' = [people EXCEPT ![x] = [state |-> "here", email |-> op[e].email,
                                                    current |-> op[e].job]]
                /\ via = "app" => HasTakenEffect(op[e].at, now)
             \/ UNCHANGED <<periods, people>>
    BY DEF CreateWrite
<1>2. op[e].step = "create" /\ Finish(e) /\ UNCHANGED <<now, raced, cut, sameDay, spent, faults>> /\ op[e].person = {}
    BY DEF CreateWrite, Inv, Subjects
<1>3. op'[e].step = "idle" /\ op'[e].person = {} /\ \A f \in Editor \ {e} : op'[f] = op[f]
    BY <1>2, Finished, IdleIsOperation DEF Inv
<1> DEFINE new == Period0(x, op[e].job, op[e].at, Forever, op[e].email, via)
<1>4. new.person = x /\ new.start = op[e].at /\ new.email = op[e].email /\ new.via = via
    BY DEF Period0
<1> HIDE DEF new
<1>5. CASE p # x \/ UNCHANGED <<periods, people>>
    <2>1. PeriodsOf(p)' = PeriodsOf(p)
        BY <1>1, <1>4, <1>5 DEF PeriodsOf, new
    <2>2. people'[p] = people[p]
        BY <1>1, <1>5 DEF Inv, TypeOK
    <2> QED  BY <1>2, <1>3, <2>1, <2>2, SettledOthers DEF Here
<1>6. CASE p = x /\ periods' = periods \cup {new} /\ (via = "app" => HasTakenEffect(op[e].at, now))
           /\ people' = [people EXCEPT ![x] = [state |-> "here", email |-> op[e].email, current |-> op[e].job]]
    <2>1. PeriodsOf(p)' = {new} /\ people'[p].email = op[e].email
        BY <1>1, <1>4, <1>6 DEF Inv, Subjects, TypeOK, PeriodsOf
    <2>2. \A f \in Editor : p \notin op'[f].person
        BY <1>1, <1>3, <1>6 DEF Inv, Subjects
    <2>3. via = "app" => op[e].at < NextDay(now) /\ NextDay(now) \in Nat
        BY <1>6, RequestDates, Later, Calendar, ForeverIsLast DEF Inv, TypeOK
    <2>4. Agreed(p)'
        BY <1>2, <1>4, <2>1, <2>3, RequestDates DEF Agreed
    <2> QED  BY <2>2, <2>4 DEF Settled
<1> QED  BY <1>1, <1>5, <1>6 DEF new

LEMMA SettledCorrect ==
    ASSUME Inv, Addresses, NEW e \in Editor, NEW p \in Person \ (raced' \cup cut' \cup sameDay'), CorrectWrite(e)
    PROVE  Settled(p)'
<1> DEFINE o == op[e]
           row(q, a, j) == [q EXCEPT !.email = a, !.job = IF j = NoJob THEN q.job ELSE j]
<1>1. PICK x \in o.person :
          \/ /\ periods' = (periods \ CoveringOf(x, o.at))
                               \cup {row(q, o.email, o.job) : q \in CoveringOf(x, o.at)}
             /\ \E j : people' = [people EXCEPT ![x].email = o.email, ![x].current = j]
          \/ UNCHANGED <<periods, people>>
    BY DEF CorrectWrite
<1>2. o.step = "correct" /\ Finish(e) /\ UNCHANGED <<now, nextId, raced, cut, sameDay, spent, faults>>
    BY DEF CorrectWrite
<1>3. op'[e].step = "idle" /\ op'[e].person = {} /\ \A f \in Editor \ {e} : op'[f] = op[f]
    BY <1>2, Finished, IdleIsOperation DEF Inv
<1>4. CASE p \notin o.person
    <2>1. PeriodsOf(p)' = PeriodsOf(p) /\ people'[p] = people[p]
        BY <1>4, OtherCareers
    <2> QED  BY <1>2, <1>3, <2>1, SettledOthers DEF Here
<1>5. CASE UNCHANGED <<periods, people>>
    BY <1>2, <1>3, <1>5, SettledOthers DEF Here, PeriodsOf
<1>6. CASE p \in o.person /\ \E j : people' = [people EXCEPT ![x].email = o.email, ![x].current = j]
           /\ periods' = (periods \ CoveringOf(x, o.at))
                             \cup {row(q, o.email, o.job) : q \in CoveringOf(x, o.at)}
    <2>1. x = p
        BY <1>6 DEF Inv, Subjects
    <2>2. people'[p].email = o.email
        <3>1. PICK j : people' = [people EXCEPT ![p].email = o.email, ![p].current = j]
            BY <1>6, <2>1
        <3>2. people \in [Person -> PersonRow] /\ p \in Person
            BY DEF Inv, TypeOK
        <3>3. people'[p] = [people[p] EXCEPT !.email = o.email, !.current = j]
            BY <3>1, <3>2
        <3> HIDE DEF o
        <3>4. people[p] \in PersonRow
            BY <3>2
        <3> QED  BY <3>3, <3>4 DEF PersonRow
    <2>3. \A q \in periods : /\ row(q, o.email, o.job).person = q.person /\ row(q, o.email, o.job).email = o.email
                             /\ row(q, o.email, o.job).start = q.start /\ row(q, o.email, o.job).end = q.end
        BY DEF Inv, TypeOK, Period
    <2> HIDE DEF row
    <2>4. Settled(p) /\ StillAgreed(o, p) /\ \A q : ~Coming(q, p)
        BY <1>2, <1>6, AtWorkAlone DEF Addresses, Settled
    <2>5. now \in Nat /\ o.at \in Nat /\ o.at <= now /\ NextDay(o.at) <= NextDay(now)
          /\ NextDay(o.at) \in Nat /\ NextDay(now) \in Nat
        <3>1. now \in Nat /\ o.at \in Nat /\ o.at <= now
            BY <1>2, <2>4, RequestDates, ForeverIsLast DEF StillAgreed, Inv, TypeOK
        <3> QED  BY <3>1, Later, Calendar
    <2>6. \A f \in Editor : p \notin op'[f].person
        BY <1>2, <1>3, <1>6, AtWorkAlone
    <2>7. Agreed(p)'
        <3> SUFFICES ASSUME NEW y \in PeriodsOf(p)', y.via = "app"
                     PROVE  /\ y.start >= NextDay(now) => y.email = NoAddress
                            /\ Covers(y, now) => y.email \in {NoAddress, o.email}
            BY <1>2, <2>2 DEF Agreed, Covers
        <3>1. CASE \E q \in CoveringOf(p, o.at) : y = row(q, o.email, o.job)
            <4>1. PICK q \in CoveringOf(p, o.at) : y = row(q, o.email, o.job)
                BY <3>1
            <4>2. q \in PeriodsOf(p) /\ Covers(q, o.at) /\ q \in periods
                BY DEF CoveringOf, PeriodsOf
            <4>3. y.email = o.email /\ y.start = q.start
                BY <2>3, <4>1, <4>2
            <4>4. q.start \in Nat
                BY <4>2, RowDates
            <4>5. ~(y.start >= NextDay(now))
                BY <2>5, <4>2, <4>3, <4>4 DEF Covers
            <4> QED  BY <4>3, <4>5
        <3>2. CASE y \in PeriodsOf(p) /\ ~Covers(y, o.at)
            <4>1. y.start \in Nat /\ y.end \in Nat
                BY <3>2, RowDates
            <4>2. y.start >= NextDay(now) => y.email = NoAddress
                BY <2>4, <3>2 DEF Settled, Agreed
            <4>3. Covers(y, now) => y.start >= NextDay(o.at)
                BY <2>5, <3>2, <4>1 DEF Covers
            <4>4. y.start >= NextDay(o.at) => y.email = NoAddress
                BY <1>2, <2>4, <3>2 DEF StillAgreed
            <4> QED  BY <4>2, <4>3, <4>4
        <3> QED  BY <1>6, <2>1, <3>1, <3>2 DEF PeriodsOf, CoveringOf
    <2> QED  BY <2>6, <2>7 DEF Settled
<1> QED  BY <1>1, <1>4, <1>5, <1>6

LEMMA SettledCancel ==
    ASSUME Inv, Addresses, NEW e \in Editor, NEW p \in Person \ (raced' \cup cut' \cup sameDay'), CancelWrite(e)
    PROVE  Settled(p)'
<1> DEFINE o == op[e]
<1>1. PICK s \in o.rows : periods' = Spliced(periods, s) \/ periods' = periods
    BY DEF CancelWrite
<1>2. o.step = "cancel" /\ Finish(e) /\ UNCHANGED <<now, people, nextId, raced, cut, sameDay, spent, faults>>
    BY DEF CancelWrite
<1>3. op'[e].step = "idle" /\ op'[e].person = {} /\ \A f \in Editor \ {e} : op'[f] = op[f]
    BY <1>2, Finished, IdleIsOperation DEF Inv
<1>4. CASE p \notin o.person
    <2>1. PeriodsOf(p)' = PeriodsOf(p)
        BY <1>4, OtherCareers
    <2> QED  BY <1>2, <1>3, <2>1, SettledOthers DEF Here
<1>5. CASE periods' = periods
    BY <1>2, <1>3, <1>5, SettledOthers DEF Here, PeriodsOf
<1>6. CASE p \in o.person /\ periods' = Spliced(periods, s)
    <2>1. Settled(p) /\ StillAgreed(o, p) /\ \A q : ~Coming(q, p)
        BY <1>2, <1>6, AtWorkAlone DEF Addresses, Settled
    <2>2. \A f \in Editor : p \notin op'[f].person
        BY <1>2, <1>3, <1>6, AtWorkAlone
    <2>3. Agreed(p)'
        <3> SUFFICES ASSUME NEW y \in PeriodsOf(p)', y.via = "app"
                     PROVE  /\ y.start >= NextDay(now) => y.email = NoAddress
                            /\ Covers(y, now) => y.email \in {NoAddress, people[p].email}
            BY <1>2 DEF Agreed, Covers
        <3>1. PICK r \in periods :
                  y = IF r.person = s.person /\ r.end = s.start THEN [r EXCEPT !.end = s.end] ELSE r
            BY <1>6 DEF Spliced, PeriodsOf
        <3>2. r \in Period
            BY DEF Inv, TypeOK
        <3>3. /\ y.person = r.person /\ y.start = r.start /\ y.via = r.via /\ y.email = r.email
              /\ y.end = r.end \/ r.end = s.start
            BY <3>1, <3>2 DEF Period
        <3>4. r \in PeriodsOf(p)
            BY <3>3 DEF PeriodsOf
        <3>5. y.start >= NextDay(now) => y.email = NoAddress
            BY <2>1, <3>3, <3>4 DEF Settled, Agreed
        <3>6. Covers(y, now) => Covers(r, now) \/ r.end = s.start
            BY <3>3 DEF Covers
        <3>7. r.end = s.start => r.email \in {NoAddress, people[p].email}
            BY <1>2, <2>1, <3>3, <3>4 DEF StillAgreed
        <3>8. Covers(r, now) => r.email \in {NoAddress, people[p].email}
            BY <2>1, <3>3, <3>4 DEF Settled, Agreed
        <3> QED  BY <3>3, <3>5, <3>6, <3>7, <3>8
    <2> QED  BY <2>2, <2>3 DEF Settled
<1> QED  BY <1>1, <1>4, <1>5, <1>6


LEMMA AfterMoveEmail ==
    ASSUME NEW q, NEW y, NEW at, NEW a, AfterMove(q, y, at, a)
    PROVE  y.email = q.email \/ (y.email = a /\ Covers(q, now))
BY DEF AfterMove, Covers

LEMMA SettledMove ==
    ASSUME Inv, Addresses, NEW e \in Editor, NEW p \in Person \ (raced' \cup cut' \cup sameDay'), MoveWrite(e)
    PROVE  Settled(p)'
<1> DEFINE o == op[e]
<1>1. CASE Finish(e) /\ UNCHANGED <<now, people, periods, nextId, raced, cut, sameDay, spent, faults>>
    <2>1. op'[e].step = "idle" /\ \A f \in Editor \ {e} : op'[f] = op[f]
        BY <1>1, Finished, IdleIsOperation DEF Inv
    <2>2. o.step = "read"
        BY DEF MoveWrite
    <2> QED  BY <1>1, <2>1, <2>2, SettledOthers DEF Here, PeriodsOf
<1>2. CASE \E y \in o.person : \E x \in Period : MoveWrote(e, y, x)
    <2>1. PICK y \in o.person, x \in Period : MoveWrote(e, y, x)
        BY <1>2
    <2>2. /\ o.step = "read" /\ UNCHANGED <<now, people, raced, cut, sameDay, spent, faults>>
          /\ op' = [op EXCEPT ![e].step = "moved", ![e].rows = {}] /\ Here(y)
        BY <2>1 DEF MoveWrote
    <2>3. /\ op'[e].step = "moved" /\ op'[e].person = o.person /\ op'[e].at = o.at /\ op'[e].end = o.end
          /\ op'[e].email = o.email /\ \A f \in Editor \ {e} : op'[f] = op[f]
        <3>1. op'[e] = [o EXCEPT !.step = "moved", !.rows = {}] /\ o \in Operation
              /\ \A f \in Editor \ {e} : op'[f] = op[f]
            BY <2>2 DEF Inv, TypeOK
        <3> HIDE DEF o
        <3> QED  BY <3>1 DEF Operation
    <2>4. CASE p \notin o.person
        <3>1. PeriodsOf(p)' = PeriodsOf(p)
            BY <2>4, OtherCareers
        <3> QED  BY <2>2, <2>3, <2>4, <3>1, SettledOthers DEF Here
    <2>5. CASE p \in o.person
        <3>1. y = p
            BY <2>5 DEF Inv, Subjects
        <3>2. Settled(p) /\ (\A q : ~Coming(q, p)) /\ \A f \in Editor : p \in op[f].person => f = e
            BY <2>2, <2>5, AtWorkAlone DEF Addresses
        <3>3. /\ x \in PeriodsOf(p)'
              /\ \A z \in PeriodsOf(p)' : z = x \/
                     \E q \in PeriodsOf(p) : AfterMove(q, z, o.at, people[p].email)
            BY <2>1, <2>2, <3>1, MoveOfUndisturbed
        <3>4. x.start = o.at /\ x.end = o.end /\ x.email = IF Covers(x, now) THEN o.email ELSE NoAddress
            BY <2>1 DEF MoveWrote
        <3>5. \A q : q.start = o.at /\ q.end = o.end /\ q.email = o.email => Coming(q, p)'
            BY <2>3, <2>5 DEF Coming
        <3>6. x.start \in Nat /\ now \in Nat /\ NextDay(now) \in Nat
            BY PeriodFields, ForeverIsLast, Calendar DEF Inv, TypeOK
        <3>7. Agreed(p)'
            <4> SUFFICES ASSUME NEW z \in PeriodsOf(p)', z.via = "app"
                         PROVE  /\ z.start >= NextDay(now) => z.email = NoAddress
                                /\ Covers(z, now) => z.email \in {NoAddress, people[p].email} \/ Coming(z, p)'
                BY <2>2 DEF Agreed, Covers
            <4>1. CASE z = x
                <5>1. x.start >= NextDay(now) => ~Covers(x, now)
                    BY <3>6 DEF Covers
                <5> QED  BY <3>4, <3>5, <4>1, <5>1
            <4>2. CASE \E q \in PeriodsOf(p) : AfterMove(q, z, o.at, people[p].email)
                <5>1. PICK q \in PeriodsOf(p) : AfterMove(q, z, o.at, people[p].email)
                    BY <4>2
                <5>2. /\ z.start = q.start /\ q.via = "app"
                      /\ z.end = IF q.start < o.at /\ o.at < q.end THEN o.at ELSE q.end
                      /\ z.email = q.email \/ (z.email = people[p].email /\ Covers(q, now))
                    <6> HIDE DEF o
                    <6>1. z.email = q.email \/ (z.email = people[p].email /\ Covers(q, now))
                        BY <5>1, AfterMoveEmail
                    <6>2. z.start = q.start /\ q.via = "app"
                          /\ z.end = IF q.start < o.at /\ o.at < q.end THEN o.at ELSE q.end
                        BY <5>1, <4>2 DEF AfterMove
                    <6> QED  BY <6>1, <6>2
                <5>3. q.start \in Nat /\ q.end \in Nat /\ o.at \in Nat
                    BY RowDates, RequestDates
                <5>4. Covers(z, now) => Covers(q, now)
                    BY <3>6, <5>2, <5>3 DEF Covers
                <5>5. q.start >= NextDay(now) => ~Covers(q, now)
                    BY <3>6, <5>3 DEF Covers
                <5>6. /\ q.start >= NextDay(now) => q.email = NoAddress
                      /\ Covers(q, now) => q.email \in {NoAddress, people[p].email}
                    BY <3>2, <5>2 DEF Settled, Agreed
                <5> QED  BY <5>2, <5>4, <5>5, <5>6
            <4> QED  BY <3>3, <4>1, <4>2
        <3>8. StillAgreed(op[e], p)'
            BY <2>2, <2>3, <3>1, <3>3, <3>4 DEF StillAgreed, Here
        <3>9. \A f \in Editor : p \in op'[f].person => f = e
            BY <2>3, <3>2
        <3> QED  BY <3>7, <3>8, <3>9 DEF Settled
    <2> QED  BY <2>4, <2>5
<1> QED  BY <1>1, <1>2, MoveEffect

LEMMA SettledFollow ==
    ASSUME Inv, Addresses, NEW e \in Editor, NEW p \in Person \ (raced' \cup cut' \cup sameDay'), ChangeFollow(e)
    PROVE  Settled(p)'
<1> DEFINE o == op[e]
<1>1. /\ o.step = "moved" /\ Finish(e)
      /\ UNCHANGED <<now, periods, nextId, raced, cut, sameDay, spent, faults>>
    BY DEF ChangeFollow
<1>2. op'[e].step = "idle" /\ op'[e].person = {} /\ \A f \in Editor \ {e} : op'[f] = op[f]
    BY <1>1, Finished, IdleIsOperation DEF Inv
<1>3. CASE p \notin o.person
    <2>1. PeriodsOf(p)' = PeriodsOf(p) /\ people'[p] = people[p]
        BY <1>3, OtherCareers
    <2> QED  BY <1>1, <1>2, <1>3, <2>1, SettledOthers DEF Here
<1>4. CASE p \in o.person
    <2>1. Settled(p) /\ StillAgreed(o, p) /\ \A f \in Editor : p \in op[f].person => f = e
        BY <1>1, <1>4, AtWorkAlone DEF Addresses, Settled
    <2>2. \A q : Coming(q, p) => q.start = o.at /\ q.end = o.end /\ q.email = o.email
        BY <1>1, <1>4, AtWorkAlone
    <2>3. Here(p) /\ Tidy(p)
        BY <1>1, <2>1 DEF StillAgreed, Inv, Careers, Undisturbed
    <2>4. PICK r \in PeriodsOf(p) : r.start = o.at /\ r.end = o.end /\ r.email \in {NoAddress, o.email}
        BY <1>1, <2>1 DEF StillAgreed
    <2>5. \A q \in PeriodsOf(p) : q.via = "app" =>
              /\ q.start >= NextDay(now) => q.email = NoAddress
              /\ Covers(q, now) => q.email \in {NoAddress, people[p].email} \/ Coming(q, p)
        BY <2>1 DEF Settled, Agreed
    <2>6. \A f \in Editor : p \notin op'[f].person
        BY <1>2, <2>1
    <2> DEFINE due == Covers([start |-> o.at, end |-> o.end], now)
    <2>7. due <=> Covers(r, now)
        BY <2>4 DEF Covers
    <2>8. PICK x \in o.person :
              people' = IF Here(x) /\ due
                        THEN [people EXCEPT ![x].email = o.email, ![x].current = o.job] ELSE people
        BY DEF ChangeFollow
    <2>9. x = p
        BY <1>4 DEF Inv, Subjects
    <2> HIDE DEF due
    <2>10. CASE due
        <3>1. people'[p].email = o.email
            <4>1. people \in [Person -> PersonRow] /\ p \in Person
                BY DEF Inv, TypeOK
            <4>2. people'[p] = [people[p] EXCEPT !.email = o.email, !.current = o.job]
                BY <2>3, <2>8, <2>9, <2>10, <4>1
            <4> HIDE DEF o
            <4>3. people[p] \in PersonRow
                BY <4>1
            <4> QED  BY <4>2, <4>3 DEF PersonRow
        <3>2. ASSUME NEW q \in PeriodsOf(p), Covers(q, now) PROVE q = r
            <4>1. Overlap(q, r)
                BY <2>7, <2>10, <3>2, RowDates DEF Covers, Overlap
            <4> QED  BY <2>3, <4>1 DEF Tidy
        <3>3. Agreed(p)'
            BY <1>1, <2>4, <2>5, <3>1, <3>2 DEF Agreed, Covers, PeriodsOf
        <3> QED  BY <2>6, <3>3 DEF Settled
    <2>11. CASE ~due
        <3>1. people' = people
            BY <2>8, <2>11
        <3>2. ASSUME NEW q \in PeriodsOf(p), Covers(q, now) PROVE ~Coming(q, p)
            BY <2>2, <2>4, <2>7, <2>11, <3>2 DEF Covers
        <3>3. Agreed(p)'
            BY <1>1, <2>5, <3>1, <3>2 DEF Agreed, Covers, PeriodsOf
        <3> QED  BY <2>6, <3>3 DEF Settled
    <2> QED  BY <2>10, <2>11
<1> QED  BY <1>3, <1>4

LEMMA SettledPost ==
    ASSUME Inv, Addresses, NEW e \in Editor, NEW p \in Person \ (raced' \cup cut' \cup sameDay'), PostWrite(e)
    PROVE  Settled(p)'
<1> DEFINE o == op[e]
<1>1. o.step = "post" /\ Finish(e) /\ UNCHANGED <<now, people, raced, cut, sameDay, spent, faults>>
    BY DEF PostWrite
<1>2. op'[e].step = "idle" /\ op'[e].person = {} /\ \A f \in Editor \ {e} : op'[f] = op[f]
    BY <1>1, Finished, IdleIsOperation DEF Inv
<1>3. CASE p \notin o.person
    <2>1. PeriodsOf(p)' = PeriodsOf(p)
        BY <1>3, OtherCareers
    <2> QED  BY <1>1, <1>2, <1>3, <2>1, SettledOthers DEF Here
<1>4. CASE p \in o.person
    <2>1. Settled(p) /\ (\A q : ~Coming(q, p)) /\ \A f \in Editor : p \in op[f].person => f = e
        BY <1>1, <1>4, AtWorkAlone DEF Addresses
    <2>2. \A f \in Editor : p \notin op'[f].person
        BY <1>2, <2>1
    <2>3. \A y \in periods' : y \in periods \/ y.via = "api"
        BY DEF PostWrite, Period0
    <2>4. \A y \in PeriodsOf(p)' : y \in PeriodsOf(p) \/ y.via = "api"
        BY <2>3 DEF PeriodsOf
    <2>5. Agreed(p)'
        BY <1>1, <2>1, <2>4 DEF Settled, Agreed, Covers
    <2> QED  BY <2>2, <2>5 DEF Settled
<1> QED  BY <1>3, <1>4

LEMMA SettledDeletePeriod ==
    ASSUME Inv, Addresses, NEW e \in Editor, NEW p \in Person \ (raced' \cup cut' \cup sameDay'), DeletePeriod(e)
    PROVE  Settled(p)'
<1>1. PICK x \in periods : /\ op[e].step = "idle" /\ periods' = periods \ {x}
                           /\ raced' = raced \cup Contended(e, {x.person}, {})
                           /\ UNCHANGED <<now, people, nextId, op, cut, sameDay, faults>>
    BY DEF DeletePeriod
<1>2. Settled(p)
    BY <1>1 DEF Addresses
<1>3. CASE x.person # p
    <2>1. PeriodsOf(p)' = PeriodsOf(p)
        BY <1>1, <1>3 DEF PeriodsOf
    <2>2. Here(p) => Here(p)'
        BY <1>1 DEF Here
    <2> QED  BY <1>1, <1>2, <2>1, <2>2, SettledStays
<1>4. CASE x.person = p
    <2>1. p \notin Contended(e, {p}, {}) /\ op[e].person = {}
        BY <1>1, <1>4 DEF Inv, Subjects
    <2>2. \A f \in Editor : p \notin op[f].person
        BY <1>1, <2>1 DEF Contended, Inv, Subjects
    <2>3. \A q : ~Coming(q, p)
        BY <2>2 DEF Coming
    <2>4. PeriodsOf(p)' \subseteq PeriodsOf(p)
        BY <1>1 DEF PeriodsOf
    <2>5. Agreed(p)'
        BY <1>1, <1>2, <2>3, <2>4 DEF Settled, Agreed, Covers
    <2> QED  BY <1>1, <2>2, <2>5 DEF Settled
<1> QED  BY <1>3, <1>4

LEMMA SettledDeletePerson ==
    ASSUME Inv, Addresses, NEW e \in Editor, NEW p \in Person \ (raced' \cup cut' \cup sameDay'),
           DeletePersonPeriods(e)
    PROVE  Settled(p)'
<1> DEFINE r(x) == [Idle EXCEPT !.step = "delete", !.person = {x}]
<1>1. PICK x \in Person : /\ periods' = periods \ PeriodsOf(x) /\ Begin(e, r(x))
                          /\ UNCHANGED <<now, people, nextId, cut, sameDay, faults>>
    BY DEF DeletePersonPeriods
<1>2. r(x) \in Operation /\ r(x).step = "delete" /\ r(x).person = {x}
    BY IdleIsOperation, Singles DEF Operation, Steps, Alone
<1> HIDE DEF r
<1>3. /\ op'[e] = r(x) /\ raced \subseteq raced' /\ \A f \in Editor \ {e} : op'[f] = op[f]
      /\ p = x => \A f \in Editor \ {e} : p \notin op[f].person
      /\ op[e].step = "idle"
    BY <1>1, <1>2, Begun DEF Inv
<1>4. Settled(p)
    BY <1>1, <1>3 DEF Addresses
<1>5. CASE p = x
    <2>1. PeriodsOf(p)' = {}
        BY <1>1, <1>5 DEF PeriodsOf
    <2>2. \A f \in Editor : p \in op'[f].person => f = e
        BY <1>3, <1>5
    <2>3. StillAgreed(op[e], p)'
        BY <1>2, <1>3 DEF StillAgreed
    <2> QED  BY <2>1, <2>2, <2>3 DEF Settled, Agreed
<1>6. CASE p # x
    <2>1. PeriodsOf(p)' = PeriodsOf(p)
        BY <1>1, <1>6 DEF PeriodsOf
    <2>2. Here(p) => Here(p)'
        BY <1>1 DEF Here
    <2>3. \A f \in Editor : op[f].step = "moved" => op'[f] = op[f]
        BY <1>3
    <2>4. \A f \in Editor : p \in op'[f].person => op'[f] = op[f]
        BY <1>2, <1>3, <1>6
    <2> QED  BY <1>1, <1>4, <2>1, <2>2, <2>3, <2>4, SettledStays
<1> QED  BY <1>5, <1>6

\* A request ends with nothing more written to a career.
LEMMA SettledEnds ==
    ASSUME Inv, Addresses, NEW e \in Editor, NEW p \in Person \ (raced' \cup cut' \cup sameDay'),
           DeletePersonRow(e) \/ Abandon(e)
    PROVE  Settled(p)'
<1>1. /\ Finish(e) /\ UNCHANGED <<now, periods, nextId, raced, sameDay>> /\ cut \subseteq cut'
      /\ op[e].step # "moved" \/ p \notin op[e].person
    BY DEF DeletePersonRow, Abandon
<1>2. op'[e].step = "idle" /\ op'[e].person = {} /\ \A f \in Editor \ {e} : op'[f] = op[f]
    BY <1>1, Finished, IdleIsOperation DEF Inv
<1>3. PeriodsOf(p)' = PeriodsOf(p)
    BY <1>1 DEF PeriodsOf
<1>4. people'[p].email = people[p].email /\ (Here(p)' = Here(p) \/ p \in op[e].person)
    <2>1. CASE Abandon(e)
        BY <2>1 DEF Abandon, Here
    <2>2. CASE DeletePersonRow(e)
        <3>1. PICK x \in op[e].person : people' = [people EXCEPT ![x].state = "gone"] \/ people' = people
            BY <2>2 DEF DeletePersonRow
        <3>2. people \in [Person -> PersonRow]
            BY DEF Inv, TypeOK
        <3>3. CASE p # x
            <4>1. people'[p] = people[p]
                BY <3>1, <3>2, <3>3
            <4> QED  BY <4>1 DEF Here
        <3>4. CASE p = x
            <4>1. people'[p] = [people[p] EXCEPT !.state = "gone"] \/ people'[p] = people[p]
                BY <3>1, <3>2, <3>4
            <4> QED  BY <3>2, <3>4, <4>1 DEF PersonRow
        <3> QED  BY <3>3, <3>4
    <2> QED  BY <2>1, <2>2
<1> QED  BY <1>1, <1>2, <1>3, <1>4, SettledOthers

\* A request goes on to read, or time passes.
LEMMA SettledRest ==
    ASSUME Inv, Addresses, NEW p \in Person \ (raced' \cup cut' \cup sameDay'),
           Tick \/ UNCHANGED vars \/ \E e \in Editor : MoveRead(e)
    PROVE  Settled(p)'
<1>1. UNCHANGED <<people, periods, raced, cut>> /\ sameDay \subseteq sameDay' /\ (now' = now \/ now' = now + 1)
    BY DEF Tick, vars, MoveRead
<1>2. Settled(p) /\ PeriodsOf(p)' = PeriodsOf(p) /\ (Here(p) => Here(p)')
    BY <1>1 DEF Addresses, PeriodsOf, Here
<1>3. CASE Tick \/ UNCHANGED vars
    <2>1. op' = op
        BY <1>3 DEF Tick, vars
    <2> QED  BY <1>1, <1>2, <2>1, SettledStays
<1>4. CASE \E e \in Editor : MoveRead(e)
    <2>1. PICK e \in Editor : MoveRead(e)
        BY <1>4
    <2>2. PICK x, y : op' = [op EXCEPT ![e].step = "read", ![e].rows = x, ![e].end = y]
        BY <2>1 DEF MoveRead
    <2>3. op[e].step = "change" /\ op \in [Editor -> Operation]
        BY <2>1 DEF MoveRead, Inv, TypeOK
    <2>4. op'[e].step = "read" /\ \A f \in Editor \ {e} : op'[f] = op[f]
        <3>1. op'[e] = [op[e] EXCEPT !.step = "read", !.rows = x, !.end = y] /\ op[e] \in Operation
              /\ \A f \in Editor \ {e} : op'[f] = op[f]
            BY <2>2, <2>3
        <3> QED  BY <3>1 DEF Operation
    <2>5. \A f \in Editor : op[f].step = "moved" /\ p \in op[f].person => op'[f] = op[f]
        BY <2>3, <2>4
    <2>6. \A f \in Editor : p \in op'[f].person =>
              \/ op'[f].step \notin {"correct", "cancel", "moved"}
              \/ op'[f] = op[f] /\ (Here(p) => Here(p)')
        BY <1>2, <2>4
    <2> QED  BY <1>1, <1>2, <2>5, <2>6, SettledStays
<1> QED  BY <1>3, <1>4

LEMMA AddressesNext == ASSUME Inv, Addresses, [Next]_vars PROVE Addresses'
<1> SUFFICES ASSUME NEW p \in Person \ (raced' \cup cut' \cup sameDay') PROVE Settled(p)'
    BY DEF Addresses
<1>1. ASSUME NEW e \in Editor,
             \/ CreateCheck(e) \/ CorrectCheck(e) \/ ChangeCheck(e) \/ CancelRead(e) \/ PostRead(e)
      PROVE  Settled(p)'
    BY <1>1, SettledBegins
<1>2. ASSUME NEW e \in Editor, CreateWrite(e) \/ CorrectWrite(e) \/ MoveWrite(e) \/ ChangeFollow(e)
      PROVE  Settled(p)'
    BY <1>2, SettledCreate, SettledCorrect, SettledMove, SettledFollow
<1>3. ASSUME NEW e \in Editor, CancelWrite(e) \/ PostWrite(e)
      PROVE  Settled(p)'
    BY <1>3, SettledCancel, SettledPost
<1>4. ASSUME NEW e \in Editor,
             DeletePeriod(e) \/ DeletePersonPeriods(e) \/ DeletePersonRow(e) \/ Abandon(e)
      PROVE  Settled(p)'
    BY <1>4, SettledDeletePeriod, SettledDeletePerson, SettledEnds
<1>5. ASSUME Tick \/ UNCHANGED vars \/ \E e \in Editor : MoveRead(e) PROVE Settled(p)'
    BY <1>5, SettledRest
<1> QED  BY <1>1, <1>2, <1>3, <1>4, <1>5 DEF Next

\* The row and the job agree on the address: a period that the application opened
\* or corrected and that covers today has the person's current address or none,
\* unless a change of theirs was cut short between its two writes, raced, or fell
\* on a day on which a period began or ended later.
THEOREM AddressesStayAgreed == Spec => []AddressesAgree
<1>1. Init => Addresses
    <2> SUFFICES ASSUME Init, NEW p \in Person PROVE Settled(p)
        BY DEF Addresses
    <2>1. PeriodsOf(p) = {} /\ \A e \in Editor : p \notin op[e].person
        BY IdleIsOperation DEF Init, PeriodsOf
    <2> QED  BY <2>1 DEF Settled, Agreed
<1>2. Addresses => AddressesAgree
    <2> SUFFICES ASSUME Addresses, NEW p \in Person \ (raced \cup cut \cup sameDay),
                        \A e \in Editor : p \notin op[e].person,
                        NEW q \in CoveringOf(p, now), q.via = "app"
                 PROVE  q.email \in {NoAddress, people[p].email}
        BY DEF AddressesAgree
    <2>1. Agreed(p) /\ q \in PeriodsOf(p) /\ Covers(q, now)
        BY DEF Addresses, Settled, CoveringOf
    <2> QED  BY <2>1 DEF Agreed, Coming
<1> QED  BY <1>1, <1>2, AddressesNext, CareersHold, PTL DEF Spec
=============================================================================
