---------------------------- MODULE Briefs_proofs ----------------------------
(***************************************************************************)
(* Concurrent writers of briefs lose nothing but what comes while one of   *)
(* them is writing and what the caps on evidence leave out (module Briefs).*)
(*                                                                         *)
(* That a brief accounts for everything older than itself is not inductive:*)
(* a brief is dated when it is inserted, long after its evidence was read, *)
(* so the invariant says what each writer's evidence is good for on the way*)
(* there.                                                                  *)
(***************************************************************************)
EXTENDS Briefs, FiniteSetTheorems, TLAPS

(* The records are described by their fields only: the scopes of the cycle *)
(* come out of SelectSeq, which the provers cannot look into, so that a    *)
(* writer's scope is not assumed to be one.                                *)
Shaped(j) == DOMAIN j = DOMAIN Idle

Dates ==
    /\ now \in Nat
    /\ came \in [Item -> Nat]
    /\ \A s \in Scope : brief[s].at \in Nat /\ brief[s].at <= now

Shapes ==
    /\ brief = [s \in Scope |-> brief[s]]
    /\ told = [s \in Scope |-> told[s]]
    /\ left = [s \in Scope |-> left[s]]
    /\ job = [w \in Writer |-> job[w]]
    /\ \A w \in Writer : Shaped(job[w])

(* What some brief of the scope told or left out, or came while one was    *)
(* being written.                                                          *)
Known(s) == told[s] \cup missed[s] \cup left[s]

(* A writer about to gather goes by the date of a brief that accounts for  *)
(* what is older; one that has gathered accounts for all there is by now.  *)
Covers(j) ==
    /\ j.at = "gather" =>
           /\ j.since \in Nat /\ j.since <= now
           /\ \A i \in About(j.scope) : came[i] < j.since => i \in Known(j.scope)
    /\ j.at = "ask" =>
           \A i \in About(j.scope) : i \in j.evidence \cup Known(j.scope)

Accounts(j) == j.scope \in Scope => Covers(j)

Inv ==
    /\ Dates
    /\ Shapes
    /\ LostOnlyWhileWriting
    /\ \A w \in Writer : Accounts(job[w])

LEMMA Newer == ASSUME Dates, NEW s \in Scope, NEW i \in Item PROVE came[i] \in Nat /\ brief[s].at \in Nat
BY DEF Dates

LEMMA AboutItems == ASSUME NEW s PROVE About(s) \subseteq Item
BY DEF About, Here

(* What does not get in although it is in the window has as many documents *)
(* before it as there is room for.                                         *)
LEMMA LeftOutIsBeyond ==
    ASSUME NEW s, NEW since, NEW n \in Nat, NEW kept \in Newest(Window(s, since), n),
           NEW i \in Window(s, since) \ kept
    PROVE  i \in BeyondRoom(s, n)
<1>0. PICK docs, better : /\ docs = Window(s, since)
                          /\ better = {j \in About(s) \ {i} : came[j] >= came[i]}
  OBVIOUS
<1>1. /\ docs \subseteq About(s) /\ i \in docs \ kept /\ kept \subseteq docs
      /\ Cardinality(kept) = IF n < Cardinality(docs) THEN n ELSE Cardinality(docs)
      /\ \A j \in kept : came[j] >= came[i]
  BY <1>0 DEF Newest, Window
<1>2. IsFiniteSet(About(s)) /\ IsFiniteSet(docs) /\ IsFiniteSet(better)
  BY <1>0, <1>1, ScopeAssumption, AboutItems, FS_Subset
<1>3. kept \subseteq better
  BY <1>0, <1>1
<1>4. Cardinality(kept) # Cardinality(docs)
  BY <1>1, <1>2, FS_Subset
<1>5. Cardinality(kept) = n
  BY <1>1, <1>4
<1>6. Cardinality(kept) <= Cardinality(better) /\ Cardinality(better) \in Nat
  BY <1>2, <1>3, FS_Subset, FS_CardinalityType
<1>7. Cardinality(better) >= n
  BY <1>5, <1>6
<1> QED BY <1>0, <1>1, <1>7 DEF BeyondRoom

(* A step that moves one writer on, and may put more on record as left out.*)
LEMMA MovesOn ==
    ASSUME Inv, NEW w \in Writer, NEW j, job' = [job EXCEPT ![w] = j], Shaped(j), Accounts(j)',
           UNCHANGED <<now, came, brief, told, missed>>,
           left' = [s \in Scope |-> left'[s]], \A s \in Scope : left[s] \subseteq left'[s]
    PROVE  Inv'
<1>1. job' = [x \in Writer |-> IF x = w THEN j ELSE job[x]]
  BY DEF Inv, Shapes
<1>2. Dates' /\ Shapes'
  BY <1>1 DEF Inv, Dates, Shapes, Shaped
<1>3. /\ \A s \in Scope : Known(s) \subseteq Known(s)'
      /\ \A s : About(s)' = About(s)
  BY DEF Known, About, Here
<1>4. LostOnlyWhileWriting'
  BY <1>3 DEF Inv, LostOnlyWhileWriting, Known
<1>5. ASSUME NEW x \in Writer PROVE Accounts(job[x])'
  <2>1. CASE x = w
    BY <1>1, <2>1
  <2>2. CASE x # w
    <3>1. PICK k : k = job[x]
      OBVIOUS
    <3>2. job'[x] = k /\ Accounts(k)
      BY <1>1, <2>2, <3>1 DEF Inv
    <3>3. Accounts(k)'
      BY <1>3, <3>2 DEF Accounts, Covers
    <3> QED BY <3>2, <3>3
  <2> QED BY <2>1, <2>2
<1> QED BY <1>2, <1>4, <1>5 DEF Inv

LEMMA IdleAccounts == Shaped(Idle) /\ Accounts(Idle) /\ Accounts(Idle)'
BY DEF Shaped, Accounts, Covers, Idle

LEMMA FreeKeeps ==
    ASSUME Inv, NEW w \in Writer, Free(w), UNCHANGED <<now, came, brief, told, missed, left>>
    PROVE  Inv'
<1>1. left' = [s \in Scope |-> left'[s]] /\ \A s \in Scope : left[s] \subseteq left'[s]
  BY DEF Inv, Shapes
<1> QED BY <1>1, IdleAccounts, MovesOn DEF Free

(* Begin: the date taken is that of a brief that accounts for what is      *)
(* older, or of the first window, and what is older than it is left out.   *)
LEMMA BeginKeeps ==
    ASSUME Inv, NEW w \in Writer, NEW s, Begin(w, s),
           UNCHANGED <<now, came, brief, told, missed>>
    PROVE  Inv'
<1>0. PICK j : j = [Idle EXCEPT !.at = "gather", !.scope = s, !.since = WindowStart(s)]
  OBVIOUS
<1>1. Shaped(j) /\ j.at = "gather" /\ j.scope = s /\ j.since = WindowStart(s)
  BY <1>0 DEF Shaped, Idle
<1>2. job' = [job EXCEPT ![w] = j]
  BY <1>0 DEF Begin
<1>3. s \in Scope => WindowStart(s) \in Nat /\ WindowStart(s) <= now
  BY BoundAssumption DEF WindowStart, Inv, Dates, Never
<1>4. left' = [x \in Scope |-> left'[x]] /\ \A x \in Scope : left[x] \subseteq left'[x]
  BY DEF Begin, Inv, Shapes
<1>5. ASSUME s \in Scope, NEW i \in About(s), came[i] < j.since PROVE i \in Known(s)'
  <2>1. CASE Missing(s)
    <3>1. i \in left'[s]
      BY <1>1, <1>5, <2>1 DEF Begin, Inv, Shapes
    <3> QED BY <3>1 DEF Known
  <2>2. CASE ~Missing(s)
    <3>1. came[i] < brief[s].at
      BY <1>1, <1>5, <2>2 DEF WindowStart
    <3> QED BY <1>4, <1>5, <3>1 DEF Inv, LostOnlyWhileWriting, Known
  <2> QED BY <2>1, <2>2
<1>6. Accounts(j)'
  BY <1>1, <1>3, <1>5 DEF Accounts, Covers, About, Here
<1> QED BY <1>1, <1>2, <1>4, <1>6, MovesOn

(* Gather: the window holds whatever is not older than the date taken, and *)
(* what has no room in the evidence is on record as left out.              *)
LEMMA GatherKeeps == ASSUME Inv, NEW w \in Writer, Gather(w) PROVE Inv'
<1>a. PICK b, s : b = job[w] /\ s = b.scope
  OBVIOUS
<1>b. PICK n \in Room : \E evidence \in Newest(Window(s, b.since), n) :
          /\ job' = [job EXCEPT ![w].at = "ask", ![w].evidence = evidence,
                                ![w].print = IF s \in Program THEN plan[s] ELSE 0]
          /\ left' = [left EXCEPT ![s] = @ \cup BeyondRoom(s, n)]
  BY <1>a DEF Gather
<1>c. PICK evidence \in Newest(Window(s, b.since), n) :
          /\ job' = [job EXCEPT ![w].at = "ask", ![w].evidence = evidence,
                                ![w].print = IF s \in Program THEN plan[s] ELSE 0]
          /\ left' = [left EXCEPT ![s] = @ \cup BeyondRoom(s, n)]
  BY <1>b
<1>d. PICK j : j = [b EXCEPT !.at = "ask", !.evidence = evidence,
                             !.print = IF s \in Program THEN plan[s] ELSE 0]
  OBVIOUS
<1>e. job' = [job EXCEPT ![w] = j]
  BY <1>a, <1>c, <1>d DEF Inv, Shapes
<1>0. /\ b = job[w] /\ s = b.scope
      /\ evidence \in Newest(Window(s, b.since), n)
      /\ j = [b EXCEPT !.at = "ask", !.evidence = evidence,
                       !.print = IF s \in Program THEN plan[s] ELSE 0]
      /\ left' = [left EXCEPT ![s] = @ \cup BeyondRoom(s, n)]
  BY <1>a, <1>c, <1>d
<1>1. b.at = "gather" /\ Shaped(b) /\ Accounts(b) /\ UNCHANGED <<now, came, brief, told, missed>>
  BY <1>0 DEF Gather, Inv, Shapes, content
<1>2. Shaped(j) /\ j.at = "ask" /\ j.scope = s /\ j.evidence = evidence
  BY <1>0, <1>1 DEF Shaped, Idle
<1>3. /\ left' = [x \in Scope |-> left'[x]]
      /\ \A x \in Scope : left[x] \subseteq left'[x]
      /\ s \in Scope => BeyondRoom(s, n) \subseteq left'[s]
  BY <1>0 DEF Inv, Shapes
<1>4. Accounts(j)'
  <2> SUFFICES ASSUME s \in Scope, NEW i \in About(s) PROVE i \in evidence \cup Known(s)'
    BY <1>1, <1>2 DEF Accounts, Covers, About, Here
  <2>1. /\ b.since \in Nat /\ came[i] \in Nat
        /\ came[i] < b.since => i \in Known(s)
    BY <1>0, <1>1, AboutItems DEF Accounts, Covers, Inv, Dates
  <2>2. Known(s) \subseteq Known(s)'
    BY <1>1, <1>3 DEF Known
  <2>3. CASE came[i] >= b.since
    <3>1. i \in Window(s, b.since)
      BY <2>3 DEF Window
    <3>2. i \in evidence \/ i \in BeyondRoom(s, n)
      BY <1>0, <3>1, ScopeAssumption, LeftOutIsBeyond
    <3> QED BY <1>3, <3>2 DEF Known
  <2> QED BY <2>1, <2>2, <2>3
<1> QED BY <1>e, <1>1, <1>2, <1>3, <1>4, MovesOn

(* Insert: the brief is dated now, and its writer accounts for all there is.*)
LEMMA InsertKeeps == ASSUME Inv, NEW w \in Writer, Insert(w), UNCHANGED content PROVE Inv'
<1>0. PICK b, s, row : b = job[w] /\ s = b.scope /\ row = [at |-> now, print |-> b.print]
  OBVIOUS
<1>1. b.at = "ask" /\ Accounts(b)
  BY <1>0 DEF Insert, Inv
<1>2. /\ UNCHANGED <<now, came, missed, left>>
      /\ job' = [x \in Writer |-> IF x = w THEN Idle ELSE job[x]]
      /\ brief' = [x \in Scope |-> IF x = s THEN row ELSE brief[x]]
      /\ told' = [x \in Scope |-> IF x = s THEN told[x] \cup b.evidence ELSE told[x]]
  BY <1>0 DEF Insert, Free, content, Inv, Shapes
<1>3. \A x \in Scope : Known(x) \subseteq Known(x)'
  BY <1>2 DEF Known
<1>4. s \in Scope => \A i \in About(s) : i \in Known(s)'
  BY <1>0, <1>1, <1>2 DEF Accounts, Covers, Known
<1>5. \A x : About(x)' = About(x)
  BY <1>2 DEF About, Here
<1>6. Dates'
  BY <1>0, <1>2 DEF Inv, Dates
<1>7. Shapes'
  BY <1>2, IdleAccounts DEF Inv, Shapes, Shaped
<1>8. LostOnlyWhileWriting'
  <2> SUFFICES ASSUME NEW x \in Scope, NEW i \in About(x), came[i] < brief'[x].at
               PROVE  i \in Known(x)'
    BY <1>2, <1>5 DEF LostOnlyWhileWriting, Known
  <2>1. CASE x = s
    BY <1>4, <2>1
  <2>2. CASE x # s
    BY <1>2, <1>3, <2>2 DEF Inv, LostOnlyWhileWriting, Known
  <2> QED BY <2>1, <2>2
<1>9. ASSUME NEW x \in Writer PROVE Accounts(job[x])'
  <2>0. PICK k : k = job[x]
    OBVIOUS
  <2>1. CASE x = w
    BY <1>2, <2>1 DEF Accounts, Covers, Idle
  <2>2. CASE x # w
    <3>1. job'[x] = k /\ Accounts(k)
      BY <1>2, <2>0, <2>2 DEF Inv
    <3>2. k.scope \in Scope => Covers(k)
      BY <3>1 DEF Accounts
    <3> QED BY <1>2, <1>3, <1>5, <3>1, <3>2 DEF Accounts, Covers
  <2> QED BY <2>1, <2>2
<1> QED BY <1>6, <1>7, <1>8, <1>9 DEF Inv

(* What comes is newer than every brief and every date taken, and is on    *)
(* record as missed wherever somebody has gathered already.                *)
LEMMA ArriveKeeps == ASSUME Inv, NEW i \in Item, Arrive(i) PROVE Inv'
<1>1. /\ UNCHANGED <<now, brief, job, told, left>> /\ now \in Nat
      /\ came' = [x \in Item |-> IF x = i THEN now ELSE came[x]]
      /\ missed' = [s \in Scope |-> IF BeingWritten(s) THEN missed[s] \cup {i} ELSE missed[s]]
  BY DEF Arrive, Inv, Dates
<1>2. \A s \in Scope : Known(s) \subseteq Known(s)' /\ (BeingWritten(s) => i \in Known(s)')
  BY <1>1 DEF Known
<1>3. \A s : About(s)' \subseteq About(s) \cup {i}
  BY <1>1 DEF About, Here
<1>4. Dates' /\ Shapes'
  BY <1>1 DEF Inv, Dates, Shapes
<1>5. LostOnlyWhileWriting'
  <2> SUFFICES ASSUME NEW s \in Scope, NEW x \in About(s)', came'[x] < brief[s].at
               PROVE  x \in Known(s)'
    BY <1>1 DEF LostOnlyWhileWriting, Known
  <2>1. brief[s].at \in Nat /\ brief[s].at <= now
    BY DEF Inv, Dates
  <2>2. x # i /\ x \in About(s) /\ came'[x] = came[x]
    BY <1>1, <1>3, <2>1, AboutItems
  <2> QED BY <1>2, <2>2 DEF Inv, LostOnlyWhileWriting, Known
<1>6. ASSUME NEW w \in Writer PROVE Accounts(job[w])'
  <2>0. PICK j, s : j = job[w] /\ s = j.scope
    OBVIOUS
  <2>1. job'[w] = j /\ Accounts(j)
    BY <1>1, <2>0 DEF Inv
  <2>2. j.at = "ask" => BeingWritten(s)
    BY <2>0 DEF BeingWritten
  <2> SUFFICES ASSUME s \in Scope PROVE Covers(j)'
    BY <2>0, <2>1 DEF Accounts
  <2>3. Covers(j)
    BY <2>0, <2>1 DEF Accounts
  <2>4. ASSUME j.at = "gather", NEW x \in About(s)', came'[x] < j.since
        PROVE  x \in Known(s)'
    <3>1. j.since \in Nat /\ j.since <= now
      BY <2>3, <2>4 DEF Covers
    <3>2. x # i /\ x \in About(s) /\ came'[x] = came[x]
      BY <1>1, <1>3, <2>4, <3>1, AboutItems
    <3> QED BY <1>2, <2>0, <2>3, <2>4, <3>2 DEF Covers
  <2>5. ASSUME j.at = "ask", NEW x \in About(s)'
        PROVE  x \in j.evidence \cup Known(s)'
    BY <1>2, <1>3, <2>0, <2>2, <2>3, <2>5 DEF Covers
  <2> QED BY <1>1, <2>0, <2>3, <2>4, <2>5 DEF Covers
<1> QED BY <1>4, <1>5, <1>6 DEF Inv

LEMMA InvNext == Inv /\ [Next]_vars => Inv'
<1> SUFFICES ASSUME Inv, [Next]_vars PROVE Inv'
  OBVIOUS
<1>1. ASSUME UNCHANGED <<now, came, brief, job, told, missed, left>> PROVE Inv'
  BY <1>1 DEF Inv, Dates, Shapes, LostOnlyWhileWriting, Accounts, Covers, About, Here, Known
<1>2. CASE Elapse
  <2>1. now' = now + 1 /\ now \in Nat /\ UNCHANGED <<came, brief, job, told, missed, left>>
    BY <1>2 DEF Elapse, ghosts, Inv, Dates
  <2>2. Dates' /\ Shapes' /\ LostOnlyWhileWriting'
    BY <2>1 DEF Inv, Dates, Shapes, LostOnlyWhileWriting, About, Here
  <2>3. ASSUME NEW w \in Writer PROVE Accounts(job[w])'
    BY <2>1 DEF Inv, Accounts, Covers, About, Here, Known
  <2> QED BY <2>2, <2>3 DEF Inv
<1>3. CASE Outside
  BY <1>1, <1>2, <1>3, ArriveKeeps DEF Outside, Replan, ghosts
<1>4. Cron \in Writer /\ \A u \in User : u \in Writer
  BY DEF Writer
<1>5. ASSUME NEW u \in User, PanelStep(u) PROVE Inv'
  <2> USE <1>4 DEF content, ghosts
  <2>1. CASE \E s \in Scope : Regenerate(u, s)
    BY <2>1, BeginKeeps DEF Regenerate
  <2>2. CASE PanelInsert(u)
    BY <2>2, InsertKeeps DEF PanelInsert
  <2>3. CASE PanelFails(u)
    BY <2>3, FreeKeeps DEF PanelFails
  <2> QED BY <1>5, <2>1, <2>2, <2>3, GatherKeeps DEF PanelStep
<1>6. CASE CycleStep
  <2> USE <1>4 DEF content, ghosts
  <2>1. CASE StartCycle \/ HitCap
    BY <1>1, <2>1 DEF StartCycle, HitCap
  <2>2. CASE NextScope
    BY <2>2, BeginKeeps DEF NextScope
  <2>3. CASE CycleInsert
    BY <2>3, InsertKeeps DEF CycleInsert
  <2> QED BY <1>6, <2>1, <2>2, <2>3, GatherKeeps DEF CycleStep
<1>7. CASE CycleFails
  BY <1>4, <1>7, FreeKeeps DEF CycleFails, content, ghosts
<1>8. CASE UNCHANGED vars
  BY <1>1, <1>8 DEF vars, content, ghosts
<1> QED BY <1>3, <1>5, <1>6, <1>7, <1>8 DEF Next

LEMMA InvHolds == Spec => []Inv
<1>1. Init => Inv
  BY BoundAssumption, IdleAccounts
  DEF Init, Inv, Dates, Shapes, LostOnlyWhileWriting, About, Here, Never
<1> QED BY <1>1, InvNext, PTL DEF Spec

(* Whatever is older than the newest brief of a scope was told by it or by *)
(* an earlier one, or came while one was being written, or was left out for*)
(* want of room or by the window of a first brief: for any number of       *)
(* panels, scopes and documents, any caps, and whatever the order in which *)
(* the briefs are inserted.                                                *)
THEOREM NothingElseIsLost == Spec => []LostOnlyWhileWriting
<1>1. Inv => LostOnlyWhileWriting
  BY DEF Inv
<1> QED BY <1>1, InvHolds, PTL
=============================================================================
