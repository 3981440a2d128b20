-------------------------- MODULE RefreshCycle_proofs --------------------------
(* Theorems about RefreshCycle, for every number of workers, documents and *)
(* sources, for every budget and every bound.                              *)
EXTENDS RefreshCycle, FiniteSetTheorems, TLAPS

-----------------------------------------------------------------------------
(* Cycles that overlap.  "At most one more than the lost connections" is   *)
(* not inductive: a step needs to know that the holder of the lock is one  *)
(* of the running cycles, and that the others each cost a connection.      *)

Shaped(c) == DOMAIN c = DOMAIN Idle

CyclesAreShaped ==
    /\ cycle = [w \in Worker |-> cycle[w]]
    /\ \A w \in Worker : Shaped(cycle[w])

StraysCostADrop ==
    /\ lock \in Worker \cup {None}
    /\ drops \in Nat
    /\ IsFiniteSet(Running)
    /\ lock # None => lock \in Running
    /\ Cardinality(Running \ {lock}) <= drops

OverlapInv == CyclesAreShaped /\ StraysCostADrop

(* A step of a running cycle that neither ends it nor touches the lock. *)
LEMMA GoesOn ==
    ASSUME OverlapInv, NEW w \in Worker, NEW c, ~At(w, "idle"), Become(w, c), Shaped(c),
           c.at # "idle", UNCHANGED <<lock, drops>>
    PROVE  OverlapInv'
<1>1. cycle' = [x \in Worker |-> IF x = w THEN c ELSE cycle[x]]
  BY DEF Become, OverlapInv, CyclesAreShaped
<1>2. CyclesAreShaped'
  BY <1>1 DEF CyclesAreShaped, OverlapInv, Shaped
<1>3. Running' = Running
  BY <1>1 DEF Running, At
<1> QED BY <1>2, <1>3 DEF OverlapInv, StraysCostADrop

(* The end of a cycle, by itself or not. *)
LEMMA Ends ==
    ASSUME OverlapInv, NEW w \in Worker, ~At(w, "idle"), Become(w, Idle), Unlock(w),
           UNCHANGED drops
    PROVE  OverlapInv'
<1>1. cycle' = [x \in Worker |-> IF x = w THEN Idle ELSE cycle[x]]
  BY DEF Become, OverlapInv, CyclesAreShaped
<1>2. CyclesAreShaped'
  BY <1>1 DEF CyclesAreShaped, OverlapInv, Shaped
<1>3. Running' = Running \ {w}
  BY <1>1 DEF Running, At, Idle
<1>4. IsFiniteSet(Running') /\ IsFiniteSet(Running \ {lock})
  BY <1>3, FS_Subset DEF OverlapInv, StraysCostADrop
<1>5. Running' \ {lock'} \subseteq Running \ {lock}
  BY <1>3, LockAssumption DEF Unlock, OverlapInv, StraysCostADrop, Running
<1>6. Cardinality(Running' \ {lock'}) <= Cardinality(Running \ {lock})
  BY <1>4, <1>5, FS_Subset
<1>7. Cardinality(Running \ {lock}) \in Nat /\ Cardinality(Running' \ {lock'}) \in Nat
  BY <1>4, <1>5, FS_Subset, FS_CardinalityType
<1>8. Cardinality(Running' \ {lock'}) <= drops'
  BY <1>6, <1>7 DEF OverlapInv, StraysCostADrop
<1>9. lock' \in Worker \cup {None} /\ (lock' # None => lock' \in Running')
  BY <1>3 DEF Unlock, OverlapInv, StraysCostADrop
<1> QED BY <1>2, <1>4, <1>8, <1>9 DEF OverlapInv, StraysCostADrop

(* A tick that gets the lock: until then every running cycle was a stray.  *)
LEMMA Ticks ==
    ASSUME OverlapInv, NEW w \in Worker, Tick(w)
    PROVE  OverlapInv'
<1> DEFINE c == [Idle EXCEPT !.at = "drive", !.todo = Sweep,
                             !.unknown = {d \in DriveDoc : drive[d] \in {"blank", "new"}}]
<1>0. Shaped(c) /\ c.at = "drive"
  BY DEF Shaped, Idle
<1>1. cycle' = [x \in Worker |-> IF x = w THEN c ELSE cycle[x]]
  BY DEF Tick, Become, OverlapInv, CyclesAreShaped
<1>2. CyclesAreShaped'
  BY <1>0, <1>1 DEF CyclesAreShaped, OverlapInv, Shaped
<1>3. Running' = Running \cup {w} /\ w \notin Running
  BY <1>0, <1>1 DEF Running, At, Tick
<1>4. lock = None /\ lock' = w /\ drops' = drops
  BY DEF Tick, counters
<1>5. Running' \ {lock'} = Running \ {lock}
  BY <1>3, <1>4, LockAssumption DEF Running
<1>6. IsFiniteSet(Running')
  BY <1>3, FS_AddElement DEF OverlapInv, StraysCostADrop
<1>7. Cardinality(Running' \ {lock'}) <= drops'
  BY <1>4, <1>5 DEF OverlapInv, StraysCostADrop
<1> QED BY <1>2, <1>3, <1>4, <1>6, <1>7 DEF OverlapInv, StraysCostADrop

(* A lost connection makes the holder a stray and is counted. *)
LEMMA Drops ==
    ASSUME OverlapInv, NEW w \in Worker, DropConnection(w)
    PROVE  OverlapInv'
<1>1. CyclesAreShaped' /\ Running' = Running
  BY DEF DropConnection, CyclesAreShaped, OverlapInv, Running, At
<1>2. lock = w /\ lock' = None /\ drops' = drops + 1
  BY DEF DropConnection
<1>3. /\ IsFiniteSet(Running) /\ w \in Running /\ Cardinality(Running \ {w}) <= drops
      /\ drops \in Nat
  BY <1>2, LockAssumption DEF OverlapInv, StraysCostADrop
<1>4. Cardinality(Running \ {w}) = Cardinality(Running) - 1 /\ Cardinality(Running) \in Nat
  BY <1>3, FS_RemoveElement, FS_CardinalityType
<1>5. Running' \ {lock'} = Running
  BY <1>1, <1>2, LockAssumption DEF Running
<1>6. Cardinality(Running' \ {lock'}) <= drops' /\ drops' \in Nat
  BY <1>2, <1>3, <1>4, <1>5
<1> QED BY <1>1, <1>2, <1>3, <1>6 DEF OverlapInv, StraysCostADrop

(* The steps within a cycle are steps of that kind. *)
LEMMA WorksOn ==
    ASSUME OverlapInv, NEW w \in Worker,
           Discover(w) \/ RefreshDoc(w) \/ DriveOverBudget(w) \/ WebPage(w) \/ CheckWeb(w)
               \/ WebBroken(w) \/ RecordCycle(w) \/ WriteBrief(w) \/ DriveFails(w)
               \/ DriveQuota(w) \/ WebFails(w) \/ WebQuota(w) \/ BriefFails(w)
    PROVE  OverlapInv'
<1> DEFINE c == cycle[w]
<1>0. DOMAIN c = DOMAIN Idle /\ "at" \in DOMAIN c
  BY DEF OverlapInv, CyclesAreShaped, Shaped, Idle
<1>1. CASE Discover(w)
  <2> DEFINE p == PassHead(c)
             n == [p EXCEPT !.spent = @ + 1, !.found = @ + 1, !.used = @ + 3]
  <2>1. c.at = "drive" /\ (Become(w, n) \/ Become(w, p)) /\ UNCHANGED <<lock, drops>>
    BY <1>1 DEF Discover, Sweeping, At, counters
  <2>2. Shaped(p) /\ p.at = c.at /\ Shaped(n) /\ n.at = c.at
    BY <1>0 DEF Shaped, PassHead
  <2> QED BY <2>1, <2>2, GoesOn DEF At
<1>2. CASE RefreshDoc(w)
  <2> DEFINE n(k) == [PassHead(c) EXCEPT !.spent = @ + 1, !.used = @ + k]
  <2>1. c.at = "drive" /\ (Become(w, n(2)) \/ Become(w, n(0))) /\ UNCHANGED <<lock, drops>>
    BY <1>2 DEF RefreshDoc, Sweeping, At, counters
  <2>2. \A k : Shaped(n(k)) /\ n(k).at = c.at
    BY <1>0 DEF Shaped, PassHead
  <2> QED BY <2>1, <2>2, GoesOn DEF At
<1>3. CASE DriveOverBudget(w)
  <2> DEFINE n == [c EXCEPT !.todo = <<>>, !.demand = @ + Len(c.todo), !.passed = @ + Len(c.todo)]
  <2>1. c.at = "drive" /\ Become(w, n) /\ UNCHANGED <<lock, drops>>
    BY <1>3 DEF DriveOverBudget, At, counters
  <2>2. Shaped(n) /\ n.at = c.at
    BY <1>0 DEF Shaped
  <2> QED BY <2>1, <2>2, GoesOn DEF At
<1>4. CASE WebPage(w)
  <2> DEFINE n(page, over, passed) ==
                 [c EXCEPT !.at = "web", !.unknown = {}, !.page = page, !.over = over,
                           !.passed = @ + passed]
  <2>1. /\ c.at = "drive" /\ UNCHANGED <<lock, drops>>
        /\ \E page, over, passed : Become(w, n(page, over, passed))
    BY <1>4 DEF WebPage, At, counters
  <2>2. \A page, over, passed : Shaped(n(page, over, passed)) /\ n(page, over, passed).at = "web"
    BY <1>0 DEF Shaped
  <2> QED BY <2>1, <2>2, GoesOn DEF At
<1>5. CASE CheckWeb(w)
  <2> DEFINE p == [c EXCEPT !.page = Tail(@)]
             n(k) == [p EXCEPT !.distilled = @ + k, !.used = @ + 2]
  <2>1. /\ c.at = "web" /\ UNCHANGED <<lock, drops>>
        /\ Become(w, p) \/ \E k : Become(w, n(k))
    BY <1>5 DEF CheckWeb, Checking, At, counters
  <2>2. Shaped(p) /\ p.at = c.at /\ \A k : Shaped(n(k)) /\ n(k).at = c.at
    BY <1>0 DEF Shaped
  <2> QED BY <2>1, <2>2, GoesOn DEF At
<1>6. CASE WebBroken(w) \/ WebFails(w)
  <2> DEFINE n == [c EXCEPT !.page = Tail(@)]
  <2>1. c.at = "web" /\ Become(w, n) /\ UNCHANGED <<lock, drops>>
    BY <1>6 DEF WebBroken, WebFails, Checking, At, counters
  <2>2. Shaped(n) /\ n.at = c.at
    BY <1>0 DEF Shaped
  <2> QED BY <2>1, <2>2, GoesOn DEF At
<1>7. CASE WebQuota(w)
  <2> DEFINE n == [c EXCEPT !.page = <<>>, !.quota = TRUE, !.passed = @ + Len(c.page)]
  <2>1. c.at = "web" /\ Become(w, n) /\ UNCHANGED <<lock, drops>>
    BY <1>7 DEF WebQuota, Checking, At
  <2>2. Shaped(n) /\ n.at = c.at
    BY <1>0 DEF Shaped
  <2> QED BY <2>1, <2>2, GoesOn DEF At
<1>8. CASE RecordCycle(w)
  <2> DEFINE n(k) == [c EXCEPT !.at = "brief", !.briefs = k, !.demand = 0, !.over = 0,
                               !.passed = 0, !.quota = FALSE]
  <2>1. /\ c.at = "web" /\ UNCHANGED <<lock, drops>>
        /\ \E k : Become(w, n(k))
    BY <1>8 DEF RecordCycle, Recording, At, counters
  <2>2. \A k : Shaped(n(k)) /\ n(k).at = "brief"
    BY <1>0 DEF Shaped
  <2> QED BY <2>1, <2>2, GoesOn DEF At
<1>9. CASE WriteBrief(w)
  <2> DEFINE n(k) == [c EXCEPT !.briefs = @ - 1, !.asked = @ + k, !.used = @ + k]
  <2>1. /\ c.at = "brief" /\ UNCHANGED <<lock, drops>>
        /\ \E k : Become(w, n(k))
    BY <1>9 DEF WriteBrief, At, counters
  <2>2. \A k : Shaped(n(k)) /\ n(k).at = c.at
    BY <1>0 DEF Shaped
  <2> QED BY <2>1, <2>2, GoesOn DEF At
<1>10. CASE BriefFails(w)
  <2> DEFINE n == [c EXCEPT !.briefs = @ - 1]
  <2>1. c.at = "brief" /\ Become(w, n) /\ UNCHANGED <<lock, drops>>
    BY <1>10 DEF BriefFails, At
  <2>2. Shaped(n) /\ n.at = c.at
    BY <1>0 DEF Shaped
  <2> QED BY <2>1, <2>2, GoesOn DEF At
<1>11. CASE DriveFails(w)
  <2> DEFINE n == PassHead(c)
  <2>1. c.at = "drive" /\ Become(w, n) /\ UNCHANGED <<lock, drops>>
    BY <1>11 DEF DriveFails, Sweeping, At
  <2>2. Shaped(n) /\ n.at = c.at
    BY <1>0 DEF Shaped, PassHead
  <2> QED BY <2>1, <2>2, GoesOn DEF At
<1>12. CASE DriveQuota(w)
  <2> DEFINE n == [PassHead(c) EXCEPT !.todo = <<>>, !.quota = TRUE,
                                      !.passed = @ + Len(c.todo)]
  <2>1. c.at = "drive" /\ Become(w, n) /\ UNCHANGED <<lock, drops>>
    BY <1>12 DEF DriveQuota, Sweeping, At
  <2>2. Shaped(n) /\ n.at = c.at
    BY <1>0 DEF Shaped, PassHead
  <2> QED BY <2>1, <2>2, GoesOn DEF At
<1> QED BY <1>1, <1>2, <1>3, <1>4, <1>5, <1>6, <1>7, <1>8, <1>9, <1>10, <1>11, <1>12

LEMMA OverlapInit == Init => OverlapInv
<1> SUFFICES ASSUME Init PROVE OverlapInv
  OBVIOUS
<1>1. CyclesAreShaped
  BY DEF Init, CyclesAreShaped, Shaped
<1>2. Running = {} /\ Running \ {lock} = {}
  BY DEF Init, Running, At, Idle
<1> QED BY <1>1, <1>2, FS_EmptySet DEF Init, OverlapInv, StraysCostADrop

LEMMA OverlapNext == OverlapInv /\ [Next]_vars => OverlapInv'
<1> SUFFICES ASSUME OverlapInv, [Next]_vars PROVE OverlapInv'
  OBVIOUS
<1>1. ASSUME UNCHANGED <<lock, cycle, drops>> PROVE OverlapInv'
  BY <1>1 DEF OverlapInv, CyclesAreShaped, StraysCostADrop, Running, At
<1>2. CASE World
  BY <1>1, <1>2 DEF World, Share, EditDoc, Restamp, Touch, EditPage, BecomeDue, Change, counters
<1>3. ASSUME NEW w \in Worker, Continue(w) PROVE OverlapInv'
  <2>1. CASE CycleDone(w)
    BY <2>1, Ends DEF CycleDone, At, counters
  <2> QED BY <1>3, <2>1, WorksOn DEF Continue
<1>4. ASSUME NEW w \in Worker, GoesWrong(w) PROVE OverlapInv'
  <2>1. CASE Abort(w)
    BY <2>1, Ends DEF Abort
  <2> QED BY <1>4, <2>1, WorksOn, Drops DEF GoesWrong
<1>5. CASE UNCHANGED vars
  BY <1>1, <1>5 DEF vars, counters
<1> QED BY <1>2, <1>3, <1>4, <1>5, Ticks DEF Next

(* However many ticks there are, cycles overlap only as far as connections *)
(* that held the lock were lost: a cycle that starts with no connection    *)
(* lost runs alone until it ends, is killed, or loses its own connection.  *)
THEOREM OverlapCostsAConnection == Spec => []OverlapNeedsADrop
<1>1. OverlapInv => OverlapNeedsADrop
  <2> SUFFICES ASSUME OverlapInv PROVE Cardinality(Running) <= 1 + drops
    BY DEF OverlapNeedsADrop
  <2>1. /\ IsFiniteSet(Running) /\ drops \in Nat
        /\ Cardinality(Running \ {lock}) <= drops
    BY DEF OverlapInv, StraysCostADrop
  <2>2. Cardinality(Running) \in Nat
    BY <2>1, FS_CardinalityType
  <2>3. CASE lock \in Running
    <3>1. Cardinality(Running \ {lock}) = Cardinality(Running) - 1
      BY <2>1, <2>3, FS_RemoveElement
    <3> QED BY <2>1, <2>2, <3>1
  <2>4. CASE lock \notin Running
    <3>1. Running \ {lock} = Running
      BY <2>4
    <3> QED BY <2>1, <2>2, <3>1
  <2> QED BY <2>3, <2>4
<1> QED BY <1>1, OverlapInit, OverlapNext, PTL DEF Spec

-----------------------------------------------------------------------------
(* What a cycle owes the allowance and the drain alarm.  Neither property  *)
(* is inductive: the allowance needs to know how far each stage may still  *)
(* go, the alarm that demand is never behind what was spent.               *)

Sequenced(s) == \E S : s \in Seq(S)

Counts(c) ==
    /\ c.demand \in Nat /\ c.spent \in Nat /\ c.found \in Nat /\ c.over \in Nat
    /\ c.distilled \in Nat /\ c.asked \in Nat /\ c.passed \in Nat /\ c.used \in Nat
    /\ c.spent <= Budget

(* What was used is paid for, and what is left to do can be.               *)
Paid(c) ==
    /\ c.at \in {"idle", "drive", "web", "brief"}
    /\ c.at = "idle" => c.used = 0
    /\ c.at = "drive" => c.used <= 2 * c.spent + c.found /\ c.distilled = 0 /\ c.asked = 0
    /\ c.at = "web" => /\ c.used <= 2 * (c.spent + c.distilled) + c.found /\ c.asked = 0
                       /\ c.spent + c.distilled + Len(c.page) <= Budget /\ Sequenced(c.page)
    /\ c.at = "brief" => /\ c.used <= 2 * (c.spent + c.distilled) + c.found + c.asked
                         /\ c.spent + c.distilled <= Budget
                         /\ c.asked <= 2 * Budget - 2 * (c.spent + c.distilled)

(* What was passed over is in the backlog, or a quota error is on record.  *)
Flagged(c) ==
    /\ c.at = "drive" => c.over = 0
    /\ c.at \in {"drive", "web"} =>
           /\ c.spent <= c.demand
           /\ c.passed = 0 \/ c.quota \/ c.spent < c.demand \/ c.over > 0

Booked(c) == Shaped(c) /\ Counts(c) /\ Paid(c) /\ Flagged(c)

Books == cycle = [w \in Worker |-> cycle[w]] /\ \A w \in Worker : Booked(cycle[w])

LEMMA Bounds == Budget \in Nat /\ MaxSummaryRequests \in Nat
BY BoundAssumption

LEMMA KeepsBooks ==
    ASSUME Books, NEW w \in Worker, NEW c, Become(w, c), Booked(c)
    PROVE  Books'
<1>1. cycle' = [x \in Worker |-> IF x = w THEN c ELSE cycle[x]]
  BY DEF Become, Books
<1> HIDE DEF Booked
<1> QED BY <1>1 DEF Books

LEMMA Drained ==
    ASSUME NEW s, Sequenced(s), s # <<>>
    PROVE  Sequenced(Tail(s)) /\ Len(Tail(s)) \in Nat /\ Len(s) = Len(Tail(s)) + 1
BY DEF Sequenced

LEMMA Listed ==
    ASSUME NEW s, NEW n \in Nat
    PROVE  Sequenced(SubSeq(s, 1, n)) /\ Len(SubSeq(s, 1, n)) = n
<1>1. Len(SubSeq(s, 1, n)) = n
  OBVIOUS
<1> DEFINE S == {s[i] : i \in 1 .. n}
<1>2. SubSeq(s, 1, n) \in Seq(S)
  OBVIOUS
<1> QED BY <1>1, <1>2 DEF Sequenced

LEMMA IdleBooked == Booked(Idle)
BY Bounds DEF Booked, Shaped, Counts, Paid, Flagged, Idle

(* Stage one: a document is counted before it is paid for. *)
LEMMA DiscoverBooks == ASSUME Books, NEW w \in Worker, Discover(w) PROVE Books'
<1> DEFINE c == cycle[w]
           p == PassHead(c)
           n == [p EXCEPT !.spent = @ + 1, !.found = @ + 1, !.used = @ + 3]
<1>1. Booked(c) /\ Budget \in Nat
  BY Bounds DEF Books
<1>2. c.at = "drive" /\ c.spent < Budget /\ (Become(w, n) \/ Become(w, p))
  BY DEF Discover, Sweeping, At
<1> HIDE DEF c
<1>3. Booked(p)
  BY <1>1, <1>2 DEF PassHead, Booked, Shaped, Counts, Paid, Flagged, Idle
<1> HIDE DEF p
<1>4. Booked(n)
  <2>1. /\ p.at = "drive" /\ p.spent < Budget /\ p.spent < p.demand
        /\ (p.passed = 0 \/ p.quota \/ p.spent + 1 < p.demand \/ p.over > 0)
    BY <1>1, <1>2 DEF p, PassHead, Booked, Shaped, Counts, Paid, Flagged, Idle
  <2>2. Shaped(n)
    BY <1>3 DEF Booked, Shaped, Idle
  <2>3. /\ n.at = p.at /\ n.spent = p.spent + 1 /\ n.found = p.found + 1 /\ n.used = p.used + 3
        /\ n.demand = p.demand /\ n.over = p.over /\ n.distilled = p.distilled
        /\ n.asked = p.asked /\ n.passed = p.passed /\ n.quota = p.quota
    BY <1>3 DEF Booked, Shaped, Idle
  <2> HIDE DEF n
  <2>4. Counts(n)
    BY <1>1, <1>3, <2>1, <2>3 DEF Booked, Counts
  <2>5. Paid(n)
    BY <1>3, <2>1, <2>3 DEF Booked, Counts, Paid
  <2>6. Flagged(n)
    BY <1>3, <2>1, <2>3 DEF Booked, Counts, Flagged
  <2> QED BY <2>2, <2>4, <2>5, <2>6 DEF Booked
<1> HIDE DEF n
<1> QED BY <1>2, <1>3, <1>4, KeepsBooks

LEMMA RefreshDocBooks == ASSUME Books, NEW w \in Worker, RefreshDoc(w) PROVE Books'
<1> DEFINE c == cycle[w]
           n(k) == [PassHead(c) EXCEPT !.spent = @ + 1, !.used = @ + k]
<1>1. Booked(c) /\ Budget \in Nat
  BY Bounds DEF Books
<1>2. c.at = "drive" /\ c.spent < Budget /\ (Become(w, n(2)) \/ Become(w, n(0)))
  BY DEF RefreshDoc, Sweeping, At
<1> HIDE DEF c
<1>3. Booked(n(0)) /\ Booked(n(2))
  BY <1>1, <1>2 DEF PassHead, Booked, Shaped, Counts, Paid, Flagged, Idle
<1> HIDE DEF n
<1> QED BY <1>2, <1>3, KeepsBooks

LEMMA DriveStopsBooks ==
    ASSUME Books, NEW w \in Worker, DriveFails(w) \/ DriveQuota(w) \/ DriveOverBudget(w)
    PROVE  Books'
<1> DEFINE c == cycle[w]
           quota == [PassHead(c) EXCEPT !.todo = <<>>, !.quota = TRUE, !.passed = @ + Len(c.todo)]
           over == [c EXCEPT !.todo = <<>>, !.demand = @ + Len(c.todo), !.passed = @ + Len(c.todo)]
<1>1. Booked(c) /\ Budget \in Nat
  BY Bounds DEF Books
<1>2. c.at = "drive" /\ Len(c.todo) \in Nat
  BY DEF DriveFails, DriveQuota, DriveOverBudget, Sweeping, At
<1>3. Become(w, PassHead(c)) \/ Become(w, quota) \/ (Len(c.todo) > 0 /\ Become(w, over))
  BY DEF DriveFails, DriveQuota, DriveOverBudget
<1> HIDE DEF c
<1>4. Booked(PassHead(c))
  BY <1>1, <1>2 DEF PassHead, Booked, Shaped, Counts, Paid, Flagged, Idle
<1>5. Booked(quota)
  BY <1>1, <1>2 DEF PassHead, Booked, Shaped, Counts, Paid, Flagged, Idle
<1>6. Len(c.todo) > 0 => Booked(over)
  BY <1>1, <1>2 DEF Booked, Shaped, Counts, Paid, Flagged, Idle
<1> HIDE DEF quota, over
<1> QED BY <1>3, <1>4, <1>5, <1>6, KeepsBooks

(* Stage two: a page no longer than the sweep left room for. *)
LEMMA WebPageBooks == ASSUME Books, NEW w \in Worker, WebPage(w) PROVE Books'
<1> DEFINE c == cycle[w]
           listed == SelectSeq(queue, Watched)
           k == Least(Remaining(Budget, c.spent), Len(listed))
           n == [c EXCEPT !.at = "web", !.unknown = {}, !.page = SubSeq(listed, 1, k),
                          !.over = Len(listed) - k, !.passed = @ + (Len(listed) - k)]
<1>1. Booked(c) /\ Budget \in Nat
  BY Bounds DEF Books
<1>2. c.at = "drive" /\ Become(w, n)
  BY DEF WebPage, At
<1>3. /\ Len(listed) \in Nat /\ k \in Nat /\ k <= Len(listed)
      /\ c.spent + k <= Budget
  BY <1>1 DEF Booked, Counts, Least, Remaining
<1> HIDE DEF c, listed, k
<1>4. Sequenced(SubSeq(listed, 1, k)) /\ Len(SubSeq(listed, 1, k)) = k
  BY <1>3, Listed
<1> DEFINE q == SubSeq(listed, 1, k)
<1> HIDE DEF q
<1>5. Booked(n)
  <2>1. Shaped(n)
    BY <1>1 DEF Booked, Shaped, Idle
  <2>2. /\ n.at = "web" /\ n.page = q /\ n.over = Len(listed) - k
        /\ n.passed = c.passed + (Len(listed) - k)
        /\ n.spent = c.spent /\ n.found = c.found /\ n.used = c.used /\ n.demand = c.demand
        /\ n.distilled = c.distilled /\ n.asked = c.asked /\ n.quota = c.quota
    BY <1>1 DEF q, Booked, Shaped, Idle
  <2>3. Len(n.page) = k /\ Sequenced(n.page)
    BY <1>4, <2>2 DEF q
  <2> HIDE DEF n
  <2>4. Counts(n)
    BY <1>1, <1>3, <2>2 DEF Booked, Counts
  <2>5. Paid(n)
    BY <1>1, <1>2, <1>3, <2>2, <2>3 DEF Booked, Counts, Paid
  <2>6. Flagged(n)
    BY <1>1, <1>2, <1>3, <2>2 DEF Booked, Counts, Flagged
  <2> QED BY <2>1, <2>4, <2>5, <2>6 DEF Booked
<1> HIDE DEF n
<1> QED BY <1>2, <1>5, KeepsBooks

LEMMA CheckBooks ==
    ASSUME Books, NEW w \in Worker, CheckWeb(w) \/ WebBroken(w) \/ WebFails(w) \/ WebQuota(w)
    PROVE  Books'
<1> DEFINE c == cycle[w]
           next == [c EXCEPT !.page = Tail(@)]
           paid == [next EXCEPT !.distilled = @ + 1, !.used = @ + 2]
           quota == [c EXCEPT !.page = <<>>, !.quota = TRUE, !.passed = @ + Len(c.page)]
<1>1. Booked(c) /\ Budget \in Nat
  BY Bounds DEF Books
<1>2. c.at = "web" /\ c.page # <<>>
  BY DEF CheckWeb, WebBroken, WebFails, WebQuota, Checking, At
<1>3. Become(w, next) \/ Become(w, paid) \/ Become(w, quota)
  BY DEF CheckWeb, WebBroken, WebFails, WebQuota, Tally
<1> HIDE DEF c
<1>4. /\ Sequenced(Tail(c.page)) /\ Len(Tail(c.page)) \in Nat /\ Len(c.page) = Len(Tail(c.page)) + 1
      /\ Sequenced(<<>>) /\ Len(<<>>) = 0
  BY <1>1, <1>2, Drained DEF Booked, Paid, Sequenced
<1>5. Booked(next)
  BY <1>1, <1>2, <1>4 DEF Booked, Shaped, Counts, Paid, Flagged, Idle
<1>6. Booked(paid)
  <2>1. Shaped(paid)
    BY <1>5 DEF Booked, Shaped, Idle
  <2>2. /\ paid.at = "web" /\ paid.distilled = c.distilled + 1 /\ paid.used = c.used + 2
        /\ paid.page = Tail(c.page) /\ paid.spent = c.spent /\ paid.found = c.found
        /\ paid.demand = c.demand /\ paid.over = c.over /\ paid.asked = c.asked
        /\ paid.passed = c.passed /\ paid.quota = c.quota
    BY <1>1, <1>2 DEF Booked, Shaped, Idle
  <2>3. Len(paid.page) + 1 = Len(c.page) /\ Len(paid.page) \in Nat /\ Sequenced(paid.page)
    BY <1>4, <2>2
  <2> HIDE DEF paid
  <2>4. Counts(paid)
    BY <1>1, <2>2 DEF Booked, Counts
  <2>5. /\ c.used <= 2 * (c.spent + c.distilled) + c.found /\ c.asked = 0
        /\ c.spent + c.distilled + Len(c.page) <= Budget
        /\ c.used \in Nat /\ c.spent \in Nat /\ c.distilled \in Nat /\ c.found \in Nat
        /\ Len(c.page) \in Nat
    BY <1>1, <1>2, <1>4 DEF Booked, Counts, Paid
  <2>7. paid.used <= 2 * (paid.spent + paid.distilled) + paid.found /\ paid.asked = 0
    BY <2>2, <2>5
  <2>8. paid.spent + paid.distilled + Len(paid.page) <= Budget
    BY <1>1, <2>2, <2>3, <2>5
  <2>9. Paid(paid)
    BY <2>2, <2>3, <2>7, <2>8 DEF Paid
  <2>6. Flagged(paid)
    BY <1>1, <1>2, <2>2 DEF Booked, Flagged
  <2> QED BY <2>1, <2>4, <2>9, <2>6 DEF Booked
<1>7. Booked(quota)
  BY <1>1, <1>2, <1>4 DEF Booked, Shaped, Counts, Paid, Flagged, Idle
<1> HIDE DEF next, paid, quota
<1> QED BY <1>3, <1>5, <1>6, <1>7, KeepsBooks

(* Stages three and four: what the row has recorded is reset, and briefs   *)
(* are asked for within what the first two stages left.                    *)
LEMMA RecordBooks == ASSUME Books, NEW w \in Worker, RecordCycle(w) PROVE Books'
<1> DEFINE c == cycle[w]
           n(k) == [c EXCEPT !.at = "brief", !.briefs = k, !.demand = 0, !.over = 0, !.passed = 0,
                             !.quota = FALSE]
<1>1. Booked(c) /\ Budget \in Nat
  BY Bounds DEF Books
<1>2. c.at = "web" /\ \E k : Become(w, n(k))
  BY DEF RecordCycle, Recording, At
<1> HIDE DEF c
<1>3. c.spent + c.distilled <= Budget
  BY <1>1, <1>2 DEF Booked, Counts, Paid
<1>4. \A k : Booked(n(k))
  BY <1>1, <1>2, <1>3 DEF Booked, Shaped, Counts, Paid, Flagged, Idle
<1> HIDE DEF n
<1> QED BY <1>2, <1>4, KeepsBooks

LEMMA BriefBooks == ASSUME Books, NEW w \in Worker, WriteBrief(w) \/ BriefFails(w) PROVE Books'
<1> DEFINE c == cycle[w]
           n(k) == [c EXCEPT !.briefs = @ - 1, !.asked = @ + k, !.used = @ + k]
           failed == [c EXCEPT !.briefs = @ - 1]
<1>1. Booked(c) /\ Budget \in Nat /\ MaxSummaryRequests \in Nat
  BY Bounds DEF Books
<1>2. c.at = "brief" /\ Affordable(c) >= 1
  BY DEF WriteBrief, BriefFails, At
<1>3. (\E k \in 0 .. Least(2, Affordable(c)) : Become(w, n(k))) \/ Become(w, failed)
  BY DEF WriteBrief, BriefFails
<1> HIDE DEF c
<1>4. ASSUME NEW k \in 0 .. Least(2, Affordable(c)) PROVE Booked(n(k))
  <2>1. k \in Nat /\ c.asked + k <= 2 * Budget - 2 * (c.spent + c.distilled)
    BY <1>1, <1>2 DEF Booked, Counts, Paid, Affordable, RequestCap, Remaining, Least
  <2> DEFINE m == n(k)
  <2>2. Shaped(m)
    BY <1>1 DEF Booked, Shaped, Idle
  <2>3. /\ m.at = "brief" /\ m.asked = c.asked + k /\ m.used = c.used + k
        /\ m.spent = c.spent /\ m.found = c.found /\ m.demand = c.demand /\ m.over = c.over
        /\ m.distilled = c.distilled /\ m.passed = c.passed
    BY <1>1, <1>2 DEF Booked, Shaped, Idle
  <2> HIDE DEF m
  <2>4. Counts(m)
    BY <1>1, <2>1, <2>3 DEF Booked, Counts
  <2>5. Paid(m)
    BY <1>1, <1>2, <2>1, <2>3 DEF Booked, Counts, Paid
  <2>6. Flagged(m)
    BY <2>3 DEF Flagged
  <2> QED BY <2>2, <2>4, <2>5, <2>6 DEF Booked, m
<1>5. Booked(failed)
  BY <1>1, <1>2 DEF Booked, Shaped, Counts, Paid, Flagged, Idle
<1> HIDE DEF n, failed
<1> QED BY <1>3, <1>4, <1>5, KeepsBooks

LEMMA TickBooks == ASSUME Books, NEW w \in Worker, Tick(w) PROVE Books'
<1> DEFINE n(todo, unknown) == [Idle EXCEPT !.at = "drive", !.todo = todo, !.unknown = unknown]
<1>1. \E todo, unknown : Become(w, n(todo, unknown))
  BY DEF Tick
<1>2. \A todo, unknown : Booked(n(todo, unknown))
  BY Bounds DEF Booked, Shaped, Counts, Paid, Flagged, Idle
<1> HIDE DEF n
<1> QED BY <1>1, <1>2, KeepsBooks

LEMMA BooksNext == Books /\ [Next]_vars => Books'
<1> SUFFICES ASSUME Books, [Next]_vars PROVE Books'
  OBVIOUS
<1>1. ASSUME UNCHANGED cycle PROVE Books'
  BY <1>1 DEF Books
<1>2. CASE World
  BY <1>1, <1>2 DEF World, Share, EditDoc, Restamp, Touch, EditPage, BecomeDue
<1>3. ASSUME NEW w \in Worker, CycleDone(w) \/ Abort(w) PROVE Books'
  BY <1>3, IdleBooked, KeepsBooks DEF CycleDone, Abort
<1>4. ASSUME NEW w \in Worker, DropConnection(w) PROVE Books'
  BY <1>1, <1>4 DEF DropConnection
<1>5. ASSUME NEW w \in Worker, Continue(w) PROVE Books'
  BY <1>3, <1>5, DiscoverBooks, RefreshDocBooks, DriveStopsBooks, WebPageBooks, CheckBooks,
     RecordBooks, BriefBooks DEF Continue
<1>6. ASSUME NEW w \in Worker, GoesWrong(w) PROVE Books'
  BY <1>3, <1>4, <1>6, DriveStopsBooks, CheckBooks, BriefBooks DEF GoesWrong
<1>7. CASE UNCHANGED vars
  BY <1>1, <1>7 DEF vars
<1> QED BY <1>2, <1>5, <1>6, <1>7, TickBooks DEF Next

LEMMA BooksHold == Spec => []Books
<1>1. Init => Books
  BY IdleBooked DEF Init, Books
<1> QED BY <1>1, BooksNext, PTL DEF Spec

(* Whatever was shared, edited or due, and whatever failed, the work of a  *)
(* cycle that succeeds stays within twice the budget in requests, and one  *)
(* more for the classification of each document it discovered.             *)
THEOREM SpendingStaysWithin == Spec => []SpendWithinAllowance
<1>1. Books => SpendWithinAllowance
  <2> SUFFICES ASSUME NEW c, Booked(c) PROVE c.used <= 2 * Budget + c.found
    BY DEF SpendWithinAllowance, Books
  <2>1. Booked(c) /\ Budget \in Nat
    BY Bounds
  <2>2. /\ c.used \in Nat /\ c.spent \in Nat /\ c.distilled \in Nat /\ c.found \in Nat
        /\ c.asked \in Nat /\ c.spent <= Budget
    BY <2>1 DEF Booked, Counts
  <2>3. CASE c.at = "idle"
    BY <2>1, <2>2, <2>3 DEF Booked, Paid
  <2>7. CASE c.at = "drive"
    BY <2>1, <2>2, <2>7 DEF Booked, Paid
  <2>4. CASE c.at = "web"
    <3>1. Len(c.page) \in Nat
      OBVIOUS
    <3>2. /\ c.used <= 2 * (c.spent + c.distilled) + c.found
          /\ c.spent + c.distilled + Len(c.page) <= Budget
      BY <2>1, <2>4 DEF Booked, Paid
    <3>3. c.spent + c.distilled <= Budget
      BY <2>1, <2>2, <3>1, <3>2
    <3> QED BY <2>1, <2>2, <3>2, <3>3
  <2>5. CASE c.at = "brief"
    BY <2>1, <2>2, <2>5 DEF Booked, Paid
  <2>6. c.at \in {"idle", "drive", "web", "brief"}
    BY <2>1 DEF Booked, Paid
  <2> QED BY <2>3, <2>4, <2>5, <2>6, <2>7
<1> QED BY <1>1, BooksHold, PTL

(* A cycle that is about to record neither a backlog nor a quota stop has  *)
(* passed over nothing that demanded work.                                 *)
THEOREM BacklogIsNeverSilent == Spec => []NoSilentBacklog
<1>1. Books => NoSilentBacklog
  <2> SUFFICES ASSUME Books, NEW w \in Worker, Recording(w), Backlog(cycle[w]) = 0, ~cycle[w].quota
               PROVE  cycle[w].passed = 0
    BY DEF NoSilentBacklog
  <2> DEFINE c == cycle[w]
  <2>1. Booked(c) /\ c.at = "web" /\ Backlog(c) = 0 /\ ~c.quota
    BY DEF Books, Recording, At
  <2> HIDE DEF c
  <2>2. c.passed = 0
    BY <2>1 DEF Booked, Counts, Flagged, Backlog, Remaining
  <2> QED BY <2>2 DEF c
<1> QED BY <1>1, BooksHold, PTL
=============================================================================
