-------------------------- MODULE Escalation_proofs --------------------------
(* Theorems about Escalation: for any number of requests, escalations,       *)
(* partners, programs and threads.                                           *)
EXTENDS Escalation, FiniteSetTheorems, TLAPS

USE DEF NoId

-----------------------------------------------------------------------------
(* What the values are made of. *)

LEMMA LocalFields ==
    ASSUME NEW l \in Local
    PROVE  /\ l.step \in {"revise", "ingest", "save"} => l.thread \in Thread
           /\ l.step = "save" => l.about \in About
           /\ l.step = "raise" => l.thread \in Thread \cup {NoThread}
           /\ l.step = "create" => l.thread \in Thread \cup {NoThread} /\ l.about \in About
           /\ l.step = "edit" => l.id \in Id /\ l.before \in Person \cup {NoOne}
           /\ l.step = "status" =>
                 l.id \in Id /\ l.status \in Status /\ l.original \in Id \cup {NoId}
           /\ l.step = "announce" => l.id \in Id
           /\ l.step = "record" => l.id \in Id /\ l.outcome \in Outcome
           /\ l.step = "delete" => l.partner \in Partner /\ l.only \in SUBSET Id
           /\ l.step = "erase" =>
                 l.program \in Program /\ l.gone \in SUBSET Id /\ l.only \in SUBSET Id
BY DEF Local

LEMMA IdleIsLocal == Idle \in Local /\ Idle.step = "idle"
BY DEF Idle, Local

LEMMA ForgottenIsLocal ==
    ASSUME NEW l \in Local, NEW ts
    PROVE  /\ Forgotten(l, ts) \in Local
           /\ l.step \notin {"raise", "revise", "create"} => Forgotten(l, ts) = l
           /\ l.step = "raise" => Forgotten(l, ts).step = "raise"
           /\ l.step \in {"revise", "create"} => Forgotten(l, ts) \in {l, Idle}
<1>1. CASE l.step = "raise"
    <2>1. l \in [step : {"raise"}, thread : Thread \cup {NoThread}]
        BY <1>1 DEF Local
    <2>2. [l EXCEPT !.thread = NoThread] \in [step : {"raise"}, thread : Thread \cup {NoThread}]
        BY <2>1
    <2>3. [l EXCEPT !.thread = NoThread] \in Local /\ [l EXCEPT !.thread = NoThread].step = "raise"
        BY <2>2 DEF Local
    <2>4. Forgotten(l, ts) \in {l, [l EXCEPT !.thread = NoThread]}
        BY <1>1 DEF Forgotten
    <2> QED  BY <1>1, <2>3, <2>4
<1>2. CASE l.step \in {"revise", "create"}
    BY <1>2, IdleIsLocal DEF Forgotten
<1>3. CASE l.step \notin {"raise", "revise", "create"}
    BY <1>3 DEF Forgotten
<1> QED  BY <1>1, <1>2, <1>3

LEMMA LosesSubjects ==
    ASSUME NEW a \in About, NEW ss
    PROVE  a \ ss \in About
BY DEF About, AtMostOne

LEMMA OneIsAbout ==
    /\ {} \in About
    /\ \A s \in Subject : {s} \in About
BY DEF About, AtMostOne

LEMMA FreshIsRow ==
    ASSUME NEW about \in About, NEW kind \in {"chat", "manual"}, NEW t \in Thread \cup {NoThread}
    PROVE  Fresh(about, kind, t) \in Row
BY DEF Fresh, Row, Status

LEMMA MovedIsRow ==
    ASSUME NEW row \in Row, NEW status \in Status, NEW original \in Id \cup {NoId}, NEW now \in Nat
    PROVE  /\ Moved(row, status, original, now) \in Row
           /\ Moved(row, status, original, now).status = status
           /\ Moved(row, status, original, now).closedAt = IF status = "open" THEN 0 ELSE now
           /\ Moved(row, status, original, now).about = row.about
           /\ Moved(row, status, original, now).told = row.told
           /\ Moved(row, status, original, now).badge = row.badge
BY DEF Moved, Row

LEMMA RecordedIsRow ==
    ASSUME NEW row \in Row, NEW outcome \in Outcome
    PROVE  /\ Recorded(row, outcome) \in Row
           /\ Recorded(row, outcome).status = row.status
           /\ Recorded(row, outcome).closedAt = row.closedAt
           /\ Recorded(row, outcome).about = row.about
           /\ Recorded(row, outcome).told = (row.told \/ outcome = "delivered")
           /\ Recorded(row, outcome).badge = (outcome = "refused")
BY DEF Recorded, Row

(* A row that another part's deletion touches. *)
Loses(row, ss, ts, gone) ==
    [row EXCEPT !.about = @ \ ss,
                !.thread = IF @ \in ts THEN NoThread ELSE @,
                !.original = IF @ \in gone THEN NoId ELSE @]

LEMMA LosesIsRow ==
    ASSUME NEW row \in Row, NEW ss, NEW ts, NEW gone
    PROVE  /\ Loses(row, ss, ts, gone) \in Row
           /\ Loses(row, ss, ts, gone).status = row.status
           /\ Loses(row, ss, ts, gone).closedAt = row.closedAt
           /\ Loses(row, ss, ts, gone).about = row.about \ ss
           /\ Loses(row, ss, ts, gone).told = row.told
           /\ Loses(row, ss, ts, gone).badge = row.badge
<1>1. row.about \ ss \in About
    BY LosesSubjects DEF Row
<1> HIDE DEF About
<1> QED  BY <1>1 DEF Loses, Row

LEMMA DetachedRows ==
    ASSUME NEW ss, NEW ts, NEW gone
    PROVE  /\ Detached(ss, ts, gone) = [id \in Id |-> Detached(ss, ts, gone)[id]]
           /\ \A id \in Id :
                 Detached(ss, ts, gone)[id] =
                    IF id \notin Live \ gone THEN NoRow ELSE Loses(escalation[id], ss, ts, gone)
BY DEF Detached, Loses

-----------------------------------------------------------------------------
(* The invariant. *)

AtId(r, step, id) == At(r, step) /\ op[r].id = id

(* Rows and posts come with their id, and requests name ids handed out.     *)
IdsAreHandedOut ==
    /\ \A id \in Id : id >= nextId => escalation[id] = NoRow /\ post[id] = NoPost
    /\ \A r \in Request : op[r].step \in {"edit", "status", "announce", "record"} => op[r].id < nextId

(* A status change that no other one overlaps is still allowed when written.*)
StillAllowed(r) ==
    /\ \A q \in Request : AtId(q, "status", op[r].id) => q = r
    /\ op[r].id \in Live => CanTransition(escalation[op[r].id].status, op[r].status)

ChangesAreAllowed ==
    \A r \in Request : (At(r, "status") /\ op[r].id \notin raced) => StillAllowed(r)

(* A partner on its way out was the only subject of nothing, and a program  *)
(* takes along what it was the only subject of.                             *)
CountsAreZero ==
    \A r \in Request : /\ At(r, "delete") => op[r].only = {}
                       /\ At(r, "erase") => op[r].gone = op[r].only

(* Where no post overlapped another, the one in flight is the latest.       *)
OnePostAtATime ==
    \A id \in Id : ~post[id].crossed =>
        /\ \A r, q \in Request : (AtId(r, "record", id) /\ AtId(q, "record", id)) => r = q
        /\ \A r \in Request : AtId(r, "record", id) => op[r].outcome = post[id].latest

(* What the row does not say yet, a request in flight is about to write.    *)
InFlight(id) == \E r \in Request : AtId(r, "record", id)
Delivering(id) == \E r \in Request : AtId(r, "record", id) /\ op[r].outcome = "delivered"

Honest(id) ==
    /\ post[id].told <=> (escalation[id].told \/ Delivering(id))
    /\ (~post[id].crossed /\ ~InFlight(id)) => (escalation[id].badge <=> post[id].latest = "refused")

PostsAreOnTheirWay == \A id \in Live : ~post[id].lost => Honest(id)

Inv ==
    /\ TypeOK
    /\ IdsAreHandedOut
    /\ ChangesAreAllowed
    /\ CountsAreZero
    /\ AboutSomething
    /\ OnePostAtATime
    /\ PostsAreOnTheirWay

LEMMA InitInv == Init => Inv
<1> SUFFICES ASSUME Init PROVE Inv
    OBVIOUS
<1> USE EscalationAssumption DEF EscalationAssumption
<1>1. \A r \in Request : op[r] = Idle /\ op[r] \in Local /\ op[r].step = "idle"
    BY IdleIsLocal DEF Init
<1>2. Live = {}
    BY DEF Init, Live
<1>3. NoPost \in Post
    BY DEF NoPost, Post
<1>4. TypeOK
    <2>1. op \in [Request -> Local]
        BY <1>1 DEF Init
    <2> QED  BY <1>2, <1>3, <2>1 DEF Init, TypeOK
<1>5. IdsAreHandedOut
    BY <1>1 DEF Init, IdsAreHandedOut
<1>6. ChangesAreAllowed /\ CountsAreZero /\ OnePostAtATime
    BY <1>1 DEF ChangesAreAllowed, CountsAreZero, OnePostAtATime, At, AtId
<1>7. AboutSomething /\ PostsAreOnTheirWay
    BY <1>2 DEF AboutSomething, PostsAreOnTheirWay
<1> QED  BY <1>4, <1>5, <1>6, <1>7 DEF Inv

-----------------------------------------------------------------------------
(* Steps that several actions share. *)

LEMMA Moves ==
    ASSUME TypeOK, NEW r \in Request, NEW l \in Local, Becomes(r, l)
    PROVE  /\ op' \in [Request -> Local]
           /\ op'[r] = l
           /\ \A q \in Request : q # r => op'[q] = op[q]
BY DEF TypeOK, Becomes

Others == ChangesAreAllowed /\ CountsAreZero /\ OnePostAtATime

(* A request moves on and leaves the rows alone. *)
LEMMA QuietStep ==
    ASSUME Inv, NEW r \in Request, NEW l \in Local, Becomes(r, l),
           UNCHANGED <<escalation, nextId, post, raced, vague>>,
           op[r].step # "record", l.step \notin {"status", "record"},
           l.step \in {"edit", "announce"} => l.id < nextId,
           l.step = "delete" => l.only = {},
           l.step = "erase" => l.gone = l.only
    PROVE  /\ op' \in [Request -> Local]
           /\ (IdsAreHandedOut /\ Others /\ AboutSomething /\ PostsAreOnTheirWay)'
<1>1. op' \in [Request -> Local] /\ op'[r] = l /\ \A q \in Request : q # r => op'[q] = op[q]
    BY Moves DEF Inv
<1>2. Live' = Live
    BY DEF Live
<1>3. \A q \in Request, id \in Id :
         /\ AtId(q, "record", id)' <=> AtId(q, "record", id)
         /\ AtId(q, "record", id) => op'[q] = op[q]
         /\ AtId(q, "status", id)' => AtId(q, "status", id)
    BY <1>1 DEF AtId, At
<1>4. IdsAreHandedOut'
    BY <1>1 DEF Inv, IdsAreHandedOut
<1>5. ChangesAreAllowed'
    <2> SUFFICES ASSUME NEW q \in Request, At(q, "status")', op'[q].id \notin raced'
                 PROVE  StillAllowed(q)'
        BY DEF ChangesAreAllowed
    <2>1. q # r /\ op'[q] = op[q] /\ At(q, "status")
        BY <1>1 DEF At
    <2>2. op[q].id \in Id /\ StillAllowed(q)
        BY <2>1, LocalFields DEF Inv, TypeOK, At, ChangesAreAllowed
    <2>3. \A p \in Request : AtId(p, "status", op[q].id)' => p = q
        BY <1>3, <2>1, <2>2 DEF StillAllowed
    <2>4. (op[q].id \in Live => CanTransition(escalation[op[q].id].status, op[q].status))'
        BY <1>2, <2>1, <2>2 DEF StillAllowed, CanTransition
    <2> QED  BY <2>3, <2>4 DEF StillAllowed
<1>6. CountsAreZero'
    BY <1>1 DEF Inv, CountsAreZero, At
<1>7. OnePostAtATime'
    BY <1>3 DEF Inv, OnePostAtATime
<1>8. AboutSomething'
    BY <1>2 DEF Inv, AboutSomething
<1>9. PostsAreOnTheirWay'
    <2> SUFFICES ASSUME NEW id \in Live', ~post'[id].lost PROVE Honest(id)'
        BY DEF PostsAreOnTheirWay
    <2>1. id \in Id /\ Honest(id)
        BY <1>2 DEF Inv, PostsAreOnTheirWay, Live
    <2>2. (InFlight(id)' <=> InFlight(id)) /\ (Delivering(id)' <=> Delivering(id))
        BY <1>3, <2>1 DEF InFlight, Delivering
    <2> QED  BY <2>1, <2>2 DEF Honest
<1> QED  BY <1>1, <1>4, <1>5, <1>6, <1>7, <1>8, <1>9 DEF Others

(* A request ends by inserting a row. *)
LEMMA InsertStep ==
    ASSUME Inv, NEW r \in Request, Becomes(r, Idle), op[r].step # "record",
           NEW row \in Row, Insert(row), ~row.told, ~row.badge,
           row.closedAt = 0 <=> row.status = "open",
           UNCHANGED <<post, raced>>, vague \subseteq vague',
           row.about = {} => nextId \in vague'
    PROVE  /\ op' \in [Request -> Local]
           /\ escalation' \in [Id -> Row \cup {NoRow}]
           /\ nextId' \in 1 .. MaxId + 1
           /\ \A id \in Live' : escalation'[id].closedAt = 0 <=> IsOpen(id)'
           /\ (IdsAreHandedOut /\ Others /\ AboutSomething /\ PostsAreOnTheirWay)'
<1> USE EscalationAssumption DEF EscalationAssumption
<1>1. op' \in [Request -> Local] /\ op'[r] = Idle /\ \A q \in Request : q # r => op'[q] = op[q]
    BY Moves, IdleIsLocal DEF Inv
<1>2. /\ nextId \in Id /\ nextId \in Nat /\ nextId' = nextId + 1
      /\ escalation' \in [Id -> Row \cup {NoRow}]
      /\ escalation'[nextId] = row
      /\ \A id \in Id \ {nextId} : escalation'[id] = escalation[id]
    BY DEF Inv, TypeOK, Insert, Id
<1>3. nextId' \in 1 .. MaxId + 1
    BY <1>2 DEF Inv, TypeOK, Insert
<1>4. nextId \notin Live /\ post[nextId] = NoPost
    BY <1>2 DEF Inv, IdsAreHandedOut, Live
<1>5. Live' \subseteq Live \cup {nextId} /\ Live \subseteq Id
    BY <1>2 DEF Live
<1>6. \A id \in Live' : escalation'[id].closedAt = 0 <=> IsOpen(id)'
    <2> SUFFICES ASSUME NEW id \in Live' PROVE escalation'[id].closedAt = 0 <=> IsOpen(id)'
        OBVIOUS
    <2>1. CASE id = nextId
        BY <1>2, <2>1 DEF IsOpen
    <2>2. CASE id # nextId
        <3>1. id \in Live /\ escalation'[id] = escalation[id]
            BY <1>2, <1>5, <2>2
        <3> QED  BY <3>1 DEF Inv, TypeOK, IsOpen
    <2> QED  BY <2>1, <2>2
<1>7. \A q \in Request, id \in Id :
         /\ AtId(q, "record", id)' <=> AtId(q, "record", id)
         /\ AtId(q, "record", id) => op'[q] = op[q] /\ id # nextId
         /\ AtId(q, "status", id)' => AtId(q, "status", id)
    <2>1. \A q \in Request : op[q].step = "record" => op[q].id < nextId
        BY DEF Inv, IdsAreHandedOut
    <2> QED  BY <1>1, <1>2, <2>1, IdleIsLocal DEF AtId, At
<1>8. IdsAreHandedOut'
    <2>1. \A id \in Id : id >= nextId' => escalation'[id] = NoRow /\ post'[id] = NoPost
        BY <1>2 DEF Inv, IdsAreHandedOut, Id
    <2>2. \A q \in Request : op'[q].step \in {"edit", "status", "announce", "record"} =>
              q # r /\ op'[q] = op[q] /\ op[q].id \in Id
        BY <1>1, IdleIsLocal, LocalFields DEF Inv, TypeOK
    <2>3. \A q \in Request : op'[q].step \in {"edit", "status", "announce", "record"} =>
              op'[q].id < nextId'
        BY <1>2, <2>2 DEF Inv, IdsAreHandedOut, Id
    <2> QED  BY <2>1, <2>3 DEF IdsAreHandedOut
<1>9. ChangesAreAllowed'
    <2> SUFFICES ASSUME NEW q \in Request, At(q, "status")', op'[q].id \notin raced'
                 PROVE  StillAllowed(q)'
        BY DEF ChangesAreAllowed
    <2>1. q # r /\ op'[q] = op[q] /\ At(q, "status")
        BY <1>1, IdleIsLocal DEF At
    <2>2. op[q].id \in Id /\ op[q].id < nextId /\ StillAllowed(q)
        BY <2>1, LocalFields DEF Inv, TypeOK, At, IdsAreHandedOut, ChangesAreAllowed
    <2>3. op[q].id # nextId
        BY <1>2, <2>2 DEF Id
    <2>4. \A p \in Request : AtId(p, "status", op[q].id)' => p = q
        BY <1>7, <2>1, <2>2 DEF StillAllowed
    <2>5. (op[q].id \in Live => CanTransition(escalation[op[q].id].status, op[q].status))'
        BY <1>2, <1>5, <2>1, <2>2, <2>3 DEF StillAllowed, CanTransition
    <2> QED  BY <2>4, <2>5 DEF StillAllowed
<1>10. CountsAreZero' /\ OnePostAtATime'
    BY <1>1, <1>7, IdleIsLocal DEF Inv, CountsAreZero, OnePostAtATime, At
<1>11. AboutSomething'
    BY <1>2, <1>5 DEF Inv, AboutSomething, Live
<1>12. PostsAreOnTheirWay'
    <2> SUFFICES ASSUME NEW id \in Live', ~post'[id].lost PROVE Honest(id)'
        BY DEF PostsAreOnTheirWay
    <2>1. CASE id = nextId
        <3>1. ~InFlight(id)' /\ ~Delivering(id)'
            BY <1>2, <1>7, <2>1 DEF InFlight, Delivering
        <3> QED  BY <1>2, <1>4, <2>1, <3>1 DEF Honest, NoPost
    <2>2. CASE id # nextId
        <3>1. id \in Live /\ id \in Id /\ escalation'[id] = escalation[id] /\ Honest(id)
            BY <1>2, <1>5, <2>2 DEF Live, Inv, PostsAreOnTheirWay
        <3>2. (InFlight(id)' <=> InFlight(id)) /\ (Delivering(id)' <=> Delivering(id))
            BY <1>7, <3>1 DEF InFlight, Delivering
        <3> QED  BY <3>1, <3>2 DEF Honest
    <2> QED  BY <2>1, <2>2
<1> QED  BY <1>1, <1>2, <1>3, <1>6, <1>8, <1>9, <1>10, <1>11, <1>12 DEF Others

(* A request rewrites one row, at most moving the status it was allowed to. *)
LEMMA RowStep ==
    ASSUME Inv, NEW r \in Request, NEW l \in Local, Becomes(r, l),
           op[r].step \in {"edit", "status"}, l.step \in {"idle", "announce"},
           NEW id \in Live, l.step = "announce" => l.id = id,
           NEW row \in Row, escalation' = [escalation EXCEPT ![id] = row],
           row.told = escalation[id].told, row.badge = escalation[id].badge,
           row.closedAt = 0 <=> row.status = "open",
           AtId(r, "status", id) \/ row.status = escalation[id].status,
           UNCHANGED <<post, raced, nextId>>,
           vague \ {id} \subseteq vague', row.about = {} => id \in vague'
    PROVE  /\ op' \in [Request -> Local]
           /\ escalation' \in [Id -> Row \cup {NoRow}]
           /\ \A i \in Live' : escalation'[i].closedAt = 0 <=> IsOpen(i)'
           /\ (IdsAreHandedOut /\ Others /\ AboutSomething /\ PostsAreOnTheirWay)'
<1>1. op' \in [Request -> Local] /\ op'[r] = l /\ \A q \in Request : q # r => op'[q] = op[q]
    BY Moves DEF Inv
<1>2. /\ id \in Id /\ Live \subseteq Id
      /\ escalation' \in [Id -> Row \cup {NoRow}]
      /\ escalation'[id] = row
      /\ \A i \in Id \ {id} : escalation'[i] = escalation[i]
    BY DEF Inv, TypeOK, Live
<1>3. Live' \subseteq Live
    BY <1>2 DEF Live
<1>4. \A i \in Live' : escalation'[i].closedAt = 0 <=> IsOpen(i)'
    <2> SUFFICES ASSUME NEW i \in Live' PROVE escalation'[i].closedAt = 0 <=> IsOpen(i)'
        OBVIOUS
    <2>1. CASE i = id
        BY <1>2, <2>1 DEF IsOpen
    <2>2. CASE i # id
        <3>1. i \in Live /\ escalation'[i] = escalation[i]
            BY <1>2, <1>3, <2>2
        <3> QED  BY <3>1 DEF Inv, TypeOK, IsOpen
    <2> QED  BY <2>1, <2>2
<1>5. \A q \in Request, i \in Id :
         /\ AtId(q, "record", i)' <=> AtId(q, "record", i)
         /\ AtId(q, "record", i) => op'[q] = op[q]
         /\ AtId(q, "status", i)' => AtId(q, "status", i) /\ q # r
    BY <1>1 DEF AtId, At
<1>6. IdsAreHandedOut'
    <2>1. id < nextId
        BY <1>2 DEF Inv, IdsAreHandedOut, TypeOK, Live, Id
    <2>2. \A i \in Id : i >= nextId => i # id
        BY <2>1 DEF Inv, TypeOK, Id
    <2>3. \A i \in Id : i >= nextId => escalation'[i] = NoRow /\ post'[i] = NoPost
        BY <1>2, <2>2 DEF Inv, IdsAreHandedOut
    <2>4. \A q \in Request : op'[q].step \in {"edit", "status", "announce", "record"} => op'[q].id < nextId
        BY <1>1, <2>1 DEF Inv, IdsAreHandedOut
    <2> QED  BY <2>3, <2>4 DEF IdsAreHandedOut
<1>7. ChangesAreAllowed'
    <2> SUFFICES ASSUME NEW q \in Request, At(q, "status")', op'[q].id \notin raced'
                 PROVE  StillAllowed(q)'
        BY DEF ChangesAreAllowed
    <2>1. q # r /\ op'[q] = op[q] /\ At(q, "status")
        BY <1>1 DEF At
    <2>2. op[q].id \in Id /\ StillAllowed(q)
        BY <2>1, LocalFields DEF Inv, TypeOK, At, ChangesAreAllowed
    <2>3. \A p \in Request : AtId(p, "status", op[q].id)' => p = q
        BY <1>5, <2>1, <2>2 DEF StillAllowed
    <2>4. (op[q].id \in Live => CanTransition(escalation[op[q].id].status, op[q].status))'
        <3>1. CASE op[q].id = id
            <4>1. ~AtId(r, "status", id)
                BY <2>1, <2>2, <3>1 DEF StillAllowed
            <4> QED  BY <1>2, <2>1, <2>2, <3>1, <4>1 DEF StillAllowed, CanTransition
        <3>2. CASE op[q].id # id
            BY <1>2, <1>3, <2>1, <2>2, <3>2 DEF StillAllowed, CanTransition
        <3> QED  BY <3>1, <3>2
    <2> QED  BY <2>3, <2>4 DEF StillAllowed
<1>8. CountsAreZero'
    BY <1>1 DEF Inv, CountsAreZero, At
<1>9. OnePostAtATime'
    BY <1>5 DEF Inv, OnePostAtATime
<1>10. AboutSomething'
    BY <1>2, <1>3 DEF Inv, AboutSomething
<1>11. PostsAreOnTheirWay'
    <2> SUFFICES ASSUME NEW i \in Live', ~post'[i].lost PROVE Honest(i)'
        BY DEF PostsAreOnTheirWay
    <2>1. i \in Id /\ Honest(i)
        BY <1>2, <1>3 DEF Inv, PostsAreOnTheirWay
    <2>2. (InFlight(i)' <=> InFlight(i)) /\ (Delivering(i)' <=> Delivering(i))
        BY <1>5, <2>1 DEF InFlight, Delivering
    <2>3. escalation'[i].told = escalation[i].told /\ escalation'[i].badge = escalation[i].badge
        BY <1>2, <2>1
    <2> QED  BY <2>1, <2>2, <2>3 DEF Honest
<1> QED  BY <1>1, <1>2, <1>4, <1>6, <1>7, <1>8, <1>9, <1>10, <1>11 DEF Others

(* Another part deletes subjects, threads and escalations. *)
LEMMA DetachStep ==
    ASSUME Inv, NEW r \in Request, op[r].step \in {"idle", "delete", "erase"},
           NEW ss, NEW ts, NEW gone,
           DeletesThreads(r, ts), escalation' = Detached(ss, ts, gone),
           UNCHANGED <<post, raced, nextId>>, vague \subseteq vague',
           \A id \in Live \ gone : escalation[id].about # {} /\ escalation[id].about \ ss = {} => id \in vague'
    PROVE  /\ op' \in [Request -> Local]
           /\ escalation' \in [Id -> Row \cup {NoRow}]
           /\ \A i \in Live' : escalation'[i].closedAt = 0 <=> IsOpen(i)'
           /\ (IdsAreHandedOut /\ Others /\ AboutSomething /\ PostsAreOnTheirWay)'
<1>1. /\ op' \in [Request -> Local]
      /\ op'[r] = Idle
      /\ \A q \in Request : q # r => op'[q] = Forgotten(op[q], ts)
    BY IdleIsLocal, ForgottenIsLocal DEF Inv, TypeOK, DeletesThreads
<1>2. \A q \in Request : op'[q].step \in {"edit", "status", "announce", "record", "delete", "erase"} =>
          op'[q] = op[q]
    BY <1>1, IdleIsLocal, ForgottenIsLocal DEF Inv, TypeOK
<1>3. \A q \in Request : op[q].step = "record" => op'[q] = op[q]
    BY <1>1, ForgottenIsLocal DEF Inv, TypeOK
<1>4. \A id \in Live : escalation[id] \in Row
    BY DEF Inv, TypeOK, Live
<1>5. \A id \in Id : escalation'[id] =
         IF id \notin Live \ gone THEN NoRow ELSE Loses(escalation[id], ss, ts, gone)
    BY DetachedRows
<1>6. escalation' \in [Id -> Row \cup {NoRow}]
    <2>1. \A id \in Id : escalation'[id] \in Row \cup {NoRow}
        BY <1>4, <1>5, LosesIsRow
    <2>2. escalation' = [id \in Id |-> escalation'[id]]
        BY DetachedRows
    <2> QED  BY <2>1, <2>2
<1>7. \A i \in Live' :
         /\ i \in Live \ gone /\ i \in Id
         /\ escalation'[i].status = escalation[i].status
         /\ escalation'[i].closedAt = escalation[i].closedAt
         /\ escalation'[i].about = escalation[i].about \ ss
         /\ escalation'[i].told = escalation[i].told
         /\ escalation'[i].badge = escalation[i].badge
    <2> SUFFICES ASSUME NEW i \in Live'
                 PROVE  /\ i \in Live \ gone /\ i \in Id
                        /\ escalation'[i].status = escalation[i].status
                        /\ escalation'[i].closedAt = escalation[i].closedAt
                        /\ escalation'[i].about = escalation[i].about \ ss
                        /\ escalation'[i].told = escalation[i].told
                        /\ escalation'[i].badge = escalation[i].badge
        OBVIOUS
    <2>1. i \in Id /\ escalation'[i] # NoRow
        BY DEF Live
    <2>2. i \in Live \ gone /\ escalation'[i] = Loses(escalation[i], ss, ts, gone)
        BY <1>5, <2>1
    <2>3. escalation[i] \in Row
        BY <1>4, <2>2
    <2> QED  BY <2>1, <2>2, <2>3, LosesIsRow
<1>8. \A i \in Live' : escalation'[i].closedAt = 0 <=> IsOpen(i)'
    BY <1>7 DEF Inv, TypeOK, IsOpen
<1>9. \A q \in Request, i \in Id :
         /\ AtId(q, "record", i)' <=> AtId(q, "record", i)
         /\ AtId(q, "record", i) => op'[q] = op[q]
         /\ AtId(q, "status", i)' => AtId(q, "status", i)
    BY <1>2, <1>3 DEF AtId, At
<1>10. IdsAreHandedOut'
    <2>1. \A id \in Id : id >= nextId => escalation'[id] = NoRow
        BY <1>5 DEF Inv, IdsAreHandedOut, Live
    <2> QED  BY <1>2, <2>1 DEF Inv, IdsAreHandedOut
<1>11. ChangesAreAllowed'
    <2> SUFFICES ASSUME NEW q \in Request, At(q, "status")', op'[q].id \notin raced'
                 PROVE  StillAllowed(q)'
        BY DEF ChangesAreAllowed
    <2>1. op'[q] = op[q] /\ At(q, "status")
        BY <1>2 DEF At
    <2>2. op[q].id \in Id /\ StillAllowed(q)
        BY <2>1, LocalFields DEF Inv, TypeOK, At, ChangesAreAllowed
    <2>3. \A p \in Request : AtId(p, "status", op[q].id)' => p = q
        BY <1>9, <2>1, <2>2 DEF StillAllowed
    <2>4. (op[q].id \in Live => CanTransition(escalation[op[q].id].status, op[q].status))'
        BY <1>7, <2>1, <2>2 DEF StillAllowed, CanTransition
    <2> QED  BY <2>3, <2>4 DEF StillAllowed
<1>12. CountsAreZero'
    BY <1>2 DEF Inv, CountsAreZero, At
<1>13. OnePostAtATime'
    BY <1>9 DEF Inv, OnePostAtATime
<1>14. AboutSomething'
    BY <1>7 DEF Inv, AboutSomething
<1>15. PostsAreOnTheirWay'
    <2> SUFFICES ASSUME NEW i \in Live', ~post'[i].lost PROVE Honest(i)'
        BY DEF PostsAreOnTheirWay
    <2>1. i \in Id /\ Honest(i)
        BY <1>7 DEF Inv, PostsAreOnTheirWay
    <2>2. (InFlight(i)' <=> InFlight(i)) /\ (Delivering(i)' <=> Delivering(i))
        BY <1>9, <2>1 DEF InFlight, Delivering
    <2> QED  BY <1>7, <2>1, <2>2 DEF Honest
<1> QED
    BY <1>1, <1>6, <1>8, <1>10, <1>11, <1>12, <1>13, <1>14, <1>15 DEF Others

-----------------------------------------------------------------------------
(* The actions. *)

LEMMA CreateInv == ASSUME Inv, NEW r \in Request, CreateEscalation(r) PROVE Inv'
<1>1. PICK about \in About \ {{}} :
         /\ Starts(r, Idle) /\ Insert(Fresh(about, "manual", NoThread))
         /\ UNCHANGED <<thread, alive, clock, faults, history>>
    BY DEF CreateEscalation
<1> DEFINE row == Fresh(about, "manual", NoThread)
<1>2. row \in Row /\ ~row.told /\ ~row.badge /\ row.closedAt = 0 /\ row.status = "open" /\ row.about # {}
    BY FreshIsRow DEF Fresh
<1>3. Becomes(r, Idle) /\ op[r].step # "record" /\ requests' \in 0 .. MaxRequests
    BY <1>1, IdleIsLocal, EscalationAssumption DEF Inv, TypeOK, Starts, Arrives, EscalationAssumption
<1> HIDE DEF row
<1>4. Insert(row)
    BY <1>1 DEF row
<1>5. UNCHANGED <<post, raced, vague, extra>>
    BY <1>1 DEF history
<1> QED
    BY <1>1, <1>2, <1>3, <1>4, <1>5, InsertStep DEF Inv, TypeOK, Others

LEMMA PostInv == ASSUME Inv, NEW r \in Request, PostEscalation(r) PROVE Inv'
<1>1. PICK about \in About \ {{}}, t \in Thread \cup {NoThread}, status \in Status,
           original \in Id \cup {NoId} :
         /\ Starts(r, Idle) /\ clock' = clock + 1
         /\ Insert(Moved(Fresh(about, "chat", t), status, original, clock'))
         /\ extra' = [u \in Thread |-> IF u = t /\ status = "open" THEN extra[u] + 1 ELSE extra[u]]
         /\ UNCHANGED <<thread, alive, faults, raced, vague, post>>
    BY DEF PostEscalation
<1> DEFINE row == Moved(Fresh(about, "chat", t), status, original, clock')
<1>2. clock' \in Nat /\ clock' # 0
    BY <1>1 DEF Inv, TypeOK
<1>3. row \in Row /\ ~row.told /\ ~row.badge /\ row.about # {}
      /\ (row.closedAt = 0 <=> row.status = "open")
    <2>1. Fresh(about, "chat", t) \in Row
        BY FreshIsRow
    <2>2. ~Fresh(about, "chat", t).told /\ ~Fresh(about, "chat", t).badge
          /\ Fresh(about, "chat", t).about = about
        BY DEF Fresh
    <2> HIDE DEF Fresh
    <2> QED  BY <1>2, <2>1, <2>2, MovedIsRow
<1>4. Becomes(r, Idle) /\ op[r].step # "record" /\ requests' \in 0 .. MaxRequests
    BY <1>1, IdleIsLocal, EscalationAssumption DEF Inv, TypeOK, Starts, Arrives, EscalationAssumption
<1>5. extra' \in [Thread -> Nat]
    BY <1>1 DEF Inv, TypeOK
<1> HIDE DEF row
<1>6. Insert(row)
    BY <1>1 DEF row
<1> QED
    BY <1>1, <1>2, <1>3, <1>4, <1>5, <1>6, InsertStep DEF Inv, TypeOK, Others

LEMMA RaiseCreateInv == ASSUME Inv, NEW r \in Request, RaiseCreate(r) PROVE Inv'
<1> DEFINE row == Fresh(op[r].about, "chat", op[r].thread)
<1>1. /\ At(r, "create") /\ Becomes(r, Idle) /\ Insert(row)
      /\ vague' = IF op[r].about = {} THEN vague \cup {nextId} ELSE vague
      /\ UNCHANGED <<thread, alive, clock, faults, requests, raced, extra, post>>
    BY DEF RaiseCreate
<1>2. op[r].about \in About /\ op[r].thread \in Thread \cup {NoThread} /\ op[r].step # "record"
    BY <1>1, LocalFields DEF Inv, TypeOK, At
<1>3. row \in Row /\ ~row.told /\ ~row.badge /\ row.closedAt = 0 /\ row.status = "open"
      /\ row.about = op[r].about
    BY <1>2, FreshIsRow DEF Fresh
<1>4. vague' \subseteq Id
    BY <1>1, EscalationAssumption DEF Inv, TypeOK, Insert, Id, EscalationAssumption
<1> HIDE DEF row
<1> QED
    BY <1>1, <1>2, <1>3, <1>4, InsertStep DEF Inv, TypeOK, Others

(* A mention on its way touches no escalation. *)
LEMMA MentionStep ==
    ASSUME Inv, NEW r \in Request, NEW l \in Local, Becomes(r, l),
           UNCHANGED <<escalation, alive, nextId, clock, faults, raced, vague, post>>,
           requests' \in 0 .. MaxRequests, op[r].step # "record",
           l.step \in {"idle", "revise", "ingest", "save", "raise"},
           extra' \in [Thread -> Nat], thread' \in [Thread -> About \cup {NoRow}]
    PROVE  Inv'
<1>1. op' \in [Request -> Local] /\ (IdsAreHandedOut /\ Others /\ AboutSomething /\ PostsAreOnTheirWay)'
    BY QuietStep
<1>2. \A id \in Live' : escalation'[id].closedAt = 0 <=> IsOpen(id)'
    BY DEF Inv, TypeOK, Live, IsOpen
<1> QED  BY <1>1, <1>2 DEF Inv, TypeOK, Others

(* Where the saving of a thread leads.                                      *)
Onward == {[step |-> "raise", thread |-> t] : t \in Thread \cup {NoThread}} \cup {Idle}

LEMMA OnwardIsLocal == \A l \in Onward : l \in Local /\ l.step \in {"idle", "raise"}
BY IdleIsLocal DEF Onward, Local

LEMMA SavedGoesOn ==
    ASSUME Inv, NEW r \in Request, NEW t \in Thread, Raises(r, t) \/ Duplicate(r)
    PROVE  /\ \E l \in Onward : Becomes(r, l)
           /\ extra' \in [Thread -> Nat]
<1>1. extra \in [Thread -> Nat]
    BY DEF Inv, TypeOK
<1>2. CASE Duplicate(r)
    BY <1>1, <1>2 DEF Duplicate, Onward
<1>3. CASE Raises(r, t)
    BY <1>1, <1>3 DEF Raises, Onward
<1> QED  BY <1>2, <1>3

LEMMA MentionInv == ASSUME Inv, NEW r \in Request, Mention(r) PROVE Inv'
<1>1. PICK t \in Thread :
         /\ Arrives(r)
         /\ \/ Raises(r, t)
            \/ Becomes(r, [step |-> "revise", thread |-> t]) /\ UNCHANGED extra
            \/ Becomes(r, [step |-> "ingest", thread |-> t]) /\ UNCHANGED extra
         /\ UNCHANGED <<escalation, thread, alive, nextId, clock, faults, raced, vague, post>>
    BY DEF Mention
<1>2. op[r].step # "record" /\ requests' \in 0 .. MaxRequests
    BY <1>1, IdleIsLocal, EscalationAssumption DEF Inv, TypeOK, Arrives, EscalationAssumption
<1>3. extra \in [Thread -> Nat] /\ thread' \in [Thread -> About \cup {NoRow}]
    BY <1>1 DEF Inv, TypeOK
<1>4. CASE Raises(r, t)
    <2>1. PICK l \in Onward : Becomes(r, l)
        BY <1>4, SavedGoesOn
    <2> QED  BY <1>1, <1>2, <1>3, <1>4, <2>1, OnwardIsLocal, SavedGoesOn, MentionStep
<1>5. ASSUME NEW step \in {"revise", "ingest"}, Becomes(r, [step |-> step, thread |-> t]), UNCHANGED extra
      PROVE  Inv'
    <2> DEFINE l == [step |-> step, thread |-> t]
    <2>1. l \in Local /\ l.step \in {"revise", "ingest"}
        BY DEF Local
    <2>2. Becomes(r, l)
        BY <1>5
    <2> HIDE DEF l
    <2> QED  BY <1>1, <1>2, <1>3, <1>5, <2>1, <2>2, MentionStep
<1> QED  BY <1>1, <1>4, <1>5

LEMMA ReviseInv == ASSUME Inv, NEW r \in Request, Revise(r) PROVE Inv'
<1>1. /\ At(r, "revise") /\ Raises(r, op[r].thread)
      /\ UNCHANGED <<escalation, thread, alive, nextId, clock, faults, requests, raced, vague, post>>
    BY DEF Revise
<1>2. op[r].thread \in Thread /\ op[r].step # "record"
    BY <1>1, LocalFields DEF Inv, TypeOK, At
<1>3. PICK l \in Onward : Becomes(r, l)
    BY <1>1, <1>2, SavedGoesOn
<1>4. extra' \in [Thread -> Nat]
    BY <1>1, <1>2, SavedGoesOn
<1> QED  BY <1>1, <1>2, <1>3, <1>4, OnwardIsLocal, MentionStep DEF Inv, TypeOK

LEMMA ClassifyInv == ASSUME Inv, NEW r \in Request, Classify(r) PROVE Inv'
<1> DEFINE t == op[r].thread
<1>1. /\ At(r, "ingest")
      /\ UNCHANGED <<escalation, thread, alive, nextId, clock, faults, requests, raced, vague, post>>
    BY DEF Classify
<1>2. t \in Thread /\ op[r].step # "record" /\ extra \in [Thread -> Nat]
    BY <1>1, LocalFields DEF Inv, TypeOK, At
<1> HIDE DEF t
<1>3. PICK l \in Local :
         Becomes(r, l) /\ l.step \in {"idle", "raise", "save"} /\ extra' \in [Thread -> Nat]
    <2>1. CASE Duplicate(r)
        BY <1>2, <2>1, OnwardIsLocal, SavedGoesOn
    <2>2. CASE Becomes(r, Idle) /\ UNCHANGED extra
        BY <1>2, <2>2, IdleIsLocal
    <2>3. CASE /\ UNCHANGED extra
               /\ \E about \in {{}} \cup {{s} : s \in alive} :
                     Becomes(r, [step |-> "save", thread |-> t, about |-> about])
        <3>1. PICK about \in {{}} \cup {{s} : s \in alive} :
                  Becomes(r, [step |-> "save", thread |-> t, about |-> about])
            BY <2>3
        <3>2. about \in About
            BY <3>1, OneIsAbout DEF Inv, TypeOK
        <3>3. [step |-> "save", thread |-> t, about |-> about] \in Local
            BY <1>2, <3>2 DEF Local
        <3> QED  BY <1>2, <2>3, <3>1, <3>3
    <2> QED  BY <2>1, <2>2, <2>3 DEF Classify, t
<1> QED  BY <1>1, <1>2, <1>3, MentionStep DEF Inv, TypeOK

LEMMA SaveThreadInv == ASSUME Inv, NEW r \in Request, SaveThread(r) PROVE Inv'
<1> DEFINE t == op[r].thread
           about == op[r].about
<1>1. /\ At(r, "save")
      /\ UNCHANGED <<escalation, alive, nextId, clock, faults, requests, raced, vague, post>>
    BY DEF SaveThread
<1>2. /\ t \in Thread /\ about \in About /\ op[r].step # "record"
      /\ extra \in [Thread -> Nat] /\ thread \in [Thread -> About \cup {NoRow}]
    BY <1>1, LocalFields DEF Inv, TypeOK, At
<1>3. \/ (Raises(r, t) \/ Duplicate(r)) /\ (UNCHANGED thread \/ thread' = [thread EXCEPT ![t] = about])
      \/ Becomes(r, Idle) /\ UNCHANGED <<thread, extra>>
    BY DEF SaveThread
<1> HIDE DEF t, about
<1>4. thread' \in [Thread -> About \cup {NoRow}]
    BY <1>2, <1>3
<1>5. PICK l \in Local :
         Becomes(r, l) /\ l.step \in {"idle", "raise"} /\ extra' \in [Thread -> Nat]
    BY <1>2, <1>3, OnwardIsLocal, IdleIsLocal, SavedGoesOn
<1> QED  BY <1>1, <1>2, <1>4, <1>5, MentionStep DEF Inv, TypeOK

(* Requests that read, give up, or find nothing to do. *)
LEMMA QuietInv ==
    ASSUME Inv, NEW r \in Request, NEW l \in Local, Becomes(r, l),
           UNCHANGED <<escalation, thread, alive, nextId, clock, faults, extra, post, raced, vague>>,
           requests' \in 0 .. MaxRequests,
           op[r].step # "record", l.step \notin {"status", "record"},
           l.step \in {"edit", "announce"} => l.id < nextId,
           l.step = "delete" => l.only = {},
           l.step = "erase" => l.gone = l.only
    PROVE  Inv'
<1>1. op' \in [Request -> Local] /\ (IdsAreHandedOut /\ Others /\ AboutSomething /\ PostsAreOnTheirWay)'
    BY QuietStep
<1>2. \A id \in Live' : escalation'[id].closedAt = 0 <=> IsOpen(id)'
    BY DEF Inv, TypeOK, Live, IsOpen
<1> QED  BY <1>1, <1>2 DEF Inv, TypeOK, Others

LEMMA LiveIdsAreHandedOut == ASSUME Inv, NEW id \in Live PROVE id \in Id /\ id < nextId /\ escalation[id] \in Row
BY DEF Inv, IdsAreHandedOut, TypeOK, Live, Id

LEMMA ArrivesFacts ==
    ASSUME Inv, NEW r \in Request, Arrives(r)
    PROVE  op[r].step = "idle" /\ requests' \in 0 .. MaxRequests
BY IdleIsLocal, EscalationAssumption DEF Inv, TypeOK, Arrives, EscalationAssumption

LEMMA RaiseCheckInv == ASSUME Inv, NEW r \in Request, RaiseCheck(r) PROVE Inv'
<1>1. /\ At(r, "raise")
      /\ UNCHANGED <<escalation, thread, alive, nextId, clock, faults, requests, history>>
    BY DEF RaiseCheck
<1>2. PICK l : Becomes(r, l) /\ l \in Local /\ l.step \in {"create", "idle"}
    <2>1. op[r].thread \in Thread \cup {NoThread}
        BY <1>1, LocalFields DEF Inv, TypeOK, At
    <2>2. op[r].thread \in Thread => thread[op[r].thread] \in About \cup {NoRow}
        BY DEF Inv, TypeOK
    <2>3. {} \in About
        BY DEF About, AtMostOne
    <2>4. CASE op[r].thread = NoThread
        <3>1. [step |-> "create", thread |-> NoThread, about |-> {}] \in Local
            BY <2>3 DEF Local
        <3> QED  BY <2>4, <3>1 DEF RaiseCheck
    <2>5. CASE op[r].thread # NoThread /\ OpenOn(op[r].thread) # {}
        BY <2>5, IdleIsLocal DEF RaiseCheck
    <2>6. CASE op[r].thread # NoThread /\ OpenOn(op[r].thread) = {}
        <3>1. op[r].thread \in Thread /\ thread[op[r].thread] # NoRow
            BY <2>1, <2>6 DEF RaiseCheck
        <3>2. thread[op[r].thread] \in About
            BY <2>2, <3>1
        <3>3. [step |-> "create", thread |-> op[r].thread, about |-> thread[op[r].thread]] \in Local
            BY <2>1, <3>2 DEF Local
        <3> QED  BY <2>6, <3>3 DEF RaiseCheck
    <2> QED  BY <2>4, <2>5, <2>6
<1> QED
    BY <1>1, <1>2, QuietInv DEF At, history, Inv, TypeOK

LEMMA EditReadInv == ASSUME Inv, NEW r \in Request, EditRead(r) PROVE Inv'
<1>1. PICK id \in Live :
         /\ Starts(r, [step |-> "edit", id |-> id, before |-> escalation[id].owner])
         /\ UNCHANGED <<escalation, thread, alive, nextId, clock, faults, history>>
    BY DEF EditRead
<1> DEFINE l == [step |-> "edit", id |-> id, before |-> escalation[id].owner]
<1>2. id < nextId /\ escalation[id].owner \in Person \cup {NoOne} /\ id \in Id
    BY LiveIdsAreHandedOut DEF Row
<1>3. l \in Local /\ l.step = "edit" /\ l.id = id
    BY <1>2 DEF Local
<1> HIDE DEF l
<1>4. Becomes(r, l) /\ op[r].step # "record" /\ requests' \in 0 .. MaxRequests
    BY <1>1, ArrivesFacts DEF Starts, l
<1> QED  BY <1>1, <1>2, <1>3, <1>4, QuietInv DEF history

LEMMA DeletePartnerReadInv == ASSUME Inv, NEW r \in Request, DeletePartnerRead(r) PROVE Inv'
<1>1. PICK p \in Partner \cap alive :
         /\ AboutOnly(p) = {}
         /\ Starts(r, [step |-> "delete", partner |-> p,
                       only |-> {id \in Live : escalation[id].about = {p}}])
         /\ UNCHANGED <<escalation, thread, alive, nextId, clock, faults, history>>
    BY DEF DeletePartnerRead
<1> DEFINE l == [step |-> "delete", partner |-> p, only |-> {id \in Live : escalation[id].about = {p}}]
<1>2. l \in Local /\ l.step = "delete" /\ l.only = {}
    BY <1>1 DEF Local, AboutOnly
<1> HIDE DEF l
<1>3. Becomes(r, l) /\ op[r].step # "record" /\ requests' \in 0 .. MaxRequests
    BY <1>1, ArrivesFacts DEF Starts, l
<1> QED  BY <1>1, <1>2, <1>3, QuietInv DEF history

LEMMA AnnouncesLive ==
    ASSUME Inv, NEW id \in Live
    PROVE  LET l == [step |-> "announce", id |-> id] IN l \in Local /\ l.step = "announce" /\ l.id = id
BY LiveIdsAreHandedOut DEF Local

LEMMA EditWriteInv == ASSUME Inv, NEW r \in Request, EditWrite(r) PROVE Inv'
<1> DEFINE id == op[r].id
<1>1. /\ At(r, "edit")
      /\ UNCHANGED <<thread, alive, nextId, clock, faults, requests, raced, extra, post>>
    BY DEF EditWrite
<1>2. CASE Becomes(r, Idle) /\ UNCHANGED <<escalation, vague>>
    BY <1>1, <1>2, IdleIsLocal, QuietInv DEF At, Inv, TypeOK
<1>3. ASSUME NEW about \in About \ {{}}, NEW owner \in Person \cup {NoOne},
             id \in Live,
             escalation' = [escalation EXCEPT ![id].about = about, ![id].owner = owner],
             vague' = vague \ {id},
             Becomes(r, IF op[r].before = owner THEN Idle ELSE [step |-> "announce", id |-> id])
      PROVE  Inv'
    <2> DEFINE row == [escalation[id] EXCEPT !.about = about, !.owner = owner]
    <2> DEFINE l == IF op[r].before = owner THEN Idle ELSE [step |-> "announce", id |-> id]
    <2>1. escalation[id] \in Row
        BY <1>3, LiveIdsAreHandedOut
    <2>2. /\ row \in Row /\ row.about # {}
          /\ row.told = escalation[id].told /\ row.badge = escalation[id].badge
          /\ row.closedAt = escalation[id].closedAt /\ row.status = escalation[id].status
        BY <2>1 DEF Row
    <2>3. row.closedAt = 0 <=> row.status = "open"
        BY <1>3, <2>2 DEF Inv, TypeOK, IsOpen
    <2>4. l \in Local /\ l.step \in {"idle", "announce"} /\ (l.step = "announce" => l.id = id)
        BY <1>3, IdleIsLocal, AnnouncesLive
    <2>5. escalation' = [escalation EXCEPT ![id] = row]
        BY <1>3
    <2>6. vague' \subseteq Id
        BY <1>3 DEF Inv, TypeOK
    <2> HIDE DEF row, l
    <2>7. Becomes(r, l) /\ op[r].step = "edit"
        BY <1>1, <1>3 DEF At, l
    <2> HIDE DEF id
    <2>8. /\ op' \in [Request -> Local]
          /\ escalation' \in [Id -> Row \cup {NoRow}]
          /\ \A i \in Live' : escalation'[i].closedAt = 0 <=> IsOpen(i)'
          /\ (IdsAreHandedOut /\ Others /\ AboutSomething /\ PostsAreOnTheirWay)'
        BY <1>1, <1>3, <2>2, <2>3, <2>4, <2>5, <2>7, RowStep
    <2> QED  BY <1>1, <2>6, <2>8 DEF Inv, TypeOK, Others
<1> QED  BY <1>2, <1>3 DEF EditWrite

LEMMA StatusWriteInv == ASSUME Inv, NEW r \in Request, StatusWrite(r) PROVE Inv'
<1> DEFINE id == op[r].id
<1>1. /\ At(r, "status")
      /\ UNCHANGED <<thread, alive, nextId, faults, requests, raced, vague, post>>
    BY DEF StatusWrite
<1>2. CASE Becomes(r, Idle) /\ UNCHANGED <<escalation, clock, extra>>
    BY <1>1, <1>2, IdleIsLocal, QuietInv DEF At, Inv, TypeOK
<1>3. ASSUME id \in Live, clock' = clock + 1,
             escalation' = [escalation EXCEPT ![id] = Moved(@, op[r].status, op[r].original, clock')],
             extra' = [t \in Thread |->
                IF op[r].status = "open" /\ escalation[id].thread = t THEN extra[t] + 1 ELSE extra[t]],
             Becomes(r, [step |-> "announce", id |-> id])
      PROVE  Inv'
    <2> DEFINE row == Moved(escalation[id], op[r].status, op[r].original, clock')
    <2> DEFINE l == [step |-> "announce", id |-> id]
    <2>1. /\ escalation[id] \in Row /\ op[r].status \in Status /\ op[r].original \in Id \cup {NoId}
          /\ clock' \in Nat /\ clock' # 0
        BY <1>1, <1>3, LiveIdsAreHandedOut, LocalFields DEF Inv, TypeOK, At
    <2>2. /\ row \in Row /\ row.about = escalation[id].about
          /\ row.told = escalation[id].told /\ row.badge = escalation[id].badge
          /\ row.closedAt = 0 <=> row.status = "open"
        BY <2>1, MovedIsRow
    <2>3. row.about = {} => id \in vague'
        BY <1>1, <1>3, <2>2 DEF Inv, AboutSomething
    <2>4. l \in Local /\ l.step = "announce" /\ l.id = id
        BY <1>3, AnnouncesLive
    <2>5. escalation' = [escalation EXCEPT ![id] = row]
        BY <1>3
    <2>6. extra' \in [Thread -> Nat]
        BY <1>3 DEF Inv, TypeOK
    <2>7. AtId(r, "status", id) /\ op[r].step = "status"
        BY <1>1 DEF AtId, At
    <2> HIDE DEF row, l
    <2>8. Becomes(r, l) /\ id \in Live
        BY <1>3 DEF l
    <2> HIDE DEF id
    <2>9. /\ op' \in [Request -> Local]
          /\ escalation' \in [Id -> Row \cup {NoRow}]
          /\ \A i \in Live' : escalation'[i].closedAt = 0 <=> IsOpen(i)'
          /\ (IdsAreHandedOut /\ Others /\ AboutSomething /\ PostsAreOnTheirWay)'
        BY <1>1, <2>2, <2>3, <2>4, <2>5, <2>7, <2>8, RowStep
    <2> QED  BY <1>1, <2>1, <2>6, <2>9 DEF Inv, TypeOK, Others
<1> QED  BY <1>2, <1>3 DEF StatusWrite

(* The second of two overlapping changes marks the escalation as raced.     *)
LEMMA StatusReadInv == ASSUME Inv, NEW r \in Request, StatusRead(r) PROVE Inv'
<1>1. PICK id \in Live, status \in Status, original \in Id \cup {NoId} :
         /\ CanTransition(escalation[id].status, status)
         /\ Starts(r, [step |-> "status", id |-> id, status |-> status, original |-> original])
         /\ raced' = IF Changing(id) = {} THEN raced ELSE raced \cup {id}
         /\ UNCHANGED <<escalation, thread, alive, nextId, clock, faults, extra, vague, post>>
    BY DEF StatusRead
<1> DEFINE l == [step |-> "status", id |-> id, status |-> status, original |-> original]
<1>2. id \in Id /\ id < nextId
    BY LiveIdsAreHandedOut
<1>3. l \in Local /\ l.step = "status" /\ l.id = id /\ l.status = status
    BY <1>2 DEF Local
<1> HIDE DEF l
<1>4. Becomes(r, l) /\ op[r].step = "idle" /\ requests' \in 0 .. MaxRequests
    BY <1>1, ArrivesFacts DEF Starts, l
<1>5. op' \in [Request -> Local] /\ op'[r] = l /\ \A q \in Request : q # r => op'[q] = op[q]
    BY <1>3, <1>4, Moves DEF Inv
<1>6. Live' = Live /\ (\A i \in Live' : escalation'[i].closedAt = 0 <=> IsOpen(i)')
    BY <1>1 DEF Inv, TypeOK, Live, IsOpen
<1>7. \A q \in Request, i \in Id :
         /\ AtId(q, "record", i)' <=> AtId(q, "record", i)
         /\ AtId(q, "record", i) => op'[q] = op[q]
         /\ AtId(q, "status", i)' => AtId(q, "status", i) \/ (q = r /\ i = id)
    BY <1>3, <1>4, <1>5 DEF AtId, At
<1>8. TypeOK'
    BY <1>1, <1>2, <1>4, <1>5, <1>6 DEF Inv, TypeOK
<1>9. IdsAreHandedOut'
    BY <1>1, <1>2, <1>3, <1>5 DEF Inv, IdsAreHandedOut
<1>10. ChangesAreAllowed'
    <2> SUFFICES ASSUME NEW q \in Request, At(q, "status")', op'[q].id \notin raced'
                 PROVE  StillAllowed(q)'
        BY DEF ChangesAreAllowed
    <2>1. raced \subseteq raced'
        BY <1>1
    <2>2. CASE q = r
        <3>1. \A p \in Request : ~AtId(p, "status", id)
            BY <1>1, <1>3, <1>5, <2>2 DEF Changing, AtId
        <3>2. \A p \in Request : AtId(p, "status", op[q].id)' => p = q
            BY <1>2, <1>3, <1>5, <1>7, <2>2, <3>1
        <3>3. (op[q].id \in Live => CanTransition(escalation[op[q].id].status, op[q].status))'
            BY <1>1, <1>3, <1>5, <2>2 DEF CanTransition
        <3> QED  BY <3>2, <3>3 DEF StillAllowed
    <2>3. CASE q # r
        <3>1. op'[q] = op[q] /\ At(q, "status") /\ op[q].id \in Id
            BY <1>5, <2>3, LocalFields DEF Inv, TypeOK, At
        <3>2. StillAllowed(q)
            BY <2>1, <3>1 DEF Inv, ChangesAreAllowed
        <3>3. op[q].id # id
            <4>1. op[q].id = id => q \in Changing(id)
                BY <3>1 DEF Changing
            <4> QED  BY <1>1, <3>1, <4>1
        <3>4. \A p \in Request : AtId(p, "status", op[q].id)' => p = q
            BY <1>7, <3>1, <3>2, <3>3 DEF StillAllowed
        <3>5. (op[q].id \in Live => CanTransition(escalation[op[q].id].status, op[q].status))'
            BY <1>1, <1>6, <3>1, <3>2 DEF StillAllowed, CanTransition
        <3> QED  BY <3>4, <3>5 DEF StillAllowed
    <2> QED  BY <2>2, <2>3
<1>11. CountsAreZero' /\ OnePostAtATime'
    BY <1>1, <1>3, <1>5, <1>7 DEF Inv, CountsAreZero, OnePostAtATime, At
<1>12. AboutSomething'
    BY <1>1, <1>6 DEF Inv, AboutSomething
<1>13. PostsAreOnTheirWay'
    <2> SUFFICES ASSUME NEW i \in Live', ~post'[i].lost PROVE Honest(i)'
        BY DEF PostsAreOnTheirWay
    <2>1. i \in Id /\ Honest(i)
        BY <1>1, <1>6 DEF Inv, PostsAreOnTheirWay, Live
    <2>2. (InFlight(i)' <=> InFlight(i)) /\ (Delivering(i)' <=> Delivering(i))
        BY <1>7, <2>1 DEF InFlight, Delivering
    <2> QED  BY <1>1, <2>1, <2>2 DEF Honest
<1> QED  BY <1>8, <1>9, <1>10, <1>11, <1>12, <1>13 DEF Inv

LEMMA DeleteProjectBeginInv == ASSUME Inv, NEW r \in Request, DeleteProjectBegin(r) PROVE Inv'
<1>1. PICK g \in Program \cap alive :
         /\ Starts(r, [step |-> "erase", program |-> g, gone |-> AboutOnly(g),
                       only |-> {id \in Live : escalation[id].about = {g}}])
         /\ UNCHANGED <<escalation, thread, alive, nextId, clock, faults, history>>
    BY DEF DeleteProjectBegin
<1> DEFINE l == [step |-> "erase", program |-> g, gone |-> AboutOnly(g),
                 only |-> {id \in Live : escalation[id].about = {g}}]
<1>2. l \in Local /\ l.step = "erase" /\ l.gone = l.only
    BY DEF Local, AboutOnly, Live
<1> HIDE DEF l
<1>3. Becomes(r, l) /\ op[r].step # "record" /\ requests' \in 0 .. MaxRequests
    BY <1>1, ArrivesFacts DEF Starts, l
<1> QED  BY <1>1, <1>2, <1>3, QuietInv DEF history

LEMMA DeleteProjectCommitInv == ASSUME Inv, NEW r \in Request, DeleteProjectCommit(r) PROVE Inv'
<1> DEFINE g == op[r].program
           gone == op[r].gone
           Late == {id \in Live \ gone : escalation[id].about = {g} /\ id \notin op[r].only}
<1>1. At(r, "erase") /\ UNCHANGED <<nextId, clock, faults, requests, raced, extra, post>>
    BY DEF DeleteProjectCommit
<1>2. CASE Becomes(r, Idle) /\ UNCHANGED <<escalation, thread, alive, vague>>
    BY <1>1, <1>2, IdleIsLocal, QuietInv DEF At, Inv, TypeOK
<1>3. CASE /\ DeletesThreads(r, Filed(g))
           /\ escalation' = Detached({g}, Filed(g), gone)
           /\ thread' = Without(Filed(g)) /\ alive' = alive \ {g}
           /\ vague' = vague \cup Late
    <2>1. op[r].step \in {"idle", "delete", "erase"} /\ gone = op[r].only
        BY <1>1 DEF At, Inv, CountsAreZero
    <2>2. \A id \in Live \ gone :
             (escalation[id].about # {} /\ escalation[id].about \ {g} = {}) => id \in vague'
        BY <1>3, <2>1
    <2>3. thread' \in [Thread -> About \cup {NoRow}]
        BY <1>3 DEF Without, Inv, TypeOK
    <2>4. vague' \subseteq Id
        BY <1>3 DEF Inv, TypeOK, Live
    <2> HIDE DEF g, gone, Late
    <2>5. /\ op' \in [Request -> Local]
          /\ escalation' \in [Id -> Row \cup {NoRow}]
          /\ \A i \in Live' : escalation'[i].closedAt = 0 <=> IsOpen(i)'
          /\ (IdsAreHandedOut /\ Others /\ AboutSomething /\ PostsAreOnTheirWay)'
        BY <1>1, <1>3, <2>1, <2>2, DetachStep
    <2> QED  BY <1>1, <1>3, <2>3, <2>4, <2>5 DEF Inv, TypeOK, Others
<1> QED  BY <1>2, <1>3 DEF DeleteProjectCommit

LEMMA DeleteThreadInv == ASSUME Inv, NEW r \in Request, DeleteThread(r) PROVE Inv'
<1>1. PICK t \in Thread :
         /\ Arrives(r) /\ DeletesThreads(r, {t})
         /\ escalation' = Detached({}, {t}, {})
         /\ thread' = Without({t})
         /\ UNCHANGED <<alive, nextId, clock, faults, history>>
    BY DEF DeleteThread
<1>2. op[r].step \in {"idle", "delete"} /\ requests' \in 0 .. MaxRequests
    BY <1>1, ArrivesFacts
<1>3. \A id \in Live \ {} :
         ~(escalation[id].about # {} /\ escalation[id].about \ {} = {})
    OBVIOUS
<1>4. thread' \in [Thread -> About \cup {NoRow}]
    BY <1>1 DEF Without, Inv, TypeOK
<1>5. UNCHANGED <<post, raced, nextId, vague, extra>>
    BY <1>1 DEF history
<1>6. /\ op' \in [Request -> Local]
      /\ escalation' \in [Id -> Row \cup {NoRow}]
      /\ \A i \in Live' : escalation'[i].closedAt = 0 <=> IsOpen(i)'
      /\ (IdsAreHandedOut /\ Others /\ AboutSomething /\ PostsAreOnTheirWay)'
    BY <1>1, <1>2, <1>3, <1>5, DetachStep
<1> QED  BY <1>1, <1>2, <1>4, <1>5, <1>6 DEF Inv, TypeOK, Others

LEMMA DeletePartnerCommitInv == ASSUME Inv, NEW r \in Request, DeletePartnerCommit(r) PROVE Inv'
<1> DEFINE p == op[r].partner
           Now == {id \in Live : escalation[id].about = {p}}
<1>1. At(r, "delete") /\ UNCHANGED <<nextId, clock, faults, requests, raced, extra, post>>
    BY DEF DeletePartnerCommit
<1>2. CASE Becomes(r, Idle) /\ UNCHANGED <<escalation, thread, alive, vague>>
    BY <1>1, <1>2, IdleIsLocal, QuietInv DEF At, Inv, TypeOK
<1>3. CASE /\ DeletesThreads(r, Filed(p))
           /\ escalation' = Detached({p}, Filed(p), {})
           /\ thread' = Without(Filed(p)) /\ alive' = alive \ {p}
           /\ vague' = vague \cup (Now \ op[r].only)
    <2>1. op[r].step \in {"idle", "delete"} /\ op[r].only = {}
        BY <1>1 DEF At, Inv, CountsAreZero
    <2>2. \A id \in Live \ {} :
             (escalation[id].about # {} /\ escalation[id].about \ {p} = {}) => id \in vague'
        BY <1>3, <2>1
    <2>3. thread' \in [Thread -> About \cup {NoRow}]
        BY <1>3 DEF Without, Inv, TypeOK
    <2>4. vague' \subseteq Id
        BY <1>3 DEF Inv, TypeOK, Live
    <2> HIDE DEF p, Now
    <2>5. /\ op' \in [Request -> Local]
          /\ escalation' \in [Id -> Row \cup {NoRow}]
          /\ \A i \in Live' : escalation'[i].closedAt = 0 <=> IsOpen(i)'
          /\ (IdsAreHandedOut /\ Others /\ AboutSomething /\ PostsAreOnTheirWay)'
        BY <1>1, <1>3, <2>1, <2>2, DetachStep
    <2> QED  BY <1>1, <1>3, <2>3, <2>4, <2>5 DEF Inv, TypeOK, Others
<1> QED  BY <1>2, <1>3 DEF DeletePartnerCommit

(* A post leaves: from here until it is recorded, the request knows what    *)
(* the row does not.                                                        *)
LEMMA PostLeaves ==
    ASSUME Inv, NEW r \in Request, At(r, "announce"), NEW id \in Live, op[r].id = id,
           NEW outcome \in Outcome,
           Becomes(r, [step |-> "record", id |-> id, outcome |-> outcome]),
           post' = [post EXCEPT ![id].latest = outcome,
                                ![id].told = @ \/ outcome = "delivered",
                                ![id].crossed = @ \/ Posting(id) # {}],
           UNCHANGED <<escalation, thread, alive, nextId, clock, faults, requests, raced, extra, vague>>
    PROVE  Inv'
<1> DEFINE l == [step |-> "record", id |-> id, outcome |-> outcome]
<1>1. id \in Id /\ id < nextId
    BY LiveIdsAreHandedOut
<1>2. l \in Local /\ l.step = "record" /\ l.id = id /\ l.outcome = outcome
    BY <1>1 DEF Local
<1> HIDE DEF l
<1>3. op' \in [Request -> Local] /\ op'[r] = l /\ \A q \in Request : q # r => op'[q] = op[q]
    <2>1. Becomes(r, l)
        BY DEF l
    <2> QED  BY <1>2, <2>1, Moves DEF Inv
<1>4. post[id] \in Post
    BY <1>1 DEF Inv, TypeOK
<1>5. /\ post' \in [Id -> Post]
      /\ post'[id].latest = outcome /\ post'[id].lost = post[id].lost
      /\ post'[id].told <=> (post[id].told \/ outcome = "delivered")
      /\ post'[id].crossed <=> (post[id].crossed \/ Posting(id) # {})
      /\ \A i \in Id \ {id} : post'[i] = post[i]
    BY <1>1, <1>4 DEF Inv, TypeOK, Post
<1>6. Live' = Live /\ (\A i \in Live' : escalation'[i].closedAt = 0 <=> IsOpen(i)')
    BY DEF Inv, TypeOK, Live, IsOpen
<1>7. TypeOK'
    BY <1>3, <1>5, <1>6 DEF Inv, TypeOK
<1>8. \A q \in Request, i \in Id :
         /\ AtId(q, "record", i)' <=> AtId(q, "record", i) \/ (q = r /\ i = id)
         /\ AtId(q, "record", i) => op'[q] = op[q] /\ q # r
         /\ AtId(q, "status", i)' => AtId(q, "status", i)
    BY <1>2, <1>3 DEF AtId, At
<1>9. IdsAreHandedOut'
    <2>1. \A i \in Id : i >= nextId => i # id
        BY <1>1 DEF Inv, TypeOK, Id
    <2> QED  BY <1>1, <1>2, <1>3, <1>5, <2>1 DEF Inv, IdsAreHandedOut
<1>10. ChangesAreAllowed'
    <2> SUFFICES ASSUME NEW q \in Request, At(q, "status")', op'[q].id \notin raced'
                 PROVE  StillAllowed(q)'
        BY DEF ChangesAreAllowed
    <2>1. op'[q] = op[q] /\ At(q, "status")
        BY <1>2, <1>3 DEF At
    <2>2. op[q].id \in Id /\ StillAllowed(q)
        BY <2>1, LocalFields DEF Inv, TypeOK, At, ChangesAreAllowed
    <2>3. \A p \in Request : AtId(p, "status", op[q].id)' => p = q
        BY <1>8, <2>1, <2>2 DEF StillAllowed
    <2>4. (op[q].id \in Live => CanTransition(escalation[op[q].id].status, op[q].status))'
        BY <1>6, <2>1, <2>2 DEF StillAllowed, CanTransition
    <2> QED  BY <2>3, <2>4 DEF StillAllowed
<1>11. CountsAreZero' /\ AboutSomething'
    BY <1>2, <1>3, <1>6 DEF Inv, CountsAreZero, AboutSomething, At
<1>12. OnePostAtATime'
    <2> SUFFICES ASSUME NEW i \in Id, ~post'[i].crossed
                 PROVE  /\ \A p, q \in Request :
                              (AtId(p, "record", i)' /\ AtId(q, "record", i)') => p = q
                        /\ \A q \in Request : AtId(q, "record", i)' => op'[q].outcome = post'[i].latest
        BY DEF OnePostAtATime, AtId, At
    <2>1. CASE i # id
        BY <1>5, <1>8, <2>1 DEF Inv, OnePostAtATime
    <2>2. CASE i = id
        <3>1. \A q \in Request : ~AtId(q, "record", id)
            BY <1>5, <2>2 DEF Posting, AtId
        <3> QED  BY <1>1, <1>2, <1>3, <1>5, <1>8, <2>2, <3>1
    <2> QED  BY <2>1, <2>2
<1>13. PostsAreOnTheirWay'
    <2> SUFFICES ASSUME NEW i \in Live', ~post'[i].lost PROVE Honest(i)'
        BY DEF PostsAreOnTheirWay
    <2>1. i \in Id /\ Honest(i)
        BY <1>5, <1>6 DEF Inv, PostsAreOnTheirWay, Live
    <2>2. CASE i # id
        <3>1. (InFlight(i)' <=> InFlight(i)) /\ (Delivering(i)' <=> Delivering(i))
            BY <1>8, <2>1, <2>2 DEF InFlight, Delivering
        <3> QED  BY <1>5, <2>1, <2>2, <3>1 DEF Honest
    <2>3. CASE i = id
        <3>1. InFlight(id)' /\ (Delivering(id)' <=> Delivering(id) \/ outcome = "delivered")
            BY <1>1, <1>2, <1>3, <1>8 DEF InFlight, Delivering
        <3> QED  BY <1>5, <2>1, <2>3, <3>1 DEF Honest
    <2> QED  BY <2>2, <2>3
<1> QED  BY <1>7, <1>9, <1>10, <1>11, <1>12, <1>13 DEF Inv

LEMMA AnnounceInv == ASSUME Inv, NEW r \in Request, Announce(r) PROVE Inv'
<1>1. /\ At(r, "announce")
      /\ UNCHANGED <<escalation, thread, alive, nextId, clock, faults, requests, raced, extra, vague>>
    BY DEF Announce
<1>2. CASE Becomes(r, Idle) /\ UNCHANGED post
    BY <1>1, <1>2, IdleIsLocal, QuietInv DEF At, Inv, TypeOK
<1>3. ASSUME op[r].id \in Live, NEW outcome \in Outcome,
             Becomes(r, [step |-> "record", id |-> op[r].id, outcome |-> outcome]),
             post' = [post EXCEPT ![op[r].id].latest = outcome,
                                  ![op[r].id].told = @ \/ outcome = "delivered",
                                  ![op[r].id].crossed = @ \/ Posting(op[r].id) # {}]
      PROVE  Inv'
    BY <1>1, <1>3, PostLeaves
<1> QED  BY <1>2, <1>3 DEF Announce

(* A request leaves the flight: nothing but a post may go with it.          *)
LEMMA Leaves ==
    ASSUME Inv, NEW r \in Request, Becomes(r, Idle), op[r].step = "record",
           UNCHANGED <<nextId, raced>>, Live' \subseteq Live,
           \A i \in Live' : escalation'[i].status = escalation[i].status,
           \A i \in Id : escalation[i] = NoRow => escalation'[i] = NoRow,
           \A i \in Id : post'[i] = post[i]
              \/ (i = op[r].id /\ post'[i].crossed = post[i].crossed /\ post'[i].latest = post[i].latest)
    PROVE  /\ op' \in [Request -> Local]
           /\ (IdsAreHandedOut /\ Others)'
           /\ \A q \in Request, i \in Id :
                 AtId(q, "record", i)' <=> (AtId(q, "record", i) /\ q # r)
           /\ \A q \in Request : q # r => op'[q] = op[q]
<1>1. op' \in [Request -> Local] /\ op'[r] = Idle /\ \A q \in Request : q # r => op'[q] = op[q]
    BY Moves, IdleIsLocal DEF Inv
<1>2. \A q \in Request, i \in Id :
         /\ AtId(q, "record", i)' <=> (AtId(q, "record", i) /\ q # r)
         /\ AtId(q, "status", i)' => AtId(q, "status", i)
    BY <1>1, IdleIsLocal DEF AtId, At
<1>3. IdsAreHandedOut'
    <2>1. op[r].id \in Id /\ op[r].id < nextId
        BY LocalFields DEF Inv, TypeOK, IdsAreHandedOut
    <2>2. \A i \in Id : i >= nextId => i # op[r].id
        BY <2>1 DEF Inv, TypeOK, Id
    <2> QED  BY <1>1, <2>2, IdleIsLocal DEF Inv, IdsAreHandedOut
<1>4. ChangesAreAllowed'
    <2> SUFFICES ASSUME NEW q \in Request, At(q, "status")', op'[q].id \notin raced'
                 PROVE  StillAllowed(q)'
        BY DEF ChangesAreAllowed
    <2>1. op'[q] = op[q] /\ At(q, "status")
        BY <1>1, IdleIsLocal DEF At
    <2>2. op[q].id \in Id /\ StillAllowed(q)
        BY <2>1, LocalFields DEF Inv, TypeOK, At, ChangesAreAllowed
    <2>3. \A p \in Request : AtId(p, "status", op[q].id)' => p = q
        BY <1>2, <2>1, <2>2 DEF StillAllowed
    <2>4. (op[q].id \in Live => CanTransition(escalation[op[q].id].status, op[q].status))'
        BY <2>1, <2>2 DEF StillAllowed, CanTransition
    <2> QED  BY <2>3, <2>4 DEF StillAllowed
<1>5. CountsAreZero'
    BY <1>1, IdleIsLocal DEF Inv, CountsAreZero, At
<1>6. OnePostAtATime'
    <2> SUFFICES ASSUME NEW i \in Id, ~post'[i].crossed
                 PROVE  /\ \A p, q \in Request :
                              (AtId(p, "record", i)' /\ AtId(q, "record", i)') => p = q
                        /\ \A q \in Request : AtId(q, "record", i)' => op'[q].outcome = post'[i].latest
        BY DEF OnePostAtATime, AtId, At
    <2>1. post'[i].latest = post[i].latest /\ ~post[i].crossed
        OBVIOUS
    <2> QED  BY <1>1, <1>2, <2>1 DEF Inv, OnePostAtATime
<1> QED  BY <1>1, <1>2, <1>3, <1>4, <1>5, <1>6 DEF Others

LEMMA RecordInv == ASSUME Inv, NEW r \in Request, Record(r) PROVE Inv'
<1> DEFINE id == op[r].id
           outcome == op[r].outcome
<1>1. /\ At(r, "record") /\ Becomes(r, Idle)
      /\ UNCHANGED <<thread, alive, nextId, clock, faults, requests, raced, extra, vague, post>>
    BY DEF Record, history
<1>2. id \in Id /\ outcome \in Outcome /\ op[r].step = "record" /\ AtId(r, "record", id)
    BY <1>1, LocalFields DEF Inv, TypeOK, At, AtId
<1>3. Live \subseteq Id /\ (\A i \in Live : escalation[i] \in Row)
    BY DEF Inv, TypeOK, Live
<1>4. /\ escalation' \in [Id -> Row \cup {NoRow}]
      /\ \A i \in Id : escalation[i] = NoRow => escalation'[i] = NoRow
      /\ \A i \in Id : i # id => escalation'[i] = escalation[i]
      /\ id \in Live => escalation'[id] = Recorded(escalation[id], outcome)
    <2>1. CASE id \in Live /\ escalation' = [escalation EXCEPT ![id] = Recorded(escalation[id], outcome)]
        <3>1. Recorded(escalation[id], outcome) \in Row /\ escalation[id] # NoRow
            BY <1>2, <1>3, <2>1, RecordedIsRow DEF Live
        <3> HIDE DEF id, outcome
        <3> QED  BY <1>2, <1>3, <2>1, <3>1 DEF Inv, TypeOK
    <2>2. CASE id \notin Live /\ UNCHANGED escalation
        BY <1>3, <2>2 DEF Inv, TypeOK, Live
    <2> QED  BY <2>1, <2>2 DEF Record
<1>5. Live' \subseteq Live
    BY <1>4 DEF Live
<1>6. \A i \in Live' : /\ escalation'[i].status = escalation[i].status
                       /\ escalation'[i].closedAt = escalation[i].closedAt
                       /\ escalation'[i].about = escalation[i].about
    BY <1>2, <1>3, <1>4, <1>5, RecordedIsRow
<1>7. \A i \in Live' : escalation'[i].closedAt = 0 <=> IsOpen(i)'
    BY <1>5, <1>6 DEF Inv, TypeOK, IsOpen
<1>8. /\ op' \in [Request -> Local]
      /\ (IdsAreHandedOut /\ Others)'
      /\ \A q \in Request, i \in Id : AtId(q, "record", i)' <=> (AtId(q, "record", i) /\ q # r)
      /\ \A q \in Request : q # r => op'[q] = op[q]
    BY <1>1, <1>2, <1>4, <1>5, <1>6, Leaves
<1>9. AboutSomething'
    BY <1>1, <1>5, <1>6 DEF Inv, AboutSomething
<1>10. PostsAreOnTheirWay'
    <2> SUFFICES ASSUME NEW i \in Live', ~post[i].lost PROVE Honest(i)'
        BY <1>1 DEF PostsAreOnTheirWay
    <2>1. i \in Id /\ i \in Live /\ Honest(i)
        BY <1>3, <1>5 DEF Inv, PostsAreOnTheirWay
    <2>2. CASE i # id
        <3>1. \A q \in Request : /\ AtId(q, "record", i)' <=> AtId(q, "record", i)
                                 /\ AtId(q, "record", i) => op'[q] = op[q]
            BY <1>8, <2>1, <2>2 DEF AtId
        <3>2. (InFlight(i)' <=> InFlight(i)) /\ (Delivering(i)' <=> Delivering(i))
            BY <3>1 DEF InFlight, Delivering
        <3> QED  BY <1>1, <1>4, <2>1, <2>2, <3>2 DEF Honest
    <2>3. CASE i = id
        <3>1. /\ escalation'[i].told <=> (escalation[i].told \/ outcome = "delivered")
              /\ escalation'[i].badge <=> outcome = "refused"
            <4>1. escalation[i] \in Row /\ escalation'[i] = Recorded(escalation[i], outcome)
                BY <1>3, <1>4, <2>1, <2>3
            <4> HIDE DEF id, outcome
            <4>2. outcome \in Outcome
                BY <1>2
            <4>3. /\ Recorded(escalation[i], outcome).told = (escalation[i].told \/ outcome = "delivered")
                  /\ Recorded(escalation[i], outcome).badge = (outcome = "refused")
                BY <4>1, <4>2, RecordedIsRow
            <4>4. /\ escalation'[i].told = (escalation[i].told \/ outcome = "delivered")
                  /\ escalation'[i].badge = (outcome = "refused")
                BY <4>1, <4>3, Zenon
            <4> QED  BY <4>4, Zenon
        <3>2. Delivering(i) <=> (Delivering(i)' \/ outcome = "delivered")
            BY <1>2, <1>8, <2>1, <2>3 DEF Delivering
        <3>3. ASSUME ~post[i].crossed
              PROVE  outcome = post[i].latest
            BY <1>2, <2>1, <2>3, <3>3 DEF Inv, OnePostAtATime
        <3> HIDE DEF id, outcome
        <3>4. post[i].told <=> (escalation'[i].told \/ Delivering(i)')
            BY <2>1, <3>1, <3>2 DEF Honest
        <3>5. ~post[i].crossed => (escalation'[i].badge <=> post[i].latest = "refused")
            BY <3>1, <3>3
        <3> QED  BY <1>1, <3>4, <3>5 DEF Honest
    <2> QED  BY <2>2, <2>3
<1> QED  BY <1>1, <1>4, <1>7, <1>8, <1>9, <1>10 DEF Inv, TypeOK, Others

LEMMA KillInv == ASSUME Inv, NEW r \in Request, Kill(r) PROVE Inv'
<1> USE EscalationAssumption DEF EscalationAssumption
<1>1. /\ op[r] # Idle /\ faults < MaxFaults /\ faults' = faults + 1 /\ Becomes(r, Idle)
      /\ UNCHANGED <<escalation, thread, alive, nextId, clock, requests, raced, extra, vague>>
    BY DEF Kill
<1>2. faults' \in 0 .. MaxFaults
    BY <1>1 DEF Inv, TypeOK
<1>3. Live' = Live /\ (\A i \in Live' : escalation'[i].closedAt = 0 <=> IsOpen(i)')
    BY <1>1 DEF Inv, TypeOK, Live, IsOpen
<1>4. CASE ~At(r, "record")
    <2>1. post' = post /\ op[r].step # "record"
        BY <1>4 DEF Kill, At
    <2>2. /\ op' \in [Request -> Local]
          /\ (IdsAreHandedOut /\ Others /\ AboutSomething /\ PostsAreOnTheirWay)'
        BY <1>1, <2>1, IdleIsLocal, QuietStep
    <2> QED  BY <1>1, <1>2, <1>3, <2>1, <2>2 DEF Inv, TypeOK, Others
<1>5. CASE At(r, "record")
    <2> DEFINE id == op[r].id
    <2>1. id \in Id /\ op[r].step = "record"
        BY <1>5, LocalFields DEF Inv, TypeOK, At
    <2>2. post' = [post EXCEPT ![id].lost = TRUE]
        BY <1>5 DEF Kill
    <2> HIDE DEF id
    <2>3. /\ post' \in [Id -> Post]
          /\ \A i \in Id : i # id => post'[i] = post[i]
          /\ post'[id].lost /\ post'[id].crossed = post[id].crossed /\ post'[id].latest = post[id].latest
        <3>1. post[id] \in Post
            BY <2>1 DEF Inv, TypeOK
        <3> QED  BY <2>1, <2>2, <3>1 DEF Inv, TypeOK, Post
    <2>4. /\ op' \in [Request -> Local]
          /\ (IdsAreHandedOut /\ Others)'
          /\ \A q \in Request, i \in Id : AtId(q, "record", i)' <=> (AtId(q, "record", i) /\ q # r)
          /\ \A q \in Request : q # r => op'[q] = op[q]
        BY <1>1, <1>3, <2>1, <2>3, Leaves DEF id
    <2>5. AboutSomething'
        BY <1>1, <1>3 DEF Inv, AboutSomething
    <2>6. PostsAreOnTheirWay'
        <3> SUFFICES ASSUME NEW i \in Live', ~post'[i].lost PROVE Honest(i)'
            BY DEF PostsAreOnTheirWay
        <3>1. i # id /\ i \in Id /\ post'[i] = post[i] /\ Honest(i)
            BY <1>3, <2>3 DEF Inv, PostsAreOnTheirWay, Live
        <3>2. \A q \in Request : /\ AtId(q, "record", i)' <=> AtId(q, "record", i)
                                 /\ AtId(q, "record", i) => op'[q] = op[q]
            BY <2>4, <3>1 DEF AtId, id
        <3>3. (InFlight(i)' <=> InFlight(i)) /\ (Delivering(i)' <=> Delivering(i))
            BY <3>2 DEF InFlight, Delivering
        <3> QED  BY <1>1, <3>1, <3>3 DEF Honest
    <2> QED  BY <1>1, <1>2, <1>3, <2>3, <2>4, <2>5, <2>6 DEF Inv, TypeOK, Others
<1> QED  BY <1>4, <1>5

-----------------------------------------------------------------------------

LEMMA NextInv == Inv /\ [Next]_vars => Inv'
<1> SUFFICES ASSUME Inv, [Next]_vars PROVE Inv'
    OBVIOUS
<1>1. CASE UNCHANGED vars
    BY <1>1 DEF vars, Inv, TypeOK, Live, IsOpen, IdsAreHandedOut, ChangesAreAllowed, StillAllowed,
                AtId, At, CanTransition, CountsAreZero, AboutSomething, OnePostAtATime,
                PostsAreOnTheirWay, Honest, InFlight, Delivering
<1>2. ASSUME NEW r \in Request, CreateEscalation(r) PROVE Inv'
    BY <1>2, CreateInv
<1>3. ASSUME NEW r \in Request, PostEscalation(r) PROVE Inv'
    BY <1>3, PostInv
<1>4. ASSUME NEW r \in Request, Mention(r) \/ Revise(r) \/ Classify(r) \/ SaveThread(r) PROVE Inv'
    BY <1>4, MentionInv, ReviseInv, ClassifyInv, SaveThreadInv
<1>5. ASSUME NEW r \in Request, RaiseCheck(r) PROVE Inv'
    BY <1>5, RaiseCheckInv
<1>6. ASSUME NEW r \in Request, RaiseCreate(r) PROVE Inv'
    BY <1>6, RaiseCreateInv
<1>7. ASSUME NEW r \in Request, EditRead(r) PROVE Inv'
    BY <1>7, EditReadInv
<1>8. ASSUME NEW r \in Request, EditWrite(r) PROVE Inv'
    BY <1>8, EditWriteInv
<1>9. ASSUME NEW r \in Request, StatusRead(r) PROVE Inv'
    BY <1>9, StatusReadInv
<1>10. ASSUME NEW r \in Request, StatusWrite(r) PROVE Inv'
    BY <1>10, StatusWriteInv
<1>11. ASSUME NEW r \in Request, Announce(r) PROVE Inv'
    BY <1>11, AnnounceInv
<1>12. ASSUME NEW r \in Request, Record(r) PROVE Inv'
    BY <1>12, RecordInv
<1>13. ASSUME NEW r \in Request, DeleteProjectBegin(r) \/ DeleteProjectCommit(r) PROVE Inv'
    BY <1>13, DeleteProjectBeginInv, DeleteProjectCommitInv
<1>14. ASSUME NEW r \in Request, DeletePartnerRead(r) PROVE Inv'
    BY <1>14, DeletePartnerReadInv
<1>15. ASSUME NEW r \in Request, DeletePartnerCommit(r) PROVE Inv'
    BY <1>15, DeletePartnerCommitInv
<1>16. ASSUME NEW r \in Request, DeleteThread(r) PROVE Inv'
    BY <1>16, DeleteThreadInv
<1>17. ASSUME NEW r \in Request, Kill(r) PROVE Inv'
    BY <1>17, KillInv
<1> QED  BY <1>1, <1>2, <1>3, <1>4, <1>5, <1>6, <1>7, <1>8, <1>9, <1>10, <1>11, <1>12,
            <1>13, <1>14, <1>15, <1>16, <1>17 DEF Next

LEMMA Invariance == Spec => []Inv
    BY InitInv, NextInv, PTL DEF Spec

(* Everything keeps its type through every action, and an escalation is     *)
(* stamped as closed exactly while its status is an ending.                 *)
THEOREM TypeCorrect == Spec => []TypeOK
<1>1. Inv => TypeOK
    BY DEF Inv
<1> QED  BY <1>1, Invariance, PTL

(* No deletion of programs, partners or threads leaves an escalation about  *)
(* nothing, but for those the counted reasons explain.                      *)
THEOREM AboutHolds == Spec => []AboutSomething
<1>1. Inv => AboutSomething
    BY DEF Inv
<1> QED  BY <1>1, Invariance, PTL

(* Once no post is in flight, the two delivery columns tell what became of  *)
(* the posts, whatever else was done to the escalation meanwhile.           *)
THEOREM DeliveryHolds == Spec => []DeliveryIsHonest
<1>1. Inv => DeliveryIsHonest
    <2> SUFFICES ASSUME Inv, NEW id \in Live, Posting(id) = {}, ~post[id].lost
                 PROVE  /\ escalation[id].told = post[id].told
                        /\ ~post[id].crossed => escalation[id].badge = (post[id].latest = "refused")
        BY DEF DeliveryIsHonest
    <2>1. Honest(id)
        BY DEF Inv, PostsAreOnTheirWay
    <2>2. ~InFlight(id) /\ ~Delivering(id)
        BY DEF Posting, InFlight, Delivering, AtId
    <2>3. escalation[id].told \in BOOLEAN /\ escalation[id].badge \in BOOLEAN /\ post[id].told \in BOOLEAN
        BY DEF Inv, TypeOK, Live, Row, Post
    <2>4. /\ post[id].told <=> escalation[id].told
          /\ ~post[id].crossed => (escalation[id].badge <=> post[id].latest = "refused")
        BY <2>1, <2>2 DEF Honest
    <2> QED  BY <2>3, <2>4
<1> QED  BY <1>1, Invariance, PTL

-----------------------------------------------------------------------------
(* How an escalation ended. *)

Keeps(id) ==
    (escalation[id].status # "open" /\ escalation'[id].status # "open") =>
        /\ escalation[id].status = escalation'[id].status
        /\ escalation[id].closedAt = escalation'[id].closedAt

EndingsKept == \A id \in Id \ raced' : (id \in Live /\ escalation'[id] # NoRow) => Keeps(id)

LEMMA InsertKeeps == ASSUME Inv, NEW row, Insert(row) PROVE EndingsKept
<1>1. nextId \notin Live /\ \A id \in Id : id # nextId => escalation'[id] = escalation[id]
    BY EscalationAssumption DEF EscalationAssumption, Inv, TypeOK, IdsAreHandedOut, Insert, Live, Id
<1> QED  BY <1>1 DEF EndingsKept, Keeps

LEMMA DetachKeeps ==
    ASSUME Inv, NEW ss, NEW ts, NEW gone, escalation' = Detached(ss, ts, gone)
    PROVE  EndingsKept
<1> SUFFICES ASSUME NEW id \in Id, id \in Live, escalation'[id] # NoRow PROVE Keeps(id)
    BY DEF EndingsKept
<1>1. escalation'[id] = Loses(escalation[id], ss, ts, gone)
    BY DetachedRows
<1>2. escalation[id] \in Row
    BY DEF Inv, TypeOK, Live
<1> QED  BY <1>1, <1>2, LosesIsRow DEF Keeps

LEMMA EditWriteKeeps == ASSUME Inv, NEW r \in Request, EditWrite(r) PROVE EndingsKept
<1> DEFINE id == op[r].id
<1>1. CASE UNCHANGED escalation
    BY <1>1 DEF EndingsKept, Keeps
<1>2. ASSUME NEW about, NEW owner, id \in Live,
             escalation' = [escalation EXCEPT ![id].about = about, ![id].owner = owner]
      PROVE  EndingsKept
    <2>1. id \in Id /\ escalation[id] \in Row
        BY <1>2 DEF Inv, TypeOK, Live
    <2> HIDE DEF id
    <2>2. /\ escalation'[id].status = escalation[id].status
          /\ escalation'[id].closedAt = escalation[id].closedAt
          /\ \A i \in Id : i # id => escalation'[i] = escalation[i]
        BY <1>2, <2>1 DEF Inv, TypeOK, Row
    <2> QED  BY <2>2 DEF EndingsKept, Keeps
<1> QED  BY <1>1, <1>2 DEF EditWrite

LEMMA RecordKeeps == ASSUME Inv, NEW r \in Request, Record(r) PROVE EndingsKept
<1> DEFINE id == op[r].id
           outcome == op[r].outcome
<1>1. CASE UNCHANGED escalation
    BY <1>1 DEF EndingsKept, Keeps
<1>2. CASE id \in Live /\ escalation' = [escalation EXCEPT ![id] = Recorded(escalation[id], outcome)]
    <2>1. id \in Id /\ escalation[id] \in Row /\ outcome \in Outcome
        BY <1>2, LocalFields DEF Inv, TypeOK, Live, Record, At
    <2> HIDE DEF id, outcome
    <2>2. /\ escalation'[id] = Recorded(escalation[id], outcome)
          /\ \A i \in Id : i # id => escalation'[i] = escalation[i]
        BY <1>2, <2>1 DEF Inv, TypeOK
    <2> QED  BY <2>1, <2>2, RecordedIsRow DEF EndingsKept, Keeps
<1> QED  BY <1>1, <1>2 DEF Record

LEMMA StatusWriteKeeps == ASSUME Inv, NEW r \in Request, StatusWrite(r) PROVE EndingsKept
<1> DEFINE l == op[r]
<1>1. At(r, "status") /\ raced' = raced
    BY DEF StatusWrite
<1>2. l.id \in Id /\ l.status \in Status
    BY <1>1, LocalFields DEF Inv, TypeOK, At
<1>3. CASE UNCHANGED escalation
    BY <1>3 DEF EndingsKept, Keeps
<1>4. CASE /\ l.id \in Live
           /\ escalation' = [escalation EXCEPT ![l.id] = Moved(@, l.status, l.original, clock')]
    <2>1. l.id \notin raced => CanTransition(escalation[l.id].status, l.status)
        BY <1>1, <1>4 DEF Inv, ChangesAreAllowed, StillAllowed
    <2> HIDE DEF l
    <2>2. escalation[l.id] \in Row
        BY <1>2, <1>4 DEF Inv, TypeOK, Live
    <2>3. /\ escalation'[l.id].status = l.status
          /\ \A i \in Id : i # l.id => escalation'[i] = escalation[i]
        BY <1>2, <1>4, <2>2 DEF Inv, TypeOK, Moved, Row
    <2>4. l.id \notin raced => Keeps(l.id)
        BY <2>1, <2>3 DEF Keeps, CanTransition
    <2> QED  BY <1>1, <2>3, <2>4 DEF EndingsKept, Keeps
<1> QED  BY <1>3, <1>4 DEF StatusWrite

LEMMA NextKeeps == Inv /\ [Next]_vars => EndingsKept
<1> SUFFICES ASSUME Inv, [Next]_vars PROVE EndingsKept
    OBVIOUS
<1>1. CASE UNCHANGED escalation
    BY <1>1 DEF EndingsKept, Keeps
<1>2. ASSUME NEW r \in Request, CreateEscalation(r) \/ PostEscalation(r) \/ RaiseCreate(r)
      PROVE  EndingsKept
    BY <1>2, InsertKeeps DEF CreateEscalation, PostEscalation, RaiseCreate
<1>3. ASSUME NEW r \in Request,
             \/ Mention(r) \/ Revise(r) \/ Classify(r) \/ SaveThread(r) \/ RaiseCheck(r)
             \/ EditRead(r) \/ StatusRead(r) \/ Announce(r)
             \/ DeleteProjectBegin(r) \/ DeletePartnerRead(r) \/ Kill(r)
      PROVE  EndingsKept
    BY <1>1, <1>3 DEF Mention, Revise, Classify, SaveThread, RaiseCheck, EditRead, StatusRead,
                      Announce, DeleteProjectBegin, DeletePartnerRead, Kill
<1>4. ASSUME NEW r \in Request, EditWrite(r) \/ Record(r) \/ StatusWrite(r)
      PROVE  EndingsKept
    BY <1>4, EditWriteKeeps, RecordKeeps, StatusWriteKeeps
<1>5. ASSUME NEW r \in Request, DeleteProjectCommit(r) \/ DeleteThread(r) \/ DeletePartnerCommit(r)
      PROVE  EndingsKept
    BY <1>1, <1>5, DetachKeeps DEF DeleteProjectCommit, DeleteThread, DeletePartnerCommit
<1> QED  BY <1>1, <1>2, <1>3, <1>4, <1>5 DEF Next, vars

(* No action rewrites how or when a closed escalation ended, unless two     *)
(* status changes of it overlapped: it has to be re-opened first.           *)
THEOREM EndingsHold == Spec => EndingsAreKept
<1>1. EndingsKept <=> \A id \in Id \ raced' :
          (id \in Live /\ escalation'[id] # NoRow) =>
              LET was == escalation[id]
                  is == escalation'[id] IN
              (was.status # "open" /\ is.status # "open") =>
                  was.status = is.status /\ was.closedAt = is.closedAt
    BY DEF EndingsKept, Keeps
<1>2. Inv /\ [Next]_vars => [\A id \in Id \ raced' :
          (id \in Live /\ escalation'[id] # NoRow) =>
              LET was == escalation[id]
                  is == escalation'[id] IN
              (was.status # "open" /\ is.status # "open") =>
                  was.status = is.status /\ was.closedAt = is.closedAt]_vars
    BY <1>1, NextKeeps
<1> QED  BY <1>2, Invariance, PTL DEF Spec, EndingsAreKept
-----------------------------------------------------------------------------
(* How many escalations of a thread are open: those of whom no duplicate    *)
(* check could know are counted in extra.  A trigger past its check is as   *)
(* good as an open escalation, and any trigger may still pass its check.    *)

Creators(t) == {r \in Request : At(r, "create") /\ op[r].thread = t}

Bounded(t) ==
    /\ IsFiniteSet(Triggers(t))
    /\ Cardinality(Triggers(t)) <= 1 + extra[t]
    /\ Cardinality(OpenOn(t)) + Cardinality(Creators(t)) <= 1 + extra[t]

ThreadsAreBounded == \A t \in Thread : Bounded(t)

LEMMA OneMore ==
    ASSUME NEW S, IsFiniteSet(S), NEW x, NEW T, T \subseteq S \cup {x}
    PROVE  IsFiniteSet(T) /\ Cardinality(T) \in Nat /\ Cardinality(T) <= Cardinality(S) + 1
<1>1. IsFiniteSet(S \cup {x}) /\ Cardinality(S \cup {x}) <= Cardinality(S) + 1 /\ Cardinality(S) \in Nat
    <2>1. Cardinality(S) \in Nat
        BY FS_CardinalityType
    <2> QED  BY <2>1, FS_AddElement
<1>2. IsFiniteSet(T) /\ Cardinality(T) <= Cardinality(S \cup {x})
    BY <1>1, FS_Subset
<1>3. Cardinality(T) \in Nat /\ Cardinality(S \cup {x}) \in Nat
    BY <1>1, <1>2, FS_CardinalityType
<1> QED  BY <1>1, <1>2, <1>3

LEMMA NoMore ==
    ASSUME NEW S, IsFiniteSet(S), NEW T, T \subseteq S
    PROVE  /\ IsFiniteSet(T) /\ Cardinality(T) \in Nat /\ Cardinality(T) <= Cardinality(S)
           /\ Cardinality(S) \in Nat
BY FS_Subset, FS_CardinalityType

LEMMA OneLess ==
    ASSUME NEW S, IsFiniteSet(S), NEW x \in S, NEW T, T \subseteq S \ {x}
    PROVE  Cardinality(T) \in Nat /\ Cardinality(T) + 1 <= Cardinality(S)
<1>1. IsFiniteSet(S \ {x}) /\ Cardinality(S \ {x}) = Cardinality(S) - 1
    BY FS_RemoveElement
<1>2. Cardinality(T) \in Nat /\ Cardinality(T) <= Cardinality(S \ {x}) /\ Cardinality(S \ {x}) \in Nat
    BY <1>1, NoMore
<1>3. Cardinality(S) \in Nat
    BY FS_CardinalityType
<1> QED  BY <1>1, <1>2, <1>3

LEMMA Counted ==
    ASSUME Inv, NEW t \in Thread, Bounded(t)
    PROVE  /\ IsFiniteSet(OpenOn(t)) /\ Cardinality(OpenOn(t)) \in Nat
           /\ IsFiniteSet(Creators(t)) /\ Cardinality(Creators(t)) \in Nat
           /\ IsFiniteSet(Triggers(t)) /\ Cardinality(Triggers(t)) \in Nat
           /\ Creators(t) \subseteq Triggers(t) /\ extra[t] \in Nat
<1>1. IsFiniteSet(Id)
    BY FS_Interval, EscalationAssumption DEF Id, EscalationAssumption
<1>2. OpenOn(t) \subseteq Id
    BY DEF OpenOn, On, Live
<1>3. IsFiniteSet(OpenOn(t)) /\ Cardinality(OpenOn(t)) \in Nat
    BY <1>1, <1>2, NoMore
<1>4. Creators(t) \subseteq Triggers(t) /\ IsFiniteSet(Triggers(t)) /\ extra[t] \in Nat
    BY DEF Bounded, Creators, Triggers, Inv, TypeOK
<1> QED  BY <1>3, <1>4, NoMore

\* What keeps a thread bounded: nothing new, or a new opening that is counted, or
\* one that was on its way.
LEMMA StaysBounded ==
    ASSUME Inv, NEW t \in Thread, Bounded(t), extra'[t] \in Nat,
           Triggers(t)' \subseteq Triggers(t), Creators(t)' \subseteq Creators(t),
           \/ OpenOn(t)' \subseteq OpenOn(t) /\ extra[t] <= extra'[t]
           \/ \E id : OpenOn(t)' \subseteq OpenOn(t) \cup {id} /\ extra'[t] = extra[t] + 1
           \/ \E id, r : /\ OpenOn(t)' \subseteq OpenOn(t) \cup {id} /\ extra'[t] = extra[t]
                         /\ r \in Creators(t) /\ Creators(t)' \subseteq Creators(t) \ {r}
    PROVE  Bounded(t)'
<1> DEFINE open == OpenOn(t)   opened == OpenOn(t)'
           create == Creators(t)   created == Creators(t)'
<1>1. /\ IsFiniteSet(open) /\ Cardinality(open) \in Nat
      /\ IsFiniteSet(create) /\ Cardinality(create) \in Nat
      /\ Cardinality(Triggers(t)) \in Nat /\ extra[t] \in Nat /\ IsFiniteSet(Triggers(t))
    BY Counted
<1>2. /\ IsFiniteSet(Triggers(t)') /\ Cardinality(Triggers(t)') \in Nat
      /\ Cardinality(Triggers(t)') <= Cardinality(Triggers(t))
    BY <1>1, NoMore
<1>3. Cardinality(created) \in Nat /\ Cardinality(created) <= Cardinality(create)
    BY <1>1, NoMore
<1>4. Cardinality(Triggers(t)) <= 1 + extra[t] /\ Cardinality(open) + Cardinality(create) <= 1 + extra[t]
    BY DEF Bounded
<1> SUFFICES Cardinality(opened) + Cardinality(created) <= 1 + extra'[t] /\ extra[t] <= extra'[t]
    BY <1>1, <1>2, <1>4 DEF Bounded
<1>5. CASE opened \subseteq open /\ extra[t] <= extra'[t]
    <2>1. Cardinality(opened) \in Nat /\ Cardinality(opened) <= Cardinality(open)
        BY <1>1, <1>5, NoMore
    <2> HIDE DEF open, opened, create, created
    <2> QED  BY <1>1, <1>3, <1>4, <1>5, <2>1
<1>6. CASE \E id : opened \subseteq open \cup {id} /\ extra'[t] = extra[t] + 1
    <2>1. Cardinality(opened) \in Nat /\ Cardinality(opened) <= Cardinality(open) + 1
        BY <1>1, <1>6, OneMore
    <2> HIDE DEF open, opened, create, created
    <2> QED  BY <1>1, <1>3, <1>4, <1>6, <2>1
<1>7. CASE \E id, r : /\ opened \subseteq open \cup {id} /\ extra'[t] = extra[t]
                      /\ r \in create /\ created \subseteq create \ {r}
    <2>1. Cardinality(opened) \in Nat /\ Cardinality(opened) <= Cardinality(open) + 1
        BY <1>1, <1>7, OneMore
    <2>2. Cardinality(created) + 1 <= Cardinality(create)
        BY <1>1, <1>7, OneLess
    <2> HIDE DEF open, opened, create, created
    <2> QED  BY <1>1, <1>3, <1>4, <1>7, <2>1, <2>2
<1> QED  BY <1>5, <1>6, <1>7

\* A request that moves on to anything but a trigger's step.
LEMMA TriggersMove ==
    ASSUME Inv, NEW r \in Request, NEW l, Becomes(r, l), l.step \notin {"raise", "create"}, NEW t \in Thread
    PROVE  Triggers(t)' \subseteq Triggers(t) /\ Creators(t)' \subseteq Creators(t) \ {r}
BY DEF Becomes, Inv, TypeOK, Triggers, Creators, At

LEMMA TriggersForget ==
    ASSUME Inv, NEW r \in Request, NEW ts, DeletesThreads(r, ts), NEW t \in Thread
    PROVE  Triggers(t)' \subseteq Triggers(t) /\ Creators(t)' \subseteq Creators(t)
<1>1. \A q \in Request : op[q] \in Local /\ op'[q] = IF q = r THEN Idle ELSE Forgotten(op[q], ts)
    BY DEF DeletesThreads, Inv, TypeOK
<1>2. ASSUME NEW q \in Request, op'[q].step \in {"raise", "create"}, op'[q].thread = t
      PROVE  op'[q] = op[q]
    <2>1. q # r /\ op'[q] = Forgotten(op[q], ts)
        BY <1>1, <1>2, IdleIsLocal
    <2>2. op[q].step \in {"raise", "create"}
        BY <1>1, <1>2, <2>1, ForgottenIsLocal, IdleIsLocal
    <2>3. CASE op[q].step = "create"
        BY <1>1, <1>2, <2>1, <2>3, ForgottenIsLocal, IdleIsLocal
    <2>4. CASE op[q].step = "raise"
        <3>1. op'[q] = op[q] \/ op'[q] = [op[q] EXCEPT !.thread = NoThread]
            BY <2>1, <2>4 DEF Forgotten
        <3>2. op[q] \in [step : {"raise"}, thread : Thread \cup {NoThread}]
            BY <1>1, <2>4 DEF Local
        <3>3. [op[q] EXCEPT !.thread = NoThread].thread = NoThread
            BY <3>2
        <3> QED  BY <1>2, <3>1, <3>3, EscalationAssumption DEF EscalationAssumption
    <2> QED  BY <2>2, <2>3, <2>4
<1> QED  BY <1>2 DEF Triggers, Creators, At

\* One row is written.
LEMMA OpenMove ==
    ASSUME Inv, NEW id \in Id, NEW row, escalation' = [escalation EXCEPT ![id] = row], NEW t \in Thread
    PROVE  /\ OpenOn(t)' \subseteq OpenOn(t) \cup {id}
           /\ (row.thread = t /\ row.status = "open" => id \in OpenOn(t)) => OpenOn(t)' \subseteq OpenOn(t)
<1>1. escalation'[id] = row /\ \A i \in Id : i # id => escalation'[i] = escalation[i]
    BY DEF Inv, TypeOK
<1> QED  BY <1>1 DEF OpenOn, On, IsOpen, Live

LEMMA OpenDetached ==
    ASSUME Inv, NEW ss, NEW ts, NEW gone, escalation' = Detached(ss, ts, gone), NEW t \in Thread
    PROVE  OpenOn(t)' \subseteq OpenOn(t)
<1> SUFFICES ASSUME NEW id \in OpenOn(t)' PROVE id \in OpenOn(t)
    OBVIOUS
<1>1. id \in Id /\ escalation'[id] # NoRow /\ escalation'[id].thread = t /\ escalation'[id].status = "open"
    BY DEF OpenOn, On, IsOpen, Live
<1>2. id \in Live /\ escalation'[id] = Loses(escalation[id], ss, ts, gone)
    BY <1>1, DetachedRows
<1>3. escalation[id] \in Row
    BY <1>2 DEF Inv, TypeOK, Live
<1>4. Loses(escalation[id], ss, ts, gone).status = escalation[id].status
    BY <1>3, LosesIsRow
<1>5. Loses(escalation[id], ss, ts, gone).thread
          = IF escalation[id].thread \in ts THEN NoThread ELSE escalation[id].thread
    BY <1>3 DEF Loses, Row
<1>6. t # NoThread
    BY EscalationAssumption DEF EscalationAssumption
<1> QED  BY <1>1, <1>2, <1>4, <1>5, <1>6 DEF OpenOn, On, IsOpen

\* Requests that read, give up, post back or edit open nothing.
LEMMA QuietBounded ==
    ASSUME Inv, ThreadsAreBounded, NEW t \in Thread, NEW r \in Request, UNCHANGED extra,
           \E l : Becomes(r, l) /\ l.step \notin {"raise", "create"},
           OpenOn(t)' \subseteq OpenOn(t)
    PROVE  Bounded(t)'
<1>1. Triggers(t)' \subseteq Triggers(t) /\ Creators(t)' \subseteq Creators(t)
    BY TriggersMove
<1>2. Bounded(t) /\ extra[t] \in Nat /\ extra[t] <= extra[t]
    BY Counted DEF ThreadsAreBounded
<1> QED  BY <1>1, <1>2, StaysBounded

LEMMA DetachBounded ==
    ASSUME Inv, ThreadsAreBounded, NEW t \in Thread, NEW r \in Request, UNCHANGED extra,
           \E ss, ts, gone : DeletesThreads(r, ts) /\ escalation' = Detached(ss, ts, gone)
    PROVE  Bounded(t)'
<1>1. Triggers(t)' \subseteq Triggers(t) /\ Creators(t)' \subseteq Creators(t) /\ OpenOn(t)' \subseteq OpenOn(t)
    BY TriggersForget, OpenDetached
<1>2. Bounded(t) /\ extra[t] \in Nat /\ extra[t] <= extra[t]
    BY Counted DEF ThreadsAreBounded
<1> QED  BY <1>1, <1>2, StaysBounded

LEMMA SameRows == ASSUME escalation' = escalation, NEW t PROVE OpenOn(t)' = OpenOn(t)
BY DEF OpenOn, On, IsOpen, Live

LEMMA InsertedId == ASSUME Inv, NEW row, Insert(row) PROVE nextId \in Id
BY EscalationAssumption DEF Inv, TypeOK, Insert, Id, EscalationAssumption

LEMMA CreateBounded ==
    ASSUME Inv, ThreadsAreBounded, NEW r \in Request, CreateEscalation(r), NEW t \in Thread
    PROVE  Bounded(t)'
<1>1. PICK about : Starts(r, Idle) /\ Insert(Fresh(about, "manual", NoThread)) /\ UNCHANGED extra
    BY DEF CreateEscalation, history
<1>2. nextId \in Id /\ escalation' = [escalation EXCEPT ![nextId] = Fresh(about, "manual", NoThread)]
    BY <1>1, InsertedId DEF Insert
<1>3. Fresh(about, "manual", NoThread).thread # t
    BY EscalationAssumption DEF Fresh, EscalationAssumption
<1>4. OpenOn(t)' \subseteq OpenOn(t)
    BY <1>2, <1>3, OpenMove
<1> QED  BY <1>1, <1>4, IdleIsLocal, QuietBounded DEF Starts

LEMMA PostBounded ==
    ASSUME Inv, ThreadsAreBounded, NEW r \in Request, PostEscalation(r), NEW t \in Thread
    PROVE  Bounded(t)'
<1>1. PICK about, u, status, original :
         /\ Starts(r, Idle) /\ Insert(Moved(Fresh(about, "chat", u), status, original, clock'))
         /\ extra' = [v \in Thread |-> IF v = u /\ status = "open" THEN extra[v] + 1 ELSE extra[v]]
    BY DEF PostEscalation
<1> DEFINE row == Moved(Fresh(about, "chat", u), status, original, clock')
<1>2. row.thread = u /\ row.status = status
    BY DEF Fresh, Moved
<1> HIDE DEF row
<1>3. nextId \in Id /\ escalation' = [escalation EXCEPT ![nextId] = row]
    BY <1>1, InsertedId DEF Insert, row
<1>4. Triggers(t)' \subseteq Triggers(t) /\ Creators(t)' \subseteq Creators(t)
    BY <1>1, IdleIsLocal, TriggersMove DEF Starts
<1>5. Bounded(t) /\ extra[t] \in Nat
    BY Counted DEF ThreadsAreBounded
<1>6. CASE t = u /\ status = "open"
    <2>1. extra'[t] = extra[t] + 1 /\ extra'[t] \in Nat
        BY <1>1, <1>5, <1>6
    <2>2. OpenOn(t)' \subseteq OpenOn(t) \cup {nextId}
        BY <1>3, OpenMove
    <2> QED  BY <1>4, <1>5, <2>1, <2>2, StaysBounded
<1>7. CASE ~(t = u /\ status = "open")
    <2>1. extra'[t] = extra[t] /\ extra[t] <= extra'[t]
        BY <1>1, <1>5, <1>7
    <2>2. OpenOn(t)' \subseteq OpenOn(t)
        BY <1>2, <1>3, <1>7, OpenMove
    <2> QED  BY <1>4, <1>5, <2>1, <2>2, StaysBounded
<1> QED  BY <1>6, <1>7

LEMMA RaisesBounded ==
    ASSUME Inv, ThreadsAreBounded, NEW r \in Request, NEW u \in Thread, Raises(r, u),
           op[r].step \notin {"raise", "create"}, UNCHANGED escalation, NEW t \in Thread
    PROVE  Bounded(t)'
<1>0. CASE Becomes(r, Idle) /\ UNCHANGED extra
    BY <1>0, IdleIsLocal, SameRows, QuietBounded
<1> SUFFICES ASSUME Becomes(r, [step |-> "raise", thread |-> u]),
                    extra' = IF Triggers(u) = {} THEN extra ELSE [extra EXCEPT ![u] = @ + 1]
             PROVE  Bounded(t)'
    BY <1>0 DEF Raises
<1>2. op'[r] = [step |-> "raise", thread |-> u] /\ \A q \in Request : q # r => op'[q] = op[q]
    BY DEF Becomes, Inv, TypeOK
<1>3. /\ Creators(t)' \subseteq Creators(t) /\ Triggers(t)' \subseteq Triggers(t) \cup {r}
      /\ t # u => Triggers(t)' \subseteq Triggers(t)
    BY <1>2 DEF Creators, Triggers, At
<1>4. OpenOn(t)' = OpenOn(t)
    BY SameRows
<1>5. Bounded(t) /\ extra[t] \in Nat
    BY Counted DEF ThreadsAreBounded
<1>6. /\ t # u \/ Triggers(u) = {} => extra'[t] = extra[t]
      /\ t = u /\ Triggers(u) # {} => extra'[t] = extra[t] + 1
    BY DEF Inv, TypeOK
<1>7. extra'[t] \in Nat /\ extra[t] <= extra'[t]
    BY <1>5, <1>6
<1>8. CASE t # u
    BY <1>3, <1>4, <1>5, <1>7, <1>8, StaysBounded
<1>9. CASE t = u
    <2>1. IsFiniteSet(Triggers(t)) /\ Cardinality(Triggers(t)) \in Nat /\ Cardinality(Triggers(t)) <= 1 + extra[t]
        BY <1>5, Counted DEF Bounded
    <2>2. /\ IsFiniteSet(Triggers(t)') /\ Cardinality(Triggers(t)') \in Nat
          /\ Cardinality(Triggers(t)') <= Cardinality(Triggers(t)) + 1
        BY <1>3, <2>1, OneMore
    <2>3. Triggers(t) = {} => Cardinality(Triggers(t)) = 0
        BY FS_EmptySet
    <2>4. Cardinality(Triggers(t)') <= 1 + extra'[t]
        BY <1>5, <1>6, <1>9, <2>1, <2>2, <2>3
    <2>5. /\ Cardinality(Creators(t)) \in Nat /\ Cardinality(Creators(t)') \in Nat
          /\ Cardinality(Creators(t)') <= Cardinality(Creators(t)) /\ Cardinality(OpenOn(t)) \in Nat
        <3>1. IsFiniteSet(Creators(t)) /\ Cardinality(OpenOn(t)) \in Nat
            BY <1>5, Counted
        <3> QED  BY <1>3, <3>1, NoMore
    <2>6. Cardinality(OpenOn(t)) + Cardinality(Creators(t)) <= 1 + extra[t]
        BY <1>5 DEF Bounded
    <2>7. Cardinality(OpenOn(t)) + Cardinality(Creators(t)') <= 1 + extra'[t]
        BY <1>5, <1>7, <2>5, <2>6
    <2> QED  BY <1>4, <2>2, <2>4, <2>7 DEF Bounded
<1> QED  BY <1>8, <1>9

\* What a mention does before it has a thread to raise from.
LEMMA MentionBounded ==
    ASSUME Inv, ThreadsAreBounded, NEW r \in Request,
           Mention(r) \/ Revise(r) \/ Classify(r) \/ SaveThread(r), NEW t \in Thread
    PROVE  Bounded(t)'
<1>1. escalation' = escalation
    BY DEF Mention, Revise, Classify, SaveThread
<1>2. op[r].step \notin {"raise", "create"}
    BY IdleIsLocal DEF Mention, Arrives, Revise, Classify, SaveThread, At
<1>3. op[r].step \in {"revise", "ingest", "save"} => op[r].thread \in Thread
    BY LocalFields DEF Inv, TypeOK
<1>4. CASE \E u \in Thread : Raises(r, u)
    BY <1>1, <1>2, <1>4, RaisesBounded
<1>5. CASE UNCHANGED extra /\ \E l : Becomes(r, l) /\ l.step \notin {"raise", "create"}
    BY <1>1, <1>5, SameRows, QuietBounded
<1>6. CASE Duplicate(r)
    <2>1. /\ Becomes(r, [step |-> "raise", thread |-> NoThread]) /\ UNCHANGED extra
        BY <1>6 DEF Duplicate
    <2>2. op'[r] = [step |-> "raise", thread |-> NoThread] /\ \A q \in Request : q # r => op'[q] = op[q]
        BY <2>1 DEF Becomes, Inv, TypeOK
    <2>3. Triggers(t)' \subseteq Triggers(t) /\ Creators(t)' \subseteq Creators(t)
        BY <2>2, EscalationAssumption DEF Triggers, Creators, At, EscalationAssumption
    <2>4. Bounded(t) /\ extra[t] \in Nat /\ extra[t] <= extra[t] /\ OpenOn(t)' = OpenOn(t)
        BY <1>1, Counted, SameRows DEF ThreadsAreBounded
    <2> QED  BY <2>1, <2>3, <2>4, StaysBounded
<1>7. CASE Mention(r)
    <2>1. PICK u \in Thread :
             \/ Raises(r, u)
             \/ Becomes(r, [step |-> "revise", thread |-> u]) /\ UNCHANGED extra
             \/ Becomes(r, [step |-> "ingest", thread |-> u]) /\ UNCHANGED extra
        BY <1>7 DEF Mention
    <2>2. [step |-> "revise", thread |-> u].step = "revise" /\ [step |-> "ingest", thread |-> u].step = "ingest"
        OBVIOUS
    <2> QED  BY <1>4, <1>5, <2>1, <2>2
<1>8. CASE Revise(r)
    BY <1>3, <1>4, <1>8 DEF Revise, At
<1>9. CASE Classify(r)
    <2>1. CASE \E about : /\ Becomes(r, [step |-> "save", thread |-> op[r].thread, about |-> about])
                          /\ UNCHANGED extra
        <3>1. PICK about : /\ Becomes(r, [step |-> "save", thread |-> op[r].thread, about |-> about])
                           /\ UNCHANGED extra
            BY <2>1
        <3>2. [step |-> "save", thread |-> op[r].thread, about |-> about].step = "save"
            OBVIOUS
        <3> QED  BY <1>5, <3>1, <3>2
    <2>2. CASE Becomes(r, Idle) /\ UNCHANGED extra
        BY <1>5, <2>2, IdleIsLocal
    <2> QED  BY <1>6, <1>9, <2>1, <2>2 DEF Classify
<1>10. CASE SaveThread(r)
    <2>1. CASE Becomes(r, Idle) /\ UNCHANGED extra
        BY <1>5, <2>1, IdleIsLocal
    <2> QED  BY <1>3, <1>4, <1>6, <1>10, <2>1 DEF SaveThread, At
<1> QED  BY <1>7, <1>8, <1>9, <1>10

\* A check that passes: there was no open escalation, and every trigger that is
\* past its check is still a trigger.
LEMMA RaiseCheckBounded ==
    ASSUME Inv, ThreadsAreBounded, NEW r \in Request, RaiseCheck(r), NEW t \in Thread
    PROVE  Bounded(t)'
<1>1. At(r, "raise") /\ UNCHANGED extra /\ OpenOn(t)' = OpenOn(t)
    BY SameRows DEF RaiseCheck, history
<1>2. CASE Becomes(r, Idle)
    BY <1>1, <1>2, IdleIsLocal, QuietBounded
<1>3. CASE \E u, about : /\ Becomes(r, [step |-> "create", thread |-> u, about |-> about])
                         /\ u = op[r].thread /\ (u # NoThread => OpenOn(u) = {})
    <2>1. PICK u, about : /\ Becomes(r, [step |-> "create", thread |-> u, about |-> about])
                          /\ u = op[r].thread /\ (u # NoThread => OpenOn(u) = {})
        BY <1>3
    <2>2. op'[r] = [step |-> "create", thread |-> u, about |-> about] /\ \A q \in Request : q # r => op'[q] = op[q]
        BY <2>1 DEF Becomes, Inv, TypeOK
    <2>3. Triggers(t)' \subseteq Triggers(t) /\ Creators(t)' \subseteq Triggers(t)'
        BY <1>1, <2>1, <2>2 DEF Triggers, Creators, At
    <2>4. /\ Bounded(t) /\ extra[t] \in Nat /\ extra[t] <= extra'[t]
          /\ IsFiniteSet(Triggers(t)) /\ Cardinality(Triggers(t)) <= 1 + extra[t]
        <3>1. Bounded(t)
            BY DEF ThreadsAreBounded
        <3>2. IsFiniteSet(Triggers(t)) /\ Cardinality(Triggers(t)) <= 1 + extra[t] /\ extra[t] \in Nat
            BY <3>1, Counted DEF Bounded
        <3> QED  BY <1>1, <3>1, <3>2
    <2>5. CASE u # t
        <3>1. Creators(t)' \subseteq Creators(t)
            BY <2>2, <2>5 DEF Creators, At
        <3> QED  BY <1>1, <2>3, <2>4, <3>1, StaysBounded
    <2>6. CASE u = t
        <3>1. OpenOn(t)' = {}
            BY <1>1, <2>1, <2>6, EscalationAssumption DEF EscalationAssumption
        <3>2. /\ IsFiniteSet(Triggers(t)') /\ Cardinality(Triggers(t)') <= Cardinality(Triggers(t))
              /\ Cardinality(Triggers(t)') \in Nat /\ Cardinality(Triggers(t)) \in Nat
            BY <2>3, <2>4, NoMore
        <3>3. Cardinality(Creators(t)') <= Cardinality(Triggers(t)') /\ Cardinality(Creators(t)') \in Nat
            BY <2>3, <3>2, NoMore
        <3>4. Cardinality(OpenOn(t)') = 0
            BY <3>1, FS_EmptySet
        <3> QED  BY <1>1, <2>4, <3>2, <3>3, <3>4 DEF Bounded
    <2> QED  BY <2>5, <2>6
<1> QED  BY <1>2, <1>3 DEF RaiseCheck

LEMMA RaiseCreateBounded ==
    ASSUME Inv, ThreadsAreBounded, NEW r \in Request, RaiseCreate(r), NEW t \in Thread
    PROVE  Bounded(t)'
<1> DEFINE row == Fresh(op[r].about, "chat", op[r].thread)
<1>1. At(r, "create") /\ Becomes(r, Idle) /\ Insert(row) /\ UNCHANGED extra
    BY DEF RaiseCreate
<1>2. row.thread = op[r].thread
    BY DEF Fresh
<1> HIDE DEF row
<1>3. nextId \in Id /\ escalation' = [escalation EXCEPT ![nextId] = row]
    BY <1>1, InsertedId DEF Insert
<1>4. Triggers(t)' \subseteq Triggers(t) /\ Creators(t)' \subseteq Creators(t) \ {r}
    BY <1>1, IdleIsLocal, TriggersMove
<1>5. Bounded(t) /\ extra[t] \in Nat /\ extra'[t] = extra[t] /\ extra[t] <= extra[t]
    BY <1>1, Counted DEF ThreadsAreBounded
<1>6. CASE op[r].thread # t
    <2>1. OpenOn(t)' \subseteq OpenOn(t)
        BY <1>2, <1>3, <1>6, OpenMove
    <2> QED  BY <1>4, <1>5, <2>1, StaysBounded
<1>7. CASE op[r].thread = t
    <2>1. OpenOn(t)' \subseteq OpenOn(t) \cup {nextId} /\ r \in Creators(t)
        BY <1>1, <1>3, <1>7, OpenMove DEF Creators
    <2> QED  BY <1>4, <1>5, <2>1, StaysBounded
<1> QED  BY <1>6, <1>7

LEMMA StatusWriteBounded ==
    ASSUME Inv, ThreadsAreBounded, NEW r \in Request, StatusWrite(r), NEW t \in Thread
    PROVE  Bounded(t)'
<1> DEFINE l == op[r]
<1>1. CASE Becomes(r, Idle) /\ UNCHANGED <<escalation, extra>>
    BY <1>1, IdleIsLocal, SameRows, QuietBounded
<1>2. CASE /\ l.id \in Live
           /\ escalation' = [escalation EXCEPT ![l.id] = Moved(@, l.status, l.original, clock')]
           /\ extra' = [u \in Thread |->
                 IF l.status = "open" /\ escalation[l.id].thread = u THEN extra[u] + 1 ELSE extra[u]]
           /\ Becomes(r, [step |-> "announce", id |-> l.id])
    <2> DEFINE row == Moved(escalation[l.id], l.status, l.original, clock')
    <2>1. l.id \in Id /\ escalation[l.id] \in Row
        BY <1>2 DEF Inv, TypeOK, Live
    <2>2. row.status = l.status /\ row.thread = escalation[l.id].thread
        BY <2>1 DEF Moved, Row
    <2>3. Triggers(t)' \subseteq Triggers(t) /\ Creators(t)' \subseteq Creators(t)
        BY <1>2, TriggersMove
    <2>4. Bounded(t) /\ extra[t] \in Nat
        BY Counted DEF ThreadsAreBounded
    <2> HIDE DEF row
    <2>5. escalation' = [escalation EXCEPT ![l.id] = row]
        BY <1>2 DEF row
    <2> HIDE DEF l
    <2>6. CASE l.status = "open" /\ escalation[l.id].thread = t
        <3>1. extra'[t] = extra[t] + 1 /\ extra'[t] \in Nat
            BY <1>2, <2>4, <2>6
        <3>2. OpenOn(t)' \subseteq OpenOn(t) \cup {l.id}
            BY <2>1, <2>5, OpenMove
        <3> QED  BY <2>3, <2>4, <3>1, <3>2, StaysBounded
    <2>7. CASE ~(l.status = "open" /\ escalation[l.id].thread = t)
        <3>1. extra'[t] = extra[t] /\ extra[t] <= extra'[t]
            BY <1>2, <2>4, <2>7
        <3>2. OpenOn(t)' \subseteq OpenOn(t)
            BY <2>1, <2>2, <2>5, <2>7, OpenMove
        <3> QED  BY <2>3, <2>4, <3>1, <3>2, StaysBounded
    <2> QED  BY <2>6, <2>7
<1> QED  BY <1>1, <1>2 DEF StatusWrite

\* Writes that leave a row's status and thread alone.
LEMMA EditBounded ==
    ASSUME Inv, ThreadsAreBounded, NEW r \in Request, EditWrite(r) \/ Record(r), NEW t \in Thread
    PROVE  Bounded(t)'
<1> DEFINE l == op[r]
<1>1. UNCHANGED extra /\ \E m : Becomes(r, m) /\ m.step \notin {"raise", "create"}
    <2>1. [step |-> "announce", id |-> l.id].step = "announce"
        OBVIOUS
    <2>2. CASE EditWrite(r)
        <3>1. UNCHANGED extra
            BY <2>2 DEF EditWrite
        <3>2. Becomes(r, Idle) \/ Becomes(r, [step |-> "announce", id |-> l.id])
            BY <2>2 DEF EditWrite
        <3> QED  BY <2>1, <3>1, <3>2, IdleIsLocal
    <2>3. CASE Record(r)
        BY <2>3, IdleIsLocal DEF Record, history
    <2> QED  BY <2>2, <2>3
<1>2. CASE escalation' = escalation
    BY <1>1, <1>2, SameRows, QuietBounded
<1>3. CASE l.id \in Live /\ \E about, owner :
               escalation' = [escalation EXCEPT ![l.id].about = about, ![l.id].owner = owner]
    <2>1. PICK about, owner :
              escalation' = [escalation EXCEPT ![l.id].about = about, ![l.id].owner = owner]
        BY <1>3
    <2> DEFINE row == [escalation[l.id] EXCEPT !.about = about, !.owner = owner]
    <2>2. l.id \in Id /\ escalation[l.id] \in Row /\ escalation[l.id] # NoRow
        BY <1>3 DEF Inv, TypeOK, Live
    <2>3. row.status = escalation[l.id].status /\ row.thread = escalation[l.id].thread
        BY <2>2 DEF Row
    <2>4. escalation' = [escalation EXCEPT ![l.id] = row]
        BY <2>1
    <2> HIDE DEF row, l
    <2>5. row.thread = t /\ row.status = "open" => l.id \in OpenOn(t)
        BY <1>3, <2>2, <2>3 DEF OpenOn, On, IsOpen
    <2>6. OpenOn(t)' \subseteq OpenOn(t)
        BY <2>2, <2>4, <2>5, OpenMove
    <2> QED  BY <1>1, <2>6, QuietBounded
<1>4. CASE l.id \in Live /\ l.outcome \in Outcome
           /\ escalation' = [escalation EXCEPT ![l.id] = Recorded(@, l.outcome)]
    <2> DEFINE row == Recorded(escalation[l.id], l.outcome)
    <2>1. l.id \in Id /\ escalation[l.id] \in Row
        BY <1>4 DEF Inv, TypeOK, Live
    <2>2. row.status = escalation[l.id].status /\ row.thread = escalation[l.id].thread
        BY <2>1 DEF Recorded, Row
    <2>3. escalation' = [escalation EXCEPT ![l.id] = row]
        BY <1>4
    <2> HIDE DEF row, l
    <2>4. row.thread = t /\ row.status = "open" => l.id \in OpenOn(t)
        BY <1>4, <2>2 DEF OpenOn, On, IsOpen
    <2>5. OpenOn(t)' \subseteq OpenOn(t)
        BY <2>1, <2>3, <2>4, OpenMove
    <2> QED  BY <1>1, <2>5, QuietBounded
<1>5. At(r, "record") => l.outcome \in Outcome
    BY LocalFields DEF Inv, TypeOK, At
<1> QED  BY <1>2, <1>3, <1>4, <1>5 DEF EditWrite, Record

LEMMA NextBounded == ASSUME Inv, ThreadsAreBounded, [Next]_vars PROVE ThreadsAreBounded'
<1> SUFFICES ASSUME NEW t \in Thread PROVE Bounded(t)'
    BY DEF ThreadsAreBounded
<1>1. CASE UNCHANGED vars
    <2>1. OpenOn(t)' = OpenOn(t)
        BY <1>1, SameRows DEF vars
    <2>2. Triggers(t)' = Triggers(t) /\ Creators(t)' = Creators(t) /\ extra' = extra
        BY <1>1 DEF vars, Triggers, Creators, At
    <2> QED  BY <2>1, <2>2 DEF ThreadsAreBounded, Bounded
<1>2. ASSUME NEW r \in Request,
             \/ CreateEscalation(r) \/ PostEscalation(r) \/ RaiseCheck(r) \/ RaiseCreate(r)
             \/ Mention(r) \/ Revise(r) \/ Classify(r) \/ SaveThread(r)
      PROVE  Bounded(t)'
    BY <1>2, CreateBounded, PostBounded, MentionBounded, RaiseCheckBounded, RaiseCreateBounded
<1>3. ASSUME NEW r \in Request, EditWrite(r) \/ StatusWrite(r) \/ Record(r)
      PROVE  Bounded(t)'
    BY <1>3, EditBounded, StatusWriteBounded
<1>4. ASSUME NEW r \in Request,
             \/ EditRead(r) \/ StatusRead(r) \/ Announce(r)
             \/ DeleteProjectBegin(r) \/ DeletePartnerRead(r) \/ Kill(r)
      PROVE  Bounded(t)'
    <2>1. UNCHANGED <<escalation, extra>>
        BY <1>4 DEF EditRead, StatusRead, Announce, DeleteProjectBegin, DeletePartnerRead, Kill, history
    <2>2. \E l : Becomes(r, l) /\ l.step \notin {"raise", "create"}
        <3>1. CASE EditRead(r)
            BY <3>1 DEF EditRead, Starts
        <3>2. CASE StatusRead(r)
            <4>1. PICK id, status, original :
                      Becomes(r, [step |-> "status", id |-> id, status |-> status, original |-> original])
                BY <3>2 DEF StatusRead, Starts
            <4> QED  BY <4>1
        <3>3. CASE Announce(r)
            <4>1. Becomes(r, Idle) \/ \E id, outcome :
                      Becomes(r, [step |-> "record", id |-> id, outcome |-> outcome])
                BY <3>3 DEF Announce
            <4>2. CASE Becomes(r, Idle)
                BY <4>2, IdleIsLocal
            <4>3. CASE ~Becomes(r, Idle)
                <5>1. PICK id, outcome :
                          Becomes(r, [step |-> "record", id |-> id, outcome |-> outcome])
                    BY <4>1, <4>3
                <5> QED  BY <5>1
            <4> QED  BY <4>2, <4>3
        <3>4. CASE DeletePartnerRead(r)
            <4>1. PICK p, only : Becomes(r, [step |-> "delete", partner |-> p, only |-> only])
                BY <3>4 DEF DeletePartnerRead, Starts
            <4> QED  BY <4>1
        <3>5. CASE Kill(r)
            BY <3>5, IdleIsLocal DEF Kill
        <3>6. CASE DeleteProjectBegin(r)
            <4>1. PICK g, gone, only :
                      Becomes(r, [step |-> "erase", program |-> g, gone |-> gone, only |-> only])
                BY <3>6 DEF DeleteProjectBegin, Starts
            <4> QED  BY <4>1
        <3> QED  BY <1>4, <3>1, <3>2, <3>3, <3>4, <3>5, <3>6
    <2> QED  BY <2>1, <2>2, SameRows, QuietBounded
<1>5. ASSUME NEW r \in Request, DeleteThread(r)
      PROVE  Bounded(t)'
    BY <1>5, DetachBounded DEF DeleteThread, history
<1>6. ASSUME NEW r \in Request, DeleteProjectCommit(r) \/ DeletePartnerCommit(r)
      PROVE  Bounded(t)'
    <2>1. UNCHANGED extra
        BY <1>6 DEF DeleteProjectCommit, DeletePartnerCommit
    <2>2. CASE Becomes(r, Idle) /\ UNCHANGED escalation
        BY <2>1, <2>2, IdleIsLocal, SameRows, QuietBounded
    <2> QED  BY <1>6, <2>1, <2>2, DetachBounded DEF DeleteProjectCommit, DeletePartnerCommit
<1> QED  BY <1>1, <1>2, <1>3, <1>4, <1>5, <1>6 DEF Next

\* A thread has one open escalation at most, but for those that no duplicate check
\* could know of: each is counted when two triggers overlap, when a closed one is
\* re-opened, and when a seed posts one.
THEOREM OneOpenHolds == Spec => []OneOpenPerThread
<1>1. Init => ThreadsAreBounded
    <2> SUFFICES ASSUME Init, NEW t \in Thread PROVE Bounded(t)
        BY DEF ThreadsAreBounded
    <2>1. Triggers(t) = {} /\ Creators(t) = {} /\ OpenOn(t) = {} /\ extra[t] = 0
        BY IdleIsLocal DEF Init, Triggers, Creators, OpenOn, On, Live, At
    <2>2. IsFiniteSet({}) /\ Cardinality({}) = 0
        BY FS_EmptySet
    <2> QED  BY <2>1, <2>2 DEF Bounded
<1>2. Inv /\ ThreadsAreBounded => OneOpenPerThread
    <2> SUFFICES ASSUME Inv, ThreadsAreBounded, NEW t \in Thread
                 PROVE  Cardinality(OpenOn(t)) <= 1 + extra[t]
        BY DEF OneOpenPerThread, OpenOn
    <2>1. /\ Cardinality(OpenOn(t)) \in Nat /\ Cardinality(Creators(t)) \in Nat /\ extra[t] \in Nat
          /\ Cardinality(OpenOn(t)) + Cardinality(Creators(t)) <= 1 + extra[t]
        BY Counted DEF ThreadsAreBounded, Bounded
    <2> QED  BY <2>1
<1> QED  BY <1>1, <1>2, NextBounded, Invariance, PTL DEF Spec
=============================================================================
