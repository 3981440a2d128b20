--------------------------- MODULE Initiative_proofs ---------------------------
(* Theorems about Initiative, for every set of partners and requests, every  *)
(* template and every bound.                                                 *)
EXTENDS Initiative, SequenceTheorems, FiniteSetTheorems, WellFoundedInduction, TLAPS

-----------------------------------------------------------------------------
(* The shape of a copy and of a request.  What a save makes of the phases is *)
(* left open: the theorems on history and on standing do not ask.            *)

ACopy(c) ==
    c = [partner |-> c.partner, lifecycle |-> c.lifecycle, isArchived |-> c.isArchived,
         phases |-> c.phases, deps |-> c.deps, behind |-> c.behind]

Copies(cs) == (\E S : cs \in Seq(S)) /\ \A c \in DOMAIN cs : ACopy(cs[c])

ARequest(o) ==
    o = [step |-> o.step, todo |-> o.todo, partner |-> o.partner, read |-> o.read,
         edges |-> o.edges, draft |-> o.draft]

Requests(ops) == DOMAIN ops = Request /\ \A r \in Request : ARequest(ops[r])

Shape == /\ Copies(copies) /\ Requests(op)
         /\ member \in [Partner -> {"none", "active", "removed"}]

(* The only ways a step changes the copies. *)
LEMMA Rewritten ==
    ASSUME NEW cs, Copies(cs), NEW ds, DOMAIN ds = DOMAIN cs,
           ds = [c \in DOMAIN cs |-> ds[c]], \A c \in DOMAIN cs : ACopy(ds[c])
    PROVE  Copies(ds)
<1>1. PICK S : cs \in Seq(S)
  BY DEF Copies
<1>2. PICK T : T = {ds[c] : c \in DOMAIN cs}
  OBVIOUS
<1>3. Len(cs) \in Nat /\ DOMAIN cs = 1 .. Len(cs)
  BY <1>1, LenProperties
<1>4. ds \in [1 .. Len(cs) -> T]
  BY <1>2, <1>3
<1>5. ds \in Seq(T)
  BY <1>3, <1>4, SeqDef
<1> QED BY <1>5 DEF Copies

LEMMA Appended ==
    ASSUME NEW cs, Copies(cs), NEW c, ACopy(c)
    PROVE  LET ds == Append(cs, c) IN
           /\ Copies(ds) /\ DOMAIN cs \subseteq DOMAIN ds
           /\ \A d \in DOMAIN cs : ds[d] = cs[d]
           /\ \E n : n \notin DOMAIN cs /\ DOMAIN ds = DOMAIN cs \cup {n} /\ ds[n] = c
<1>1. PICK S : cs \in Seq(S)
  BY DEF Copies
<1>2. PICK T : T = S \cup {c}
  OBVIOUS
<1>3. cs \in Seq(T) /\ c \in T
  BY <1>1, <1>2, SeqMonotonic
<1>4. PICK ds : ds = Append(cs, c)
  OBVIOUS
<1>5. /\ ds \in Seq(T) /\ Len(ds) = Len(cs) + 1 /\ ds[Len(cs) + 1] = c
      /\ \A i \in 1 .. Len(cs) : ds[i] = cs[i]
  BY <1>3, <1>4, AppendProperties
<1>6. Len(cs) \in Nat /\ DOMAIN cs = 1 .. Len(cs) /\ DOMAIN ds = 1 .. Len(cs) + 1
  BY <1>3, <1>5, LenProperties
<1>7. Len(cs) + 1 \notin DOMAIN cs /\ DOMAIN ds = DOMAIN cs \cup {Len(cs) + 1}
  BY <1>6
<1>8. \A d \in DOMAIN ds : ACopy(ds[d])
  BY <1>5, <1>6, <1>7 DEF Copies
<1> QED BY <1>4, <1>5, <1>6, <1>7, <1>8 DEF Copies

LEMMA OneEdited ==
    ASSUME NEW cs, Copies(cs), NEW d \in DOMAIN cs, NEW n, ACopy(n), NEW ds,
           ds = [cs EXCEPT ![d] = n]
    PROVE  /\ Copies(ds) /\ DOMAIN ds = DOMAIN cs /\ ds[d] = n
           /\ \A c \in DOMAIN cs \ {d} : ds[c] = cs[c]
<1>1. DOMAIN ds = DOMAIN cs /\ ds = [c \in DOMAIN cs |-> ds[c]]
  OBVIOUS
<1>2. ds[d] = n /\ \A c \in DOMAIN cs \ {d} : ds[c] = cs[c]
  OBVIOUS
<1>3. \A c \in DOMAIN cs : ACopy(ds[c])
  BY <1>2 DEF Copies
<1> QED BY <1>1, <1>2, <1>3, Rewritten

(* What a step leaves of a copy that is there: whose it is, always; the rest *)
(* by what happens to it.                                                    *)
SameStanding(c, d) ==
    d.partner = c.partner /\ d.lifecycle = c.lifecycle /\ d.isArchived = c.isArchived

Bare(phases) == {[p EXCEPT !.source = None] : p \in phases}
SameWork(c, d) == Bare(c.phases) = Bare(d.phases) /\ d.deps = c.deps

LEMMA ForgottenIsBare ==
    ASSUME NEW phases, NEW gone
    PROVE  Bare(Forgotten(phases, gone)) = Bare(phases)
<1>1. ASSUME NEW p
      PROVE  [(IF p.source \in gone THEN [p EXCEPT !.source = None] ELSE p) EXCEPT !.source = None]
                 = [p EXCEPT !.source = None]
  OBVIOUS
<1> QED BY <1>1 DEF Bare, Forgotten

(* A save: the copies at work may be rewritten, the others forget the source *)
(* of what is gone, and nobody's standing changes.                           *)
LEMMA SaveSteps ==
    ASSUME Copies(copies), NEW r \in Request, SaveWrite(r)
    PROVE  /\ Copies(copies') /\ DOMAIN copies' = DOMAIN copies
           /\ \A c \in DOMAIN copies :
                  /\ SameStanding(copies[c], copies'[c])
                  /\ ~Live(copies[c]) => SameWork(copies[c], copies'[c])
<1>1. CASE UNCHANGED copies
  BY <1>1 DEF SameStanding, SameWork
<1>2. CASE ~UNCHANGED copies
  <2>1. PICK S, gone : S = Saved(op[r]) /\ gone = Ids(steps) \ Ids(S)
    OBVIOUS
  <2>2. PICK E : E = SavedDeps(op[r], S)
    OBVIOUS
  <2>3. copies' = [c \in DOMAIN copies |->
            IF Reached(copies[c])
            THEN [copies[c] EXCEPT
                    !.phases = Synced(Forgotten(copies[c].phases, gone), S),
                    !.deps = Wired(Synced(Forgotten(copies[c].phases, gone), S), E),
                    !.behind = FALSE]
            ELSE [copies[c] EXCEPT !.phases = Forgotten(copies[c].phases, gone), !.behind = TRUE]]
    BY <1>2, <2>1, <2>2 DEF SaveWrite
  <2>4. DOMAIN copies' = DOMAIN copies /\ copies' = [c \in DOMAIN copies |-> copies'[c]]
    BY <2>3
  <2>5. ASSUME NEW c \in DOMAIN copies
        PROVE  /\ ACopy(copies'[c])
               /\ SameStanding(copies[c], copies'[c])
               /\ ~Live(copies[c]) => SameWork(copies[c], copies'[c])
    <3>1. PICK x, left : x = copies[c] /\ left = Forgotten(x.phases, gone)
      OBVIOUS
    <3>2. ACopy(x)
      BY <3>1 DEF Copies
    <3>3. CASE Live(x)
      <4>1. PICK ph, de : ph = Synced(left, S) /\ de = Wired(Synced(left, S), E)
        OBVIOUS
      <4>2. copies'[c] = [x EXCEPT !.phases = ph, !.deps = de, !.behind = FALSE]
        BY <2>3, <3>1, <3>3, <4>1 DEF Reached
      <4> QED BY <3>1, <3>2, <3>3, <4>2 DEF ACopy, SameStanding
    <3>4. CASE ~Live(x)
      <4>1. copies'[c] = [x EXCEPT !.phases = left, !.behind = TRUE]
        BY <2>3, <3>1, <3>4 DEF Reached
      <4>2. Bare(left) = Bare(x.phases)
        BY <3>1, ForgottenIsBare
      <4>3. /\ copies'[c].phases = left /\ copies'[c].deps = x.deps
            /\ ACopy(copies'[c]) /\ SameStanding(x, copies'[c])
        BY <3>2, <4>1 DEF ACopy, SameStanding
      <4> QED BY <3>1, <4>2, <4>3 DEF SameWork
    <3> QED BY <3>3, <3>4
  <2> QED BY <2>4, <2>5, Rewritten
<1> QED BY <1>1, <1>2

(* Progress on a copy at work. *)
LEMMA ProgressSteps ==
    ASSUME Copies(copies), NEW r \in Request, Progress(r)
    PROVE  /\ Copies(copies') /\ DOMAIN copies' = DOMAIN copies
           /\ \A c \in DOMAIN copies :
                  /\ SameStanding(copies[c], copies'[c])
                  /\ ~Live(copies[c]) => SameWork(copies[c], copies'[c])
<1>1. PICK c \in DOMAIN copies : \E p \in copies[c].phases :
         /\ Live(copies[c])
         /\ copies' = [copies EXCEPT ![c].phases = (@ \ {p}) \cup {[p EXCEPT !.at = Worked]}]
  BY DEF Progress
<1>2. PICK p \in copies[c].phases :
         copies' = [copies EXCEPT ![c].phases = (@ \ {p}) \cup {[p EXCEPT !.at = Worked]}]
  BY <1>1
<1>3. PICK ph : ph = (copies[c].phases \ {p}) \cup {[p EXCEPT !.at = Worked]}
  OBVIOUS
<1>4. PICK n : n = [copies[c] EXCEPT !.phases = ph]
  OBVIOUS
<1>5. copies' = [copies EXCEPT ![c] = n]
  BY <1>2, <1>3, <1>4
<1>6. ACopy(n) /\ SameStanding(copies[c], n)
  BY <1>4 DEF ACopy, Copies, SameStanding
<1>7. /\ Copies(copies') /\ DOMAIN copies' = DOMAIN copies /\ copies'[c] = n
      /\ \A d \in DOMAIN copies \ {c} : copies'[d] = copies[d]
  BY <1>5, <1>6, OneEdited
<1> QED BY <1>1, <1>6, <1>7 DEF SameStanding, SameWork

(* A lifecycle or an archive flag set by hand disturbs the copy's partner.   *)
LEMMA ByHandSteps ==
    ASSUME Copies(copies), NEW r \in Request, SetLifecycle(r) \/ ToggleArchived(r)
    PROVE  \E c \in DOMAIN copies :
               /\ Copies(copies') /\ DOMAIN copies' = DOMAIN copies
               /\ copies'[c].partner = copies[c].partner
               /\ SameWork(copies[c], copies'[c])
               /\ \A d \in DOMAIN copies \ {c} : copies'[d] = copies[d]
               /\ disturbed' = disturbed \cup {copies[c].partner}
<1>1. PICK c \in DOMAIN copies : \E n :
         /\ ACopy(n) /\ n.partner = copies[c].partner /\ SameWork(copies[c], n)
         /\ copies' = [copies EXCEPT ![c] = n]
         /\ disturbed' = disturbed \cup {copies[c].partner}
  <2>1. CASE SetLifecycle(r)
    <3>1. PICK c \in DOMAIN copies, l \in {"active", "complete", "cancelled"} :
             /\ copies' = [copies EXCEPT ![c].lifecycle = l]
             /\ disturbed' = disturbed \cup {copies[c].partner}
      BY <2>1 DEF SetLifecycle
    <3>2. PICK n : n = [copies[c] EXCEPT !.lifecycle = l]
      OBVIOUS
    <3>3. ACopy(n) /\ n.partner = copies[c].partner /\ SameWork(copies[c], n)
      BY <3>2 DEF ACopy, Copies, SameWork
    <3>4. copies' = [copies EXCEPT ![c] = n]
      BY <3>1, <3>2
    <3> QED BY <3>1, <3>3, <3>4
  <2>2. CASE ToggleArchived(r)
    <3>1. PICK c \in DOMAIN copies :
             /\ copies' = [copies EXCEPT ![c].isArchived = ~@]
             /\ disturbed' = disturbed \cup {copies[c].partner}
      BY <2>2 DEF ToggleArchived
    <3>2. PICK n : n = [copies[c] EXCEPT !.isArchived = ~@]
      OBVIOUS
    <3>3. ACopy(n) /\ n.partner = copies[c].partner /\ SameWork(copies[c], n)
      BY <3>2 DEF ACopy, Copies, SameWork
    <3>4. copies' = [copies EXCEPT ![c] = n]
      BY <3>1, <3>2
    <3> QED BY <3>1, <3>3, <3>4
  <2> QED BY <2>1, <2>2
<1>2. PICK n : /\ ACopy(n) /\ n.partner = copies[c].partner /\ SameWork(copies[c], n)
               /\ copies' = [copies EXCEPT ![c] = n]
  BY <1>1
<1> QED BY <1>1, <1>2, OneEdited

LiveOf(cs, p) == {c \in DOMAIN cs : cs[c].partner = p /\ Live(cs[c])}

(* A removal cancels one live copy of the partner, if there is one.          *)
LEMMA CancelSteps ==
    ASSUME Copies(copies), NEW p, copies' \in Cancelled(p)
    PROVE  /\ Copies(copies') /\ DOMAIN copies' = DOMAIN copies
           /\ \A c \in DOMAIN copies : /\ copies'[c].partner = copies[c].partner
                                       /\ ~Live(copies[c]) => copies'[c] = copies[c]
           /\ \A q : q # p => LiveOf(copies', q) = LiveOf(copies, q)
           /\ \A c : LiveOf(copies, p) = {c} => LiveOf(copies', p) = {}
<1>1. PICK live : live = LiveOf(copies, p)
  OBVIOUS
<1>2. CASE live = {}
  <2>1. copies' = copies
    BY <1>1, <1>2 DEF Cancelled, LiveOf
  <2> QED BY <1>1, <1>2, <2>1
<1>3. CASE live # {}
  <2>1. PICK d \in live : copies' = [copies EXCEPT ![d].lifecycle = "cancelled"]
    BY <1>1, <1>3 DEF Cancelled, LiveOf
  <2>2. PICK n : n = [copies[d] EXCEPT !.lifecycle = "cancelled"]
    OBVIOUS
  <2>3. d \in DOMAIN copies /\ copies[d].partner = p /\ Live(copies[d])
    BY <1>1, <2>1 DEF LiveOf
  <2>4. ACopy(n) /\ n.partner = copies[d].partner /\ ~Live(n)
    BY <2>2, <2>3 DEF ACopy, Copies, Live
  <2>5. copies' = [copies EXCEPT ![d] = n]
    BY <2>1, <2>2
  <2>6. /\ Copies(copies') /\ DOMAIN copies' = DOMAIN copies /\ copies'[d] = n
        /\ \A c \in DOMAIN copies \ {d} : copies'[c] = copies[c]
    BY <2>3, <2>4, <2>5, OneEdited
  <2>7. \A c \in DOMAIN copies : /\ copies'[c].partner = copies[c].partner
                                 /\ ~Live(copies[c]) => copies'[c] = copies[c]
    BY <2>3, <2>4, <2>6
  <2>8. ASSUME NEW q, q # p PROVE LiveOf(copies', q) = LiveOf(copies, q)
    BY <2>3, <2>4, <2>6, <2>8 DEF LiveOf
  <2>9. ASSUME NEW c, LiveOf(copies, p) = {c} PROVE LiveOf(copies', p) = {}
    <3>1. d = c
      BY <1>1, <2>1, <2>9
    <3> QED BY <2>4, <2>6, <2>9, <3>1 DEF LiveOf
  <2> QED BY <2>6, <2>7, <2>8, <2>9
<1> QED BY <1>2, <1>3

LEMMA CreateSteps ==
    ASSUME Copies(copies), NEW r \in Request, AddCreate(r)
    PROVE  /\ Copies(copies') /\ DOMAIN copies \subseteq DOMAIN copies'
           /\ \A c \in DOMAIN copies : copies'[c] = copies[c]
           /\ \A q : q # op[r].partner => LiveOf(copies', q) = LiveOf(copies, q)
           /\ \/ /\ op' = [op EXCEPT ![r] = [Idle EXCEPT !.step = "adding", !.todo = op[r].todo]]
                 /\ UNCHANGED disturbed
                 /\ \E n : LiveOf(copies', op[r].partner) = LiveOf(copies, op[r].partner) \cup {n}
              \/ /\ Finish(r) /\ disturbed' = disturbed \cup {op[r].partner}
<1>1. CASE ValidTemplate(op[r].read, op[r].edges) /\ Ids(op[r].read) \subseteq Ids(steps)
  <2>1. PICK c : c = [partner |-> op[r].partner, lifecycle |-> "active", isArchived |-> FALSE,
                      phases |-> Fresh(op[r].read), deps |-> Wired(Fresh(op[r].read), op[r].edges),
                      behind |-> op[r].read # steps \/ op[r].edges # stepDeps]
    OBVIOUS
  <2>2. ACopy(c) /\ c.partner = op[r].partner /\ Live(c)
    BY <2>1 DEF ACopy, Live
  <2>3. /\ copies' = Append(copies, c) /\ UNCHANGED disturbed
        /\ op' = [op EXCEPT ![r] = [Idle EXCEPT !.step = "adding", !.todo = op[r].todo]]
    BY <1>1, <2>1 DEF AddCreate
  <2>4. /\ Copies(copies') /\ DOMAIN copies \subseteq DOMAIN copies'
        /\ \A d \in DOMAIN copies : copies'[d] = copies[d]
    BY <2>2, <2>3, Appended
  <2>5. PICK n : n \notin DOMAIN copies /\ DOMAIN copies' = DOMAIN copies \cup {n} /\ copies'[n] = c
    BY <2>2, <2>3, Appended
  <2>6. \A q : q # op[r].partner => LiveOf(copies', q) = LiveOf(copies, q)
    BY <2>2, <2>4, <2>5 DEF LiveOf
  <2>7. LiveOf(copies', op[r].partner) = LiveOf(copies, op[r].partner) \cup {n}
    BY <2>2, <2>4, <2>5 DEF LiveOf
  <2> QED BY <2>3, <2>4, <2>6, <2>7
<1>2. CASE ~(ValidTemplate(op[r].read, op[r].edges) /\ Ids(op[r].read) \subseteq Ids(steps))
  <2>1. UNCHANGED copies /\ Finish(r) /\ disturbed' = disturbed \cup {op[r].partner}
    BY <1>2 DEF AddCreate
  <2> QED BY <2>1
<1> QED BY <1>1, <1>2

-----------------------------------------------------------------------------
(* What the requests are doing.                                              *)

Acting == {"joining", "building", "removing"}

LEMMA IdleRequest == ARequest(Idle) /\ Idle.step = "idle"
BY DEF ARequest, Idle

(* How a step moves its request on; where it stands otherwise is as before.  *)
LEMMA RequestMoves ==
    ASSUME NEW ops, Requests(ops), NEW r \in Request, NEW o, ARequest(o)
    PROVE  LET ops2 == [ops EXCEPT ![r] = o] IN
           /\ Requests(ops2) /\ ops2[r] = o
           /\ \A q \in Request \ {r} : ops2[q] = ops[q]
BY DEF Requests

LEMMA NextMoves ==
    ASSUME Requests(op), NEW r \in Request, AddNext(r)
    PROVE  \E o : /\ ARequest(o) /\ op' = [op EXCEPT ![r] = o]
                  /\ \/ o.step \notin Acting /\ UNCHANGED disturbed
                     \/ /\ o.step = "joining" /\ member[o.partner] # "active"
                        /\ disturbed' = disturbed \cup
                               IF Others(r, o.partner) THEN {o.partner} ELSE {}
<1>0. ARequest(op[r]) /\ op[r].step = "adding"
  BY DEF Requests, AddNext
<1>1. CASE op[r].todo = {}
  BY <1>1, IdleRequest DEF AddNext, Finish, Acting
<1>2. CASE op[r].todo # {}
  <2>1. PICK p \in op[r].todo :
           IF Skips(p)
           THEN /\ op' = [op EXCEPT ![r].todo = @ \ {p}]
                /\ UNCHANGED disturbed
           ELSE /\ op' = [op EXCEPT ![r].todo = @ \ {p}, ![r].partner = p,
                                    ![r].step = "joining"]
                /\ disturbed' = disturbed \cup IF Others(r, p) THEN {p} ELSE {}
    BY <1>2 DEF AddNext
  <2>2. CASE Skips(p)
    <3>1. PICK o : o = [op[r] EXCEPT !.todo = @ \ {p}]
      OBVIOUS
    <3>2. ARequest(o) /\ o.step = "adding"
      BY <1>0, <3>1 DEF ARequest
    <3>3. op' = [op EXCEPT ![r] = o] /\ UNCHANGED disturbed
      BY <2>1, <2>2, <3>1
    <3> QED BY <3>2, <3>3 DEF Acting
  <2>3. CASE ~Skips(p)
    <3>1. PICK o : o = [op[r] EXCEPT !.todo = @ \ {p}, !.partner = p, !.step = "joining"]
      OBVIOUS
    <3>2. ARequest(o) /\ o.step = "joining" /\ o.partner = p
      BY <1>0, <3>1 DEF ARequest
    <3>3. op' = [op EXCEPT ![r] = o]
      BY <2>1, <2>3, <3>1 DEF Requests
    <3> QED BY <2>1, <2>3, <3>2, <3>3 DEF Skips
  <2> QED BY <2>2, <2>3
<1> QED BY <1>1, <1>2

(* The same of everything else a request does.                               *)
LEMMA BeginMoves ==
    ASSUME Requests(op), NEW r \in Request,
           AddBegin(r) \/ SaveRead(r) \/ SetLifecycle(r) \/ ToggleArchived(r) \/ Progress(r)
    PROVE  \E o : /\ ARequest(o) /\ op' = [op EXCEPT ![r] = o]
                  /\ op[r].step \notin Acting /\ o.step \notin Acting
<1>1. CASE AddBegin(r)
  <2>1. PICK todo : Begin(r, [Idle EXCEPT !.step = "adding", !.todo = todo])
    BY <1>1 DEF AddBegin
  <2>2. PICK o : o = [Idle EXCEPT !.step = "adding", !.todo = todo]
    OBVIOUS
  <2>3. ARequest(o) /\ o.step = "adding"
    BY <2>2 DEF ARequest, Idle
  <2> QED BY <2>1, <2>2, <2>3 DEF Begin, Ready, Acting
<1>2. CASE SaveRead(r)
  <2>1. PICK o : Begin(r, o) /\ ARequest(o) /\ o.step = "saving"
    <3>1. PICK draft \in Drafts : \E E \in Graphs[Ids(draft)] :
             Begin(r, [Idle EXCEPT !.step = "saving", !.draft = Marked(draft, E), !.edges = E,
                                   !.read = steps])
      BY <1>2 DEF SaveRead
    <3>2. PICK E \in Graphs[Ids(draft)] :
             Begin(r, [Idle EXCEPT !.step = "saving", !.draft = Marked(draft, E), !.edges = E,
                                   !.read = steps])
      BY <3>1
    <3>3. PICK o : o = [Idle EXCEPT !.step = "saving", !.draft = Marked(draft, E), !.edges = E,
                                    !.read = steps]
      OBVIOUS
    <3>4. ARequest(o) /\ o.step = "saving"
      BY <3>3 DEF ARequest, Idle
    <3> QED BY <3>2, <3>3, <3>4
  <2> QED BY <2>1 DEF Begin, Ready, Acting
<1>3. CASE SetLifecycle(r) \/ ToggleArchived(r) \/ Progress(r)
  <2>1. Begin(r, Idle)
    BY <1>3 DEF SetLifecycle, ToggleArchived, Progress
  <2> QED BY <2>1, IdleRequest DEF Begin, Ready, Acting
<1> QED BY <1>1, <1>2, <1>3

LEMMA JoinMoves ==
    ASSUME Requests(op), NEW r \in Request, AddJoin(r)
    PROVE  \E o : /\ ARequest(o) /\ op' = [op EXCEPT ![r] = o]
                  /\ o.step = "building" /\ o.partner = op[r].partner
<1>1. op[r].step = "joining" /\ ARequest(op[r])
  BY DEF AddJoin, Requests
<1>2. PICK o : o = [op[r] EXCEPT !.step = "building", !.read = steps, !.edges = stepDeps]
  OBVIOUS
<1>3. ARequest(o) /\ o.step = "building" /\ o.partner = op[r].partner
  BY <1>1, <1>2 DEF ARequest
<1>4. op' = [op EXCEPT ![r] = o]
  BY <1>2 DEF AddJoin, Requests
<1> QED BY <1>3, <1>4

LEMMA RemoveMoves ==
    ASSUME Requests(op), NEW r \in Request, RemoveRead(r)
    PROVE  \E o : /\ ARequest(o) /\ op' = [op EXCEPT ![r] = o]
                  /\ op[r].step \notin Acting
                  /\ o.step = "removing" /\ member[o.partner] = "active"
                  /\ disturbed' = disturbed \cup IF Others(r, o.partner) THEN {o.partner} ELSE {}
<1>1. PICK p : /\ member[p] = "active"
               /\ Begin(r, [Idle EXCEPT !.step = "removing", !.partner = p])
               /\ disturbed' = disturbed \cup IF Others(r, p) THEN {p} ELSE {}
  BY DEF RemoveRead
<1>2. PICK o : o = [Idle EXCEPT !.step = "removing", !.partner = p]
  OBVIOUS
<1>3. ARequest(o) /\ o.step = "removing" /\ o.partner = p
  BY <1>2 DEF ARequest, Idle
<1> QED BY <1>1, <1>2, <1>3 DEF Begin, Ready, Acting

LEMMA CreateMoves ==
    ASSUME NEW r \in Request
    PROVE  LET o == [Idle EXCEPT !.step = "adding", !.todo = op[r].todo] IN
           ARequest(o) /\ o.step \notin Acting
<1>1. PICK o : o = [Idle EXCEPT !.step = "adding", !.todo = op[r].todo]
  OBVIOUS
<1>2. ARequest(o) /\ o.step = "adding"
  BY <1>1 DEF ARequest, Idle
<1> QED BY <1>1, <1>2 DEF Acting

(* The shape is kept.                                                        *)
LEMMA ShapeInductive == Shape /\ [Next]_vars => Shape'
<1> SUFFICES ASSUME Shape, [Next]_vars PROVE Shape'
  OBVIOUS
<1> USE DEF Shape
<1>0. Copies(copies) /\ Requests(op)
  OBVIOUS
<1>1. ASSUME NEW r \in Request, AddBegin(r) PROVE Shape'
  <2>1. Requests(op')
    BY <1>1, BeginMoves, RequestMoves
  <2> QED BY <1>1, <2>1 DEF AddBegin
<1>2. ASSUME NEW r \in Request, AddNext(r) PROVE Shape'
  <2>1. Requests(op')
    BY <1>2, NextMoves, RequestMoves
  <2> QED BY <1>2, <2>1 DEF AddNext
<1>3. ASSUME NEW r \in Request, AddJoin(r) PROVE Shape'
  <2>1. Requests(op')
    BY <1>3, JoinMoves, RequestMoves
  <2> QED BY <1>3, <2>1 DEF AddJoin
<1>4. ASSUME NEW r \in Request, AddCreate(r) PROVE Shape'
  <2>1. Requests(op')
    <3>1. \E o : ARequest(o) /\ op' = [op EXCEPT ![r] = o]
      BY <1>4, CreateSteps, CreateMoves, IdleRequest DEF Finish
    <3>2. PICK o : ARequest(o) /\ op' = [op EXCEPT ![r] = o]
      BY <3>1
    <3>3. LET ops2 == [op EXCEPT ![r] = o] IN Requests(ops2)
      BY <1>0, <3>2, RequestMoves
    <3> QED BY <3>2, <3>3
  <2> QED BY <1>4, <2>1, CreateSteps DEF AddCreate
<1>5. ASSUME NEW r \in Request, AddFails(r) PROVE Shape'
  BY <1>5, RequestMoves, IdleRequest DEF AddFails, Finish
<1>6. ASSUME NEW r \in Request, RemoveRead(r) PROVE Shape'
  <2>1. Requests(op')
    BY <1>6, RemoveMoves, RequestMoves
  <2> QED BY <1>6, <2>1 DEF RemoveRead
<1>7. ASSUME NEW r \in Request, RemoveCommit(r) PROVE Shape'
  <2>1. Requests(op')
    BY <1>7, RequestMoves, IdleRequest DEF RemoveCommit, Finish
  <2>2. Copies(copies')
    BY <1>7, CancelSteps DEF RemoveCommit
  <2> QED BY <1>7, <2>1, <2>2 DEF RemoveCommit
<1>8. ASSUME NEW r \in Request, SaveRead(r) PROVE Shape'
  <2>1. Requests(op')
    BY <1>8, BeginMoves, RequestMoves
  <2> QED BY <1>8, <2>1 DEF SaveRead
<1>9. ASSUME NEW r \in Request, SaveWrite(r) PROVE Shape'
  <2>1. Requests(op')
    BY <1>9, RequestMoves, IdleRequest DEF SaveWrite, Finish
  <2>2. Copies(copies') /\ UNCHANGED member
    BY <1>9, SaveSteps DEF SaveWrite
  <2> QED BY <2>1, <2>2
<1>10. ASSUME NEW r \in Request, SetLifecycle(r) \/ ToggleArchived(r) PROVE Shape'
  <2>1. Requests(op')
    BY <1>10, BeginMoves, RequestMoves
  <2>2. Copies(copies') /\ UNCHANGED member
    BY <1>10, ByHandSteps DEF SetLifecycle, ToggleArchived
  <2> QED BY <2>1, <2>2
<1>11. ASSUME NEW r \in Request, Progress(r) PROVE Shape'
  <2>1. Requests(op')
    BY <1>11, BeginMoves, RequestMoves
  <2>2. Copies(copies') /\ UNCHANGED member
    BY <1>11, ProgressSteps DEF Progress
  <2> QED BY <2>1, <2>2
<1>12. CASE UNCHANGED vars
  BY <1>12 DEF vars
<1> QED
  BY <1>1, <1>2, <1>3, <1>4, <1>5, <1>6, <1>7, <1>8, <1>9, <1>10, <1>11, <1>12 DEF Next

LEMMA ShapeInvariant == Spec => []Shape
<1>1. Init => Shape
  <2> SUFFICES ASSUME Init PROVE Shape
    OBVIOUS
  <2>1. copies \in Seq({})
    BY EmptySeq DEF Init
  <2>2. DOMAIN copies = {}
    BY <2>1, LenProperties DEF Init
  <2>3. Copies(copies)
    BY <2>1, <2>2 DEF Copies
  <2>4. Requests(op)
    BY IdleRequest DEF Init, Requests
  <2> QED BY <2>3, <2>4 DEF Init, Shape
<1> QED BY <1>1, ShapeInductive, PTL DEF Spec

-----------------------------------------------------------------------------
(* A copy that is complete, cancelled or archived is history: whatever       *)
(* happens to the template, to its partner's membership and to other copies, *)
(* its phases keep their names, order of creation and dots, and its          *)
(* dependencies stay.  Only the trace of a step that is gone is cleared.     *)
THEOREM FinishedCopiesAreLeftAlone == Spec => HistoryIsNotRewritten
<1> DEFINE Left == \A c \in DOMAIN copies : ~Live(copies[c]) => SameWork(copies[c], copies'[c])
<1>1. Shape /\ [Next]_vars => Left
  <2> SUFFICES ASSUME Shape, [Next]_vars PROVE Left
    OBVIOUS
  <2>0. Copies(copies) /\ Requests(op) /\ (UNCHANGED copies => Left)
    BY DEF Shape, SameWork
  <2>1. ASSUME NEW r \in Request, SaveWrite(r) PROVE Left
    BY <2>0, <2>1, SaveSteps
  <2>2. ASSUME NEW r \in Request, Progress(r) PROVE Left
    BY <2>0, <2>2, ProgressSteps
  <2>3. ASSUME NEW r \in Request, SetLifecycle(r) \/ ToggleArchived(r) PROVE Left
    BY <2>0, <2>3, ByHandSteps DEF SameWork
  <2>4. ASSUME NEW r \in Request, AddCreate(r) PROVE Left
    BY <2>0, <2>4, CreateSteps DEF SameWork
  <2>5. ASSUME NEW r \in Request, RemoveCommit(r) PROVE Left
    BY <2>0, <2>5, CancelSteps DEF RemoveCommit, SameWork
  <2>6. ASSUME NEW r \in Request,
               AddBegin(r) \/ AddNext(r) \/ AddJoin(r) \/ AddFails(r) \/ RemoveRead(r) \/ SaveRead(r)
        PROVE  Left
    BY <2>0, <2>6 DEF AddBegin, AddNext, AddJoin, AddFails, RemoveRead, SaveRead
  <2>7. CASE UNCHANGED vars
    BY <2>0, <2>7 DEF vars
  <2> HIDE DEF Left
  <2> QED BY <2>1, <2>2, <2>3, <2>4, <2>5, <2>6, <2>7 DEF Next
<1>2. Left => [\A c \in DOMAIN copies : ~Live(copies[c]) =>
                 /\ {[p EXCEPT !.source = None] : p \in copies[c].phases}
                        = {[p EXCEPT !.source = None] : p \in copies'[c].phases}
                 /\ copies'[c].deps = copies[c].deps]_vars
  BY DEF SameWork, Bare
<1> HIDE DEF Left
<1> QED BY <1>1, <1>2, ShapeInvariant, PTL DEF Spec, HistoryIsNotRewritten

-----------------------------------------------------------------------------
(* The standing of a partner that was left to one request at a time: at most *)
(* one is joining, building or removing it, and what that one has read of    *)
(* its membership and its copies is still so.                                *)

Handles(ops, r, p) == ops[r].partner = p /\ ops[r].step \in Acting

Alone(ops, p) == \A r, q \in Request : Handles(ops, r, p) /\ Handles(ops, q, p) => r = q

InHand(ops, m, live, p) ==
    \A r \in Request : ops[r].partner = p =>
        /\ ops[r].step = "joining" => m # "active"
        /\ ops[r].step = "building" => m = "active" /\ live = {}
        /\ ops[r].step = "removing" => m = "active"

NobodyBuilds(ops, p) == \A r \in Request : ~(ops[r].step = "building" /\ ops[r].partner = p)

Settled(ops, m, live, p) ==
    NobodyBuilds(ops, p) => /\ m = "active" => \E c : live = {c}
                            /\ m # "active" => live = {}

Stands(ops, m, live, p) == Alone(ops, p) /\ InHand(ops, m, live, p) /\ Settled(ops, m, live, p)

Standing == \A p \in Partner \ disturbed : Stands(op, member[p], LiveOf(copies, p), p)

(* A request that had and has nothing to do with the partner.                *)
LEMMA AsideStands ==
    ASSUME NEW p, NEW m, NEW live, Stands(op, m, live, p), NEW r \in Request,
           \A q \in Request \ {r} : op'[q] = op[q],
           ~Handles(op, r, p), ~Handles(op', r, p)
    PROVE  Stands(op', m, live, p)
<1>1. ~(op'[r].partner = p /\ op'[r].step \in {"joining", "building", "removing"})
  BY DEF Handles, Acting
<1>2. ~(op[r].partner = p /\ op[r].step \in {"joining", "building", "removing"})
  BY DEF Handles, Acting
<1>3. \A q \in Request : q # r => op'[q] = op[q]
  OBVIOUS
<1>4. Alone(op', p)
  BY <1>3 DEF Stands, Alone, Handles
<1>5. InHand(op', m, live, p)
  BY <1>1, <1>3 DEF Stands, InHand
<1>6. NobodyBuilds(op', p) => NobodyBuilds(op, p)
  BY <1>2, <1>3 DEF NobodyBuilds
<1> QED BY <1>4, <1>5, <1>6 DEF Stands, Settled

(* The one request that handles a partner takes a step: the rest do not.     *)
LEMMA OthersDoNot ==
    ASSUME NEW p, Alone(op, p), NEW r \in Request, Handles(op, r, p),
           \A q \in Request \ {r} : op'[q] = op[q]
    PROVE  \A q \in Request \ {r} : ~Handles(op, q, p) /\ ~Handles(op', q, p)
BY DEF Alone, Handles

(* Of such a request, and of one that begins with nobody else at it, what    *)
(* matters is what it does now.                                              *)
LEMMA OnlyOneStands ==
    ASSUME NEW p, NEW m, NEW live, NEW r \in Request,
           \A q \in Request \ {r} : ~Handles(op', q, p),
           op'[r].partner = p =>
               /\ op'[r].step = "joining" => m # "active"
               /\ op'[r].step = "building" => m = "active" /\ live = {}
               /\ op'[r].step = "removing" => m = "active",
           \/ Handles(op', r, p) /\ op'[r].step = "building"
           \/ /\ m = "active" => \E c : live = {c}
              /\ m # "active" => live = {}
    PROVE  Stands(op', m, live, p)
<1>1. Alone(op', p)
  BY DEF Alone
<1>2. \A q \in Request \ {r} :
          ~(op'[q].partner = p /\ op'[q].step \in {"joining", "building", "removing"})
  BY DEF Handles, Acting
<1>3. InHand(op', m, live, p)
  BY <1>2 DEF InHand
<1>4. Settled(op', m, live, p)
  BY DEF Settled, NobodyBuilds, Handles
<1> QED BY <1>1, <1>3, <1>4 DEF Stands

(* Nobody's standing moves when requests begin, or save, or end beside it.   *)
LEMMA LiveKept ==
    ASSUME DOMAIN copies' = DOMAIN copies,
           \A c \in DOMAIN copies : SameStanding(copies[c], copies'[c]), NEW p
    PROVE  LiveOf(copies', p) = LiveOf(copies, p)
BY DEF LiveOf, SameStanding, Live

LEMMA BystandersStand ==
    ASSUME Shape, Standing, NEW r \in Request, NEW o, op' = [op EXCEPT ![r] = o], ARequest(o),
           op[r].step \notin Acting, o.step \notin Acting, UNCHANGED member,
           \A p \in Partner \ disturbed' :
               p \notin disturbed /\ LiveOf(copies', p) = LiveOf(copies, p)
    PROVE  Standing'
<1>1. op'[r] = o /\ \A q \in Request \ {r} : op'[q] = op[q]
  BY RequestMoves DEF Shape
<1>2. ASSUME NEW p \in Partner \ disturbed' PROVE Stands(op', member'[p], LiveOf(copies', p), p)
  <2>1. Stands(op, member[p], LiveOf(copies, p), p)
    BY <1>2 DEF Standing
  <2>2. ~Handles(op, r, p) /\ ~Handles(op', r, p)
    BY <1>1 DEF Handles
  <2>3. Stands(op', member[p], LiveOf(copies, p), p)
    BY <1>1, <2>1, <2>2, AsideStands
  <2> QED BY <1>2, <2>3
<1> QED BY <1>2 DEF Standing

(* The same of a partner that the step is not about.                         *)
LEMMA AnotherStands ==
    ASSUME Standing, NEW r \in Request, NEW p \in Partner \ disturbed,
           \A q \in Request \ {r} : op'[q] = op[q],
           ~Handles(op, r, p), ~Handles(op', r, p),
           member'[p] = member[p], LiveOf(copies', p) = LiveOf(copies, p)
    PROVE  Stands(op', member'[p], LiveOf(copies', p), p)
BY AsideStands DEF Standing

(* A request that takes a partner on, alone.                                 *)
LEMMA TakenOnStands ==
    ASSUME Shape, Standing, NEW r \in Request, NEW o, op' = [op EXCEPT ![r] = o], ARequest(o),
           op[r].step \notin Acting, UNCHANGED <<member, copies>>,
           \/ o.step = "joining" /\ member[o.partner] # "active"
           \/ o.step = "removing" /\ member[o.partner] = "active",
           disturbed' = disturbed \cup IF Others(r, o.partner) THEN {o.partner} ELSE {}
    PROVE  Standing'
<1>1. op'[r] = o /\ \A q \in Request \ {r} : op'[q] = op[q]
  BY RequestMoves DEF Shape
<1>2. ASSUME NEW p \in Partner \ disturbed' PROVE Stands(op', member'[p], LiveOf(copies', p), p)
  <2>0. p \notin disturbed /\ ~Handles(op, r, p)
    BY <1>2 DEF Handles
  <2>1. CASE p # o.partner
    BY <1>1, <2>0, <2>1, AnotherStands DEF Handles
  <2>2. CASE p = o.partner
    <3>1. ~Others(r, p)
      BY <1>2, <2>2
    <3>2. \A q \in Request \ {r} : ~Handles(op, q, p) /\ ~Handles(op', q, p)
      BY <1>1, <3>1 DEF Others, Handles, Acting
    <3>3. Settled(op, member[p], LiveOf(copies, p), p)
      BY <2>0 DEF Standing, Stands
    <3>4. NobodyBuilds(op, p)
      BY <2>0, <3>2 DEF NobodyBuilds, Handles, Acting
    <3>5. /\ member[p] = "active" => \E c : LiveOf(copies, p) = {c}
          /\ member[p] # "active" => LiveOf(copies, p) = {}
      BY <3>3, <3>4 DEF Settled
    <3>6. PICK m, live : m = member[p] /\ live = LiveOf(copies, p)
      OBVIOUS
    <3>7. Stands(op', m, live, p)
      BY <1>1, <2>2, <3>2, <3>5, <3>6, OnlyOneStands
    <3> QED BY <3>6, <3>7
  <2> QED BY <2>1, <2>2
<1> QED BY <1>2 DEF Standing

LEMMA JoinStands ==
    ASSUME Shape, Standing, NEW r \in Request, AddJoin(r)
    PROVE  Standing'
<1>0. /\ op[r].step = "joining" /\ UNCHANGED <<copies, disturbed>>
      /\ member' = [member EXCEPT ![op[r].partner] = "active"]
  BY DEF AddJoin
<1>1. PICK o : /\ ARequest(o) /\ op' = [op EXCEPT ![r] = o]
               /\ o.step = "building" /\ o.partner = op[r].partner
  BY JoinMoves DEF Shape
<1>2. op'[r] = o /\ \A q \in Request \ {r} : op'[q] = op[q]
  BY <1>1, RequestMoves DEF Shape
<1>3. ASSUME NEW p \in Partner \ disturbed' PROVE Stands(op', member'[p], LiveOf(copies', p), p)
  <2>1. CASE p # o.partner
    <3>1. member'[p] = member[p] /\ ~Handles(op, r, p) /\ ~Handles(op', r, p)
      BY <1>0, <1>1, <1>2, <2>1 DEF Handles, Shape
    <3> QED BY <1>0, <1>2, <1>3, <3>1, AnotherStands
  <2>2. CASE p = o.partner
    <3>0. Stands(op, member[p], LiveOf(copies, p), p) /\ Handles(op, r, p)
      BY <1>0, <1>1, <1>3, <2>2 DEF Standing, Handles, Acting
    <3>1. \A q \in Request \ {r} : ~Handles(op, q, p) /\ ~Handles(op', q, p)
      BY <1>2, <3>0, OthersDoNot DEF Stands
    <3>2. NobodyBuilds(op, p)
      BY <1>0, <3>1 DEF NobodyBuilds, Handles, Acting
    <3>3. member[p] # "active"
      BY <1>0, <1>1, <2>2, <3>0 DEF Stands, InHand
    <3>4. LiveOf(copies, p) = {}
      BY <3>0, <3>2, <3>3 DEF Stands, Settled
    <3>5. member'[p] = "active"
      BY <1>0, <1>1, <1>3, <2>2 DEF Shape
    <3>6. Handles(op', r, p)
      BY <1>1, <1>2, <2>2 DEF Handles, Acting
    <3>7. Stands(op', "active", {}, p)
      BY <1>1, <1>2, <3>1, <3>6, OnlyOneStands
    <3> QED BY <1>0, <3>4, <3>5, <3>7
  <2> QED BY <2>1, <2>2
<1> QED BY <1>3 DEF Standing

(* The request ends, or a part of it does: the partner it handled.           *)
LEMMA CreateStands ==
    ASSUME Shape, Standing, NEW r \in Request, AddCreate(r)
    PROVE  Standing'
<1>0. op[r].step = "building" /\ UNCHANGED member
  BY DEF AddCreate
<1>1. PICK o : /\ ARequest(o) /\ op' = [op EXCEPT ![r] = o] /\ o.step \notin Acting
               /\ \/ /\ UNCHANGED disturbed
                     /\ \E n : LiveOf(copies', op[r].partner) = LiveOf(copies, op[r].partner) \cup {n}
                  \/ disturbed' = disturbed \cup {op[r].partner}
  <2>1. ARequest(Idle) /\ Idle.step \notin Acting
    BY IdleRequest DEF Acting
  <2>2. PICK o : o = [Idle EXCEPT !.step = "adding", !.todo = op[r].todo]
    OBVIOUS
  <2>3. ARequest(o) /\ o.step \notin Acting
    BY <2>2, CreateMoves
  <2> QED BY <2>1, <2>2, <2>3, CreateSteps DEF Finish, Shape
<1>2. op'[r] = o /\ \A q \in Request \ {r} : op'[q] = op[q]
  BY <1>1, RequestMoves DEF Shape
<1>3. ~\E p : Handles(op', r, p)
  BY <1>1, <1>2 DEF Handles
<1>4. ASSUME NEW p \in Partner \ disturbed' PROVE Stands(op', member'[p], LiveOf(copies', p), p)
  <2>0. p \notin disturbed
    BY <1>1, <1>4
  <2>1. CASE p # op[r].partner
    <3>1. LiveOf(copies', p) = LiveOf(copies, p)
      BY <2>1, CreateSteps DEF Shape
    <3>2. ~Handles(op, r, p) /\ ~Handles(op', r, p)
      BY <1>3, <2>1 DEF Handles
    <3> QED BY <1>0, <1>2, <2>0, <3>1, <3>2, AnotherStands
  <2>2. CASE p = op[r].partner
    <3>0. Stands(op, member[p], LiveOf(copies, p), p) /\ Handles(op, r, p)
      BY <1>0, <2>0, <2>2 DEF Standing, Handles, Acting
    <3>1. \A q \in Request \ {r} : ~Handles(op, q, p) /\ ~Handles(op', q, p)
      BY <1>2, <3>0, OthersDoNot DEF Stands
    <3>2. member[p] = "active" /\ LiveOf(copies, p) = {}
      BY <1>0, <2>2, <3>0 DEF Stands, InHand
    <3>3. PICK n : LiveOf(copies', p) = LiveOf(copies, p) \cup {n}
      BY <1>1, <1>4, <2>2
    <3>4. LiveOf(copies', p) = {n} /\ op'[r].step \notin {"joining", "building", "removing"}
      BY <1>1, <1>2, <3>2, <3>3 DEF Acting
    <3>5. Stands(op', "active", {n}, p)
      BY <3>1, <3>4, OnlyOneStands
    <3> QED BY <1>0, <3>2, <3>4, <3>5
  <2> QED BY <2>1, <2>2
<1> QED BY <1>4 DEF Standing

LEMMA FailsStands ==
    ASSUME Shape, Standing, NEW r \in Request, AddFails(r)
    PROVE  Standing'
<1>0. /\ UNCHANGED <<member, copies>> /\ disturbed' = disturbed \cup {op[r].partner}
      /\ op' = [op EXCEPT ![r] = Idle]
  BY DEF AddFails, Finish
<1>1. op'[r] = Idle /\ \A q \in Request \ {r} : op'[q] = op[q]
  BY <1>0, IdleRequest, RequestMoves DEF Shape
<1>2. ASSUME NEW p \in Partner \ disturbed' PROVE Stands(op', member'[p], LiveOf(copies', p), p)
  <2>1. p \notin disturbed /\ ~Handles(op, r, p) /\ ~Handles(op', r, p)
    BY <1>0, <1>1, <1>2, IdleRequest DEF Handles, Acting
  <2> QED BY <1>0, <1>1, <1>2, <2>1, AnotherStands
<1> QED BY <1>2 DEF Standing

LEMMA CommitStands ==
    ASSUME Shape, Standing, NEW r \in Request, RemoveCommit(r)
    PROVE  Standing'
<1>0. /\ op[r].step = "removing" /\ op' = [op EXCEPT ![r] = Idle] /\ UNCHANGED disturbed
      /\ member' = [member EXCEPT ![op[r].partner] = "removed"]
      /\ copies' \in Cancelled(op[r].partner)
  BY DEF RemoveCommit, Finish
<1>1. op'[r] = Idle /\ \A q \in Request \ {r} : op'[q] = op[q]
  BY <1>0, IdleRequest, RequestMoves DEF Shape
<1>2. ASSUME NEW p \in Partner \ disturbed' PROVE Stands(op', member'[p], LiveOf(copies', p), p)
  <2>0. ~Handles(op', r, p)
    BY <1>1, IdleRequest DEF Handles, Acting
  <2>1. CASE p # op[r].partner
    <3>1. LiveOf(copies', p) = LiveOf(copies, p)
      BY <1>0, <2>1, CancelSteps DEF Shape
    <3>2. member'[p] = member[p] /\ ~Handles(op, r, p)
      BY <1>0, <2>1 DEF Handles, Shape
    <3> QED BY <1>0, <1>1, <1>2, <2>0, <3>1, <3>2, AnotherStands
  <2>2. CASE p = op[r].partner
    <3>0. Stands(op, member[p], LiveOf(copies, p), p) /\ Handles(op, r, p)
      BY <1>0, <1>2, <2>2 DEF Standing, Handles, Acting
    <3>1. \A q \in Request \ {r} : ~Handles(op, q, p) /\ ~Handles(op', q, p)
      BY <1>1, <3>0, OthersDoNot DEF Stands
    <3>2. NobodyBuilds(op, p)
      BY <1>0, <3>1 DEF NobodyBuilds, Handles, Acting
    <3>3. member[p] = "active"
      BY <1>0, <2>2, <3>0 DEF Stands, InHand
    <3>4. PICK c : LiveOf(copies, p) = {c}
      BY <3>0, <3>2, <3>3 DEF Stands, Settled
    <3>5. LiveOf(copies', p) = {}
      BY <1>0, <2>2, <3>4, CancelSteps DEF Shape
    <3>6. member'[p] = "removed"
      BY <1>0, <1>2, <2>2 DEF Shape
    <3>7. Stands(op', "removed", {}, p)
      BY <1>1, <3>1, IdleRequest, OnlyOneStands
    <3> QED BY <3>5, <3>6, <3>7
  <2> QED BY <2>1, <2>2
<1> QED BY <1>2 DEF Standing

LEMMA StandingInductive == Shape /\ Standing /\ [Next]_vars => Standing'
<1> SUFFICES ASSUME Shape, Standing, [Next]_vars PROVE Standing'
  OBVIOUS
<1>0. Copies(copies) /\ Requests(op)
  BY DEF Shape
<1>1. ASSUME NEW r \in Request, AddBegin(r) \/ SaveRead(r) PROVE Standing'
  <2>1. UNCHANGED <<member, copies, disturbed>>
    BY <1>1 DEF AddBegin, SaveRead
  <2> QED BY <1>0, <1>1, <2>1, BeginMoves, BystandersStand
<1>2. ASSUME NEW r \in Request, Progress(r) PROVE Standing'
  <2>1. UNCHANGED <<member, disturbed>> /\ \A p : LiveOf(copies', p) = LiveOf(copies, p)
    BY <1>0, <1>2, ProgressSteps, LiveKept DEF Progress
  <2> QED BY <1>0, <1>2, <2>1, BeginMoves, BystandersStand
<1>3. ASSUME NEW r \in Request, SetLifecycle(r) \/ ToggleArchived(r) PROVE Standing'
  <2>1. PICK c \in DOMAIN copies :
           /\ DOMAIN copies' = DOMAIN copies
           /\ copies'[c].partner = copies[c].partner
           /\ \A d \in DOMAIN copies \ {c} : copies'[d] = copies[d]
           /\ disturbed' = disturbed \cup {copies[c].partner}
    BY <1>0, <1>3, ByHandSteps
  <2>2. UNCHANGED member
    BY <1>3 DEF SetLifecycle, ToggleArchived
  <2>3. ASSUME NEW p \in Partner \ disturbed'
        PROVE  p \notin disturbed /\ LiveOf(copies', p) = LiveOf(copies, p)
    BY <2>1, <2>3 DEF LiveOf
  <2> QED BY <1>0, <1>3, <2>2, <2>3, BeginMoves, BystandersStand
<1>4. ASSUME NEW r \in Request, SaveWrite(r) PROVE Standing'
  <2>1. UNCHANGED <<member, disturbed>> /\ op[r].step = "saving" /\ op' = [op EXCEPT ![r] = Idle]
    BY <1>4 DEF SaveWrite, Finish
  <2>2. \A p : LiveOf(copies', p) = LiveOf(copies, p)
    BY <1>0, <1>4, SaveSteps, LiveKept
  <2>3. op[r].step \notin Acting /\ Idle.step \notin Acting /\ ARequest(Idle)
    BY <2>1, IdleRequest DEF Acting
  <2> QED BY <2>1, <2>2, <2>3, BystandersStand
<1>5. ASSUME NEW r \in Request, AddNext(r) PROVE Standing'
  <2>1. UNCHANGED <<member, copies>> /\ op[r].step \notin Acting
    BY <1>5 DEF AddNext, Acting
  <2>2. PICK o : /\ ARequest(o) /\ op' = [op EXCEPT ![r] = o]
                 /\ \/ o.step \notin Acting /\ UNCHANGED disturbed
                    \/ /\ o.step = "joining" /\ member[o.partner] # "active"
                       /\ disturbed' = disturbed \cup
                              IF Others(r, o.partner) THEN {o.partner} ELSE {}
    BY <1>0, <1>5, NextMoves
  <2> QED BY <2>1, <2>2, BystandersStand, TakenOnStands
<1>6. ASSUME NEW r \in Request, RemoveRead(r) PROVE Standing'
  <2>1. UNCHANGED <<member, copies>>
    BY <1>6 DEF RemoveRead
  <2> QED BY <1>0, <1>6, <2>1, RemoveMoves, TakenOnStands
<1>7. CASE UNCHANGED vars
  BY <1>7 DEF vars, Standing
<1> QED BY <1>1, <1>2, <1>3, <1>4, <1>5, <1>6, <1>7, JoinStands, CreateStands, FailsStands,
           CommitStands DEF Next

(* An active member has one active copy and whoever is not a member has none,*)
(* whatever saves, batches and other partners' requests come between the     *)
(* reading of a membership and the transactions that act on it.  It holds of *)
(* every partner whose requests never overlapped, whose additions got to     *)
(* their end and whose copies nobody ended, reopened or archived by hand.    *)
THEOREM MembersHaveOneCopy == Spec => []StandingIsOneCopy
<1>1. Init => Standing
  <2> SUFFICES ASSUME Init, NEW p \in Partner PROVE Stands(op, member[p], LiveOf(copies, p), p)
    BY DEF Standing, Init
  <2>1. \A r \in Request : op[r].step = "idle"
    BY IdleRequest DEF Init
  <2>2. \A r \in Request : op[r].step \notin {"joining", "building", "removing"}
    BY <2>1
  <2>3. DOMAIN copies = {} /\ member[p] = "none"
    BY DEF Init
  <2>4. LiveOf(copies, p) = {}
    BY <2>3 DEF LiveOf
  <2> QED BY <2>2, <2>3, <2>4 DEF Stands, Alone, InHand, Settled, Handles, Acting
<1>2. Standing => StandingIsOneCopy
  <2> SUFFICES ASSUME Standing, NEW p \in Partner \ disturbed
               PROVE  Cardinality(LiveOf(copies, p))
                          = IF member[p] = "active" /\ ~Building(p) THEN 1 ELSE 0
    BY DEF StandingIsOneCopy, LiveOf
  <2>1. Stands(op, member[p], LiveOf(copies, p), p)
    BY DEF Standing
  <2>2. CASE Building(p)
    <3>1. LiveOf(copies, p) = {}
      BY <2>1, <2>2 DEF Building, Stands, InHand
    <3> QED BY <2>2, <3>1, FS_EmptySet
  <2>3. CASE ~Building(p)
    <3>1. NobodyBuilds(op, p)
      BY <2>3 DEF Building, NobodyBuilds
    <3>2. /\ member[p] = "active" => \E c : LiveOf(copies, p) = {c}
          /\ member[p] # "active" => LiveOf(copies, p) = {}
      BY <2>1, <3>1 DEF Stands, Settled
    <3> QED BY <2>3, <3>2, FS_EmptySet, FS_Singleton
  <2> QED BY <2>2, <2>3
<1> QED BY <1>1, <1>2, ShapeInvariant, StandingInductive, PTL DEF Spec

-----------------------------------------------------------------------------
(* What the phases of a copy are to the steps of the template.  This needs   *)
(* more of the model than its shapes: rows apart by their ids, drafts made   *)
(* of rows, copies whose phases stand for the steps.                         *)

(* Rows of one table: finitely many, by their ids.                           *)
Rows(S) == /\ S \in SUBSET Step /\ IsFiniteSet(S)
           /\ \A s, t \in S : s.id = t.id => s = t

(* The types of a step's columns.                                            *)
LEMMA StepFields ==
    ASSUME NEW s \in Step
    PROVE  /\ s.id \in Int /\ (s.id # New => s.id \in StepId /\ s.id \in Nat /\ s.id # None)
           /\ s.sortOrder \in Nat /\ s.name \in Name /\ s.isEndPhase \in BOOLEAN
BY BoundsAssumption DEF Step, StepId, New, None

(* The places of a template are apart, and follow the order.                 *)
LEMMA Positions ==
    ASSUME NEW S, Rows(S)
    PROVE  /\ \A s \in S : Position(S, s) \in 1 .. Cardinality(S)
           /\ \A s, t \in S : Before(s, t) => Position(S, s) < Position(S, t)
           /\ \A s, t \in S : s # t => Before(s, t) \/ Before(t, s)
           /\ \A s, t \in S : Position(S, s) = Position(S, t) => s = t
<1> DEFINE Ahead(s) == {t \in S : Before(t, s)}
<1>1. IsFiniteSet(S) /\ Cardinality(S) \in Nat
  BY FS_CardinalityType DEF Rows
<1>2. \A s \in S : s.id \in Int /\ s.sortOrder \in Nat
  BY StepFields DEF Rows
<1>3. \A s \in S : ~Before(s, s)
  BY <1>2 DEF Before
<1>4. \A s, t, u \in S : Before(s, t) /\ Before(t, u) => Before(s, u)
  BY <1>2 DEF Before
<1>5. \A s, t \in S : s # t => Before(s, t) \/ Before(t, s)
  BY <1>2 DEF Before, Rows
<1>6. ASSUME NEW s \in S
      PROVE  /\ IsFiniteSet(Ahead(s)) /\ Cardinality(Ahead(s)) \in Nat
             /\ Cardinality(Ahead(s)) < Cardinality(S)
             /\ Position(S, s) = Cardinality(Ahead(s)) + 1
  <2>1. Ahead(s) \in SUBSET S /\ Ahead(s) # S
    BY <1>3
  <2>2. Position(S, s) = Cardinality(Ahead(s)) + 1
    BY DEF Position
  <2> HIDE DEF Ahead
  <2>3. /\ IsFiniteSet(Ahead(s)) /\ Cardinality(Ahead(s)) <= Cardinality(S)
        /\ Cardinality(S) # Cardinality(Ahead(s))
    BY <1>1, <2>1, FS_Subset
  <2>4. Cardinality(Ahead(s)) \in Nat
    BY <2>3, FS_CardinalityType
  <2> QED BY <1>1, <2>2, <2>3, <2>4
<1>7. ASSUME NEW s \in S, NEW t \in S, Before(s, t)
      PROVE  Position(S, s) < Position(S, t)
  <2>1. Ahead(s) \cup {s} \in SUBSET Ahead(t) /\ s \notin Ahead(s)
    BY <1>3, <1>4, <1>7
  <2> HIDE DEF Ahead
  <2>2. Cardinality(Ahead(s) \cup {s}) = Cardinality(Ahead(s)) + 1
    BY <1>6, <2>1, FS_AddElement
  <2>3. Cardinality(Ahead(s) \cup {s}) <= Cardinality(Ahead(t))
    BY <1>6, <2>1, FS_Subset
  <2> QED BY <1>6, <2>2, <2>3
<1>8. \A s \in S : Position(S, s) \in 1 .. Cardinality(S)
  <2> HIDE DEF Ahead
  <2> QED BY <1>1, <1>6
<1>9. ASSUME NEW s \in S, NEW t \in S, Position(S, s) = Position(S, t) PROVE s = t
  BY <1>1, <1>5, <1>7, <1>8, <1>9
<1> QED BY <1>5, <1>7, <1>8, <1>9

-----------------------------------------------------------------------------
(* The phases of one copy.                                                   *)

(* Apart by their ids, and by the steps they stand for.                      *)
Apart(phases) ==
    /\ phases \in SUBSET Phase /\ IsFiniteSet(phases)
    /\ \A p, q \in phases : p.id = q.id => p = q
    /\ \A p, q \in phases : p.source = q.source => p = q \/ p.source = None

(* One for each step, with its name.                                         *)
StandFor(phases, S) ==
    {<<p.source, p.name>> : p \in phases} = {<<s.id, s.name>> : s \in S}

(* And of a phase's.                                                         *)
LEMMA PhaseFields ==
    ASSUME NEW p \in Phase
    PROVE  /\ p.id \in Nat /\ p.source \in StepId \cup {None} /\ p.name \in Name
           /\ p.at \in {Untouched, First, Worked}
           /\ p = [id |-> p.id, source |-> p.source, name |-> p.name, at |-> p.at]
BY DEF Phase

(* Phases given one by one to the steps, each with the step's id and name.   *)
LEMMA OneForEach ==
    ASSUME NEW S, Rows(S), New \notin Ids(S), NEW f,
           \A s \in S : f[s] \in Phase /\ f[s].source = s.id /\ f[s].name = s.name,
           \A s, t \in S : f[s].id = f[t].id => s = t,
           NEW phases, phases = {f[s] : s \in S}
    PROVE  Apart(phases) /\ StandFor(phases, S)
<1>1. phases \in SUBSET Phase
  OBVIOUS
<1>2. IsFiniteSet(phases)
  <2>1. PICK g : g = [s \in S |-> f[s]]
    OBVIOUS
  <2>2. g \in Surjection(S, phases)
    BY <2>1 DEF Surjection
  <2> QED BY <2>2, FS_Surjection DEF Rows
<1>3. \A p, q \in phases : p.id = q.id => p = q
  OBVIOUS
<1>4. \A p, q \in phases : p.source = q.source => p = q
  BY DEF Rows
<1>5. StandFor(phases, S)
  BY DEF StandFor
<1> QED BY <1>1, <1>2, <1>3, <1>4, <1>5 DEF Apart

(* A copy is created with a phase for each step.                             *)
LEMMA FreshIs ==
    ASSUME NEW S, Rows(S), New \notin Ids(S)
    PROVE  Apart(Fresh(S)) /\ StandFor(Fresh(S), S)
<1> DEFINE f == [s \in S |->
         [id |-> Position(S, s), source |-> s.id, name |-> s.name,
          at |-> IF s.name \in FirstNames(S) THEN First ELSE Untouched]]
<1>1. Cardinality(S) \in Nat
  BY FS_CardinalityType DEF Rows
<1>2. ASSUME NEW s \in S
      PROVE  f[s] \in Phase /\ f[s].source = s.id /\ f[s].name = s.name /\ f[s].id = Position(S, s)
  <2>1. s \in Step /\ s.id # New
    BY DEF Rows, Ids
  <2>2. Position(S, s) \in Nat /\ s.id \in StepId /\ s.name \in Name
    BY <1>1, <2>1, Positions, StepFields
  <2> QED BY <2>2 DEF Phase
<1>3. Fresh(S) = {f[s] : s \in S}
  BY DEF Fresh
<1> HIDE DEF f
<1>4. \A s, t \in S : f[s].id = f[t].id => s = t
  BY <1>2, Positions
<1> QED BY <1>2, <1>3, <1>4, OneForEach

(* Forgetting steps that are gone leaves the phases apart.                   *)
LEMMA ForgottenIs ==
    ASSUME NEW P, Apart(P), NEW gone
    PROVE  /\ Apart(Forgotten(P, gone))
           /\ Ids(Forgotten(P, gone)) = Ids(P)
           /\ \A p \in P : p.source \notin gone => p \in Forgotten(P, gone)
           /\ \A q \in Forgotten(P, gone) : q.source \notin gone \/ q.source = None
           /\ \A q \in Forgotten(P, gone) : q.source # None => q \in P
           /\ \A q \in Forgotten(P, gone) : \E p \in P :
                  q.source \in {p.source, None} /\ q.id = p.id
<1> DEFINE F(p) == IF p.source \in gone THEN [p EXCEPT !.source = None] ELSE p
           Q == Forgotten(P, gone)
<1>1. ASSUME NEW p \in P
      PROVE  /\ F(p) \in Phase /\ F(p).id = p.id /\ F(p).source \in {p.source, None}
             /\ F(p).source \notin gone \/ F(p).source = None
             /\ F(p).source # None => F(p) = p
             /\ p.source \notin gone => F(p) = p
  <2>1. p \in Phase
    BY DEF Apart
  <2> QED BY <2>1 DEF Phase
<1>2. Q = {F(p) : p \in P}
  BY DEF Forgotten
<1>3. IsFiniteSet(Q)
  <2>1. PICK g : g = [p \in P |-> F(p)]
    OBVIOUS
  <2>2. g \in Surjection(P, Q)
    BY <1>2, <2>1 DEF Surjection
  <2> QED BY <2>2, FS_Surjection DEF Apart
<1> HIDE DEF F, Q
<1>4. Q \in SUBSET Phase
  BY <1>1, <1>2
<1>5. \A p, q \in Q : p.id = q.id => p = q
  BY <1>1, <1>2 DEF Apart
<1>6. \A p, q \in Q : p.source = q.source => p = q \/ p.source = None
  BY <1>1, <1>2 DEF Apart
<1>7. Apart(Q)
  BY <1>3, <1>4, <1>5, <1>6 DEF Apart
<1>8. Ids(Q) = Ids(P)
  BY <1>1, <1>2 DEF Ids
<1> QED BY <1>1, <1>2, <1>7, <1>8 DEF Q

(* The greatest id of a copy's phases.                                       *)
LEMMA LastIdIs ==
    ASSUME NEW P, P \in SUBSET Phase, IsFiniteSet(P)
    PROVE  LastId(P) \in Nat /\ \A p \in P : p.id <= LastId(P)
<1> DEFINE Top(T) == \E n \in {0} \cup Ids(T) : \A p \in T : p.id <= n
           Sets == {T \in SUBSET P : ~Top(T)}
           R == StrictSubsetOrdering(P)
<1>1. \A p \in P : p.id \in Nat
  BY PhaseFields
<1>2. Top(P)
  <2>1. SUFFICES ASSUME Sets # {} PROVE FALSE
    OBVIOUS
  <2>2. IsWellFoundedOn(R, FiniteSubsetsOf(P)) /\ Sets \subseteq FiniteSubsetsOf(P)
    BY FS_StrictSubsetOrderingWellFounded, FS_FiniteSubsetsOfFinite
  <2>3. \A T \in SUBSET P : \A x \in T : <<T \ {x}, T>> \in R
    BY DEF StrictSubsetOrdering
  <2> HIDE DEF R
  <2>4. PICK T \in Sets : \A U \in Sets : <<U, T>> \notin R
    <3> HIDE DEF Sets
    <3> QED BY <2>1, <2>2, WFMin
  <2>5. PICK x \in T : TRUE
    BY <2>4 DEF Ids
  <2>6. PICK n \in {0} \cup Ids(T \ {x}) : \A p \in T \ {x} : p.id <= n
    BY <2>3, <2>4
  <2>7. x.id \in Nat /\ n \in Nat
    BY <1>1, <2>4, <2>5, <2>6 DEF Ids
  <2>8. CASE x.id <= n
    BY <2>4, <2>6, <2>8 DEF Ids
  <2>9. CASE n <= x.id
    <3>1. \A p \in T : p.id <= x.id
      BY <1>1, <2>4, <2>5, <2>6, <2>7, <2>9
    <3>2. x.id \in {0} \cup Ids(T)
      BY <2>5 DEF Ids
    <3> QED BY <2>4, <3>1, <3>2
  <2> QED BY <2>7, <2>8, <2>9
<1>3. LastId(P) \in {0} \cup Ids(P) /\ \A p \in P : p.id <= LastId(P)
  BY <1>2 DEF LastId
<1> QED BY <1>1, <1>3 DEF Ids

(* At most one phase matches a step, and one step at most claims a phase.    *)
LEMMA Claims ==
    ASSUME NEW S, Rows(S), New \notin Ids(S), NEW P, Apart(P)
    PROVE  /\ \A s \in S : Claimed(P, S, s) \in SUBSET P
           /\ \A s \in S : \A p, q \in Claimed(P, S, s) : p = q
           /\ \A s, t \in S : s # t => Claimed(P, S, s) \cap Claimed(P, S, t) = {}
<1>1. ASSUME NEW s \in S
      PROVE  Matched(P, s) \in SUBSET P /\ \A p, q \in Matched(P, s) : p = q
  <2>1. s \in Step /\ s.id # New
    BY DEF Rows, Ids
  <2>2. s.id # None
    BY <2>1, StepFields
  <2>3. \A p, q \in P : p.id \in Nat /\ q.id \in Nat /\ (p.id <= q.id /\ q.id <= p.id => p = q)
    BY PhaseFields DEF Apart
  <2>4. \A p, q \in LastNamed(P, s.name) : p \in P /\ p = q
    BY <2>3 DEF LastNamed
  <2>5. \A p, q \in P : p.source = s.id /\ q.source = s.id => p = q
    BY <2>2 DEF Apart
  <2>6. LastNamed(P, s.name) \in SUBSET P
    BY DEF LastNamed
  <2> QED BY <2>4, <2>5, <2>6 DEF Matched
<1>2. \A s \in S : Claimed(P, S, s) \in SUBSET Matched(P, s)
  BY DEF Claimed
<1>3. ASSUME NEW s \in S, NEW t \in S, s # t, NEW p \in Claimed(P, S, s), p \in Claimed(P, S, t)
      PROVE  FALSE
  <2>1. Before(s, t) \/ Before(t, s)
    BY <1>3, Positions
  <2> QED BY <1>3, <2>1 DEF Claimed
<1> QED BY <1>1, <1>2, <1>3

(* A synchronisation leaves a phase for each step.                           *)
LEMMA SyncedIs ==
    ASSUME NEW S, Rows(S), New \notin Ids(S), NEW P, Apart(P)
    PROVE  Apart(Synced(P, S)) /\ StandFor(Synced(P, S), S)
<1> DEFINE Own(s) == [id |-> LastId(P) + Position(S, s), source |-> s.id, name |-> s.name,
                      at |-> Untouched]
           f == [s \in S |-> CHOOSE q : StandsFor(P, S, s) = {q}]
<1>1. Cardinality(S) \in Nat /\ LastId(P) \in Nat /\ \A p \in P : p.id \in Nat /\ p.id <= LastId(P)
  BY FS_CardinalityType, LastIdIs, PhaseFields DEF Rows, Apart
<1>2. ASSUME NEW s \in S
      PROVE  s.id \in StepId /\ s.name \in Name /\ Position(S, s) \in Nat /\ Position(S, s) > 0
  <2>1. s \in Step /\ s.id # New
    BY DEF Rows, Ids
  <2> QED BY <1>1, <2>1, Positions, StepFields
<1>3. ASSUME NEW s \in S, Claimed(P, S, s) = {}
      PROVE  /\ StandsFor(P, S, s) = {f[s]}
             /\ f[s] \in Phase /\ f[s].source = s.id /\ f[s].name = s.name
             /\ f[s].id = LastId(P) + Position(S, s)
  <2>1. PICK q : q = Own(s)
    OBVIOUS
  <2>2. StandsFor(P, S, s) = {q}
    BY <1>3, <2>1 DEF StandsFor
  <2>3. f[s] = q
    BY <2>2
  <2>4. q \in Phase /\ q.source = s.id /\ q.name = s.name /\ q.id = LastId(P) + Position(S, s)
    BY <1>1, <1>2, <2>1 DEF Phase
  <2> QED BY <2>2, <2>3, <2>4
<1>4. ASSUME NEW s \in S, Claimed(P, S, s) # {}
      PROVE  /\ StandsFor(P, S, s) = {f[s]}
             /\ f[s] \in Phase /\ f[s].source = s.id /\ f[s].name = s.name
             /\ \E p \in Claimed(P, S, s) : p \in P /\ f[s].id = p.id
  <2>1. PICK p : p \in Claimed(P, S, s) /\ Claimed(P, S, s) = {p} /\ p \in P /\ p \in Phase
    BY <1>4, Claims DEF Apart
  <2>2. PICK q : q = [p EXCEPT !.name = s.name, !.source = s.id]
    OBVIOUS
  <2>3. StandsFor(P, S, s) = {q}
    <3>1. StandsFor(P, S, s) = {[x EXCEPT !.name = s.name, !.source = s.id] : x \in Claimed(P, S, s)}
      BY <1>4 DEF StandsFor
    <3>2. StandsFor(P, S, s) = {[x EXCEPT !.name = s.name, !.source = s.id] : x \in {p}}
      BY <2>1, <3>1
    <3> QED BY <2>2, <3>2
  <2>4. f[s] = q
    BY <2>3
  <2>5. q \in Phase /\ q.source = s.id /\ q.name = s.name /\ q.id = p.id
    BY <1>2, <2>1, <2>2 DEF Phase
  <2> QED BY <2>1, <2>3, <2>4, <2>5
<1> HIDE DEF f
<1>5. ASSUME NEW s \in S, NEW t \in S, f[s].id = f[t].id PROVE s = t
  <2>1. CASE Claimed(P, S, s) = {} /\ Claimed(P, S, t) = {}
    <3>1. LastId(P) + Position(S, s) = LastId(P) + Position(S, t)
      BY <1>3, <1>5, <2>1
    <3> QED BY <1>1, <1>2, <3>1, Positions
  <2>2. CASE Claimed(P, S, s) # {} /\ Claimed(P, S, t) = {}
    BY <1>1, <1>2, <1>3, <1>4, <1>5, <2>2
  <2>3. CASE Claimed(P, S, s) = {} /\ Claimed(P, S, t) # {}
    BY <1>1, <1>2, <1>3, <1>4, <1>5, <2>3
  <2>4. CASE Claimed(P, S, s) # {} /\ Claimed(P, S, t) # {}
    <3>1. PICK p \in Claimed(P, S, s), q \in Claimed(P, S, t) : p \in P /\ q \in P /\ p.id = q.id
      BY <1>4, <1>5, <2>4
    <3>2. p = q
      BY <3>1 DEF Apart
    <3> QED BY <3>1, <3>2, Claims
  <2> QED BY <2>1, <2>2, <2>3, <2>4
<1>6. Synced(P, S) = {f[s] : s \in S}
  BY <1>3, <1>4 DEF Synced
<1>7. \A s \in S : f[s] \in Phase /\ f[s].source = s.id /\ f[s].name = s.name
  BY <1>3, <1>4
<1> QED BY <1>5, <1>6, <1>7, OneForEach

(* Wired and Leads pair by pair.                                             *)
LEMMA Pairs ==
    ASSUME NEW P, NEW x \in P, NEW y \in P
    PROVE  \E t \in P \X P : t[1] = x /\ t[2] = y
<1>1. PICK t : t = <<x, y>>
  OBVIOUS
<1>2. t \in P \X P /\ t[1] = x /\ t[2] = y
  BY <1>1
<1> QED BY <1>2

LEMMA WiredPairs ==
    ASSUME NEW P, NEW E
    PROVE  /\ \A x, y \in P : <<x.source, y.source>> \in E => <<x.id, y.id>> \in Wired(P, E)
           /\ \A e \in Wired(P, E) :
                  \E x, y \in P : <<x.source, y.source>> \in E /\ e = <<x.id, y.id>>
<1>1. Wired(P, E) = {<<t[1].id, t[2].id>> : t \in {u \in P \X P : <<u[1].source, u[2].source>> \in E}}
  BY DEF Wired
<1>2. ASSUME NEW x \in P, NEW y \in P, <<x.source, y.source>> \in E
      PROVE  <<x.id, y.id>> \in Wired(P, E)
  <2>1. PICK t \in P \X P : t[1] = x /\ t[2] = y
    BY Pairs
  <2>2. t \in {u \in P \X P : <<u[1].source, u[2].source>> \in E} /\ <<t[1].id, t[2].id>> = <<x.id, y.id>>
    BY <1>2, <2>1
  <2> QED BY <1>1, <2>2, Zenon
<1>3. ASSUME NEW e \in Wired(P, E)
      PROVE  \E x, y \in P : <<x.source, y.source>> \in E /\ e = <<x.id, y.id>>
  <2>1. PICK t \in {u \in P \X P : <<u[1].source, u[2].source>> \in E} : e = <<t[1].id, t[2].id>>
    BY <1>1, <1>3, Zenon
  <2>2. t[1] \in P /\ t[2] \in P /\ <<t[1].source, t[2].source>> \in E
    BY <2>1
  <2> QED BY <2>1, <2>2
<1> QED BY <1>2, <1>3

LEMMA LeadsPairs ==
    ASSUME NEW c
    PROVE  /\ \A x, y \in c.phases : <<x.id, y.id>> \in c.deps => <<x.source, y.source>> \in Leads(c)
           /\ \A e \in Leads(c) :
                  \E x, y \in c.phases : <<x.id, y.id>> \in c.deps /\ e = <<x.source, y.source>>
<1>0. PICK P : P = c.phases
  OBVIOUS
<1>1. Leads(c) = {<<t[1].source, t[2].source>> : t \in {u \in P \X P : <<u[1].id, u[2].id>> \in c.deps}}
  BY <1>0 DEF Leads
<1>2. ASSUME NEW x \in P, NEW y \in P, <<x.id, y.id>> \in c.deps
      PROVE  <<x.source, y.source>> \in Leads(c)
  <2>1. PICK t \in P \X P : t[1] = x /\ t[2] = y
    BY Pairs
  <2>2. t \in {u \in P \X P : <<u[1].id, u[2].id>> \in c.deps} /\ <<t[1].source, t[2].source>> = <<x.source, y.source>>
    BY <1>2, <2>1
  <2> QED BY <1>1, <2>2, Zenon
<1>3. ASSUME NEW e \in Leads(c)
      PROVE  \E x, y \in P : <<x.id, y.id>> \in c.deps /\ e = <<x.source, y.source>>
  <2>1. PICK t \in {u \in P \X P : <<u[1].id, u[2].id>> \in c.deps} : e = <<t[1].source, t[2].source>>
    BY <1>1, <1>3, Zenon
  <2>2. t[1] \in P /\ t[2] \in P /\ <<t[1].id, t[2].id>> \in c.deps
    BY <2>1
  <2> QED BY <2>1, <2>2
<1> QED BY <1>0, <1>2, <1>3

(* Phases that stand for the steps have their ids, and no others.            *)
LEMMA StandForIds ==
    ASSUME NEW S, NEW P, StandFor(P, S)
    PROVE  /\ {p.source : p \in P} = Ids(S)
           /\ \A p \in P : \E s \in S : p.source = s.id /\ p.name = s.name
           /\ \A s \in S : \E p \in P : p.source = s.id /\ p.name = s.name
<1>1. ASSUME NEW p \in P PROVE \E s \in S : p.source = s.id /\ p.name = s.name
  <2>1. <<p.source, p.name>> \in {<<s.id, s.name>> : s \in S}
    BY Zenon DEF StandFor
  <2>2. PICK s \in S : <<p.source, p.name>> = <<s.id, s.name>>
    BY <2>1
  <2> QED BY <2>2
<1>2. ASSUME NEW s \in S PROVE \E p \in P : p.source = s.id /\ p.name = s.name
  <2>1. <<s.id, s.name>> \in {<<p.source, p.name>> : p \in P}
    BY Zenon DEF StandFor
  <2>2. PICK p \in P : <<p.source, p.name>> = <<s.id, s.name>>
    BY <2>1
  <2> QED BY <2>2
<1> QED BY <1>1, <1>2 DEF Ids

(* Fewer phases say less of the steps.                                       *)
LEMMA LeadsFewer ==
    ASSUME NEW c, NEW n, n.deps = c.deps,
           \A x \in n.phases : \E u \in c.phases : u.id = x.id /\ u.source = x.source
    PROVE  Leads(n) \subseteq Leads(c)
<1> SUFFICES ASSUME NEW e \in Leads(n) PROVE e \in Leads(c)
  OBVIOUS
<1>1. PICK x \in n.phases, y \in n.phases : <<x.id, y.id>> \in n.deps /\ e = <<x.source, y.source>>
  BY LeadsPairs
<1>2. PICK u \in c.phases, v \in c.phases : u.id = x.id /\ u.source = x.source /\ v.id = y.id /\ v.source = y.source
  OBVIOUS
<1>3. <<u.id, v.id>> \in c.deps /\ e = <<u.source, v.source>>
  BY <1>1, <1>2
<1> QED BY <1>3, LeadsPairs

(* Dependencies wired by the steps stay within the phases.                   *)
LEMMA WiredTyped ==
    ASSUME NEW P, Apart(P), NEW E
    PROVE  Wired(P, E) \in SUBSET (Nat \X Nat) /\ Ends(Wired(P, E)) \subseteq Ids(P)
<1>1. \A p \in P : p.id \in Nat
  BY PhaseFields DEF Apart
<1>2. ASSUME NEW e, e \in Wired(P, E) PROVE e \in Ids(P) \X Ids(P)
  <2>1. PICK x \in P, y \in P : <<x.source, y.source>> \in E /\ e = <<x.id, y.id>>
    BY <1>2, WiredPairs
  <2>2. x.id \in Ids(P) /\ y.id \in Ids(P)
    BY DEF Ids
  <2> QED BY <2>1, <2>2
<1>3. Ids(P) \in SUBSET Nat
  BY <1>1 DEF Ids
<1>4. Wired(P, E) \in SUBSET (Nat \X Nat)
  BY <1>2, <1>3
<1>5. Ends(Wired(P, E)) \subseteq Ids(P)
  BY <1>2 DEF Ends
<1> QED BY <1>4, <1>5

(* Dependencies wired by the steps say of the steps what they were wired by. *)
LEMMA WiredIs ==
    ASSUME NEW S, NEW P, Apart(P), StandFor(P, S), NEW E \in SUBSET (Ids(S) \X Ids(S)),
           NEW c, c.phases = P, c.deps = Wired(P, E)
    PROVE  Leads(c) = E
<1>1. \A i \in Ids(S) : \E p \in P : p.source = i
  BY StandForIds
<1>3. \A x, y \in P : <<x.id, y.id>> \in Wired(P, E) <=> <<x.source, y.source>> \in E
  <2>1. ASSUME NEW x \in P, NEW y \in P, <<x.source, y.source>> \in E
        PROVE  <<x.id, y.id>> \in Wired(P, E)
    BY <2>1, WiredPairs
  <2>2. ASSUME NEW x \in P, NEW y \in P, <<x.id, y.id>> \in Wired(P, E)
        PROVE  <<x.source, y.source>> \in E
    <3>1. PICK u \in P, v \in P : <<u.source, v.source>> \in E /\ <<x.id, y.id>> = <<u.id, v.id>>
      BY <2>2, WiredPairs
    <3>2. x = u /\ y = v
      BY <3>1 DEF Apart
    <3> QED BY <3>1, <3>2
  <2> QED BY <2>1, <2>2
<1>4. ASSUME NEW e, e \in Leads(c) PROVE e \in E
  <2>1. PICK x \in P, y \in P : <<x.id, y.id>> \in c.deps /\ e = <<x.source, y.source>>
    BY <1>4, LeadsPairs
  <2> QED BY <1>3, <2>1
<1>5. ASSUME NEW e \in E PROVE e \in Leads(c)
  <2>1. e = <<e[1], e[2]>> /\ e[1] \in Ids(S) /\ e[2] \in Ids(S)
    OBVIOUS
  <2>2. PICK x \in P, y \in P : x.source = e[1] /\ y.source = e[2]
    BY <1>1, <2>1
  <2>3. <<x.id, y.id>> \in c.deps /\ e = <<x.source, y.source>>
    BY <1>3, <2>1, <2>2
  <2> QED BY <2>3, LeadsPairs
<1> QED BY <1>4, <1>5

-----------------------------------------------------------------------------
(* The steps after a save.                                                   *)

(* The template's rows: no step has an id the sequence has yet to give.      *)
TemplateInv ==
    /\ Rows(steps) /\ \A s \in steps : s.id \in 1 .. nextStep - 1 /\ s.sortOrder <= MaxStep
    /\ stepDeps \in SUBSET (Ids(steps) \X Ids(steps))
    /\ nextStep \in 1 .. MaxStep + 1

(* What a save holds: a draft of steps it has read, what it adds behind them. *)
HoldsDraft(o) ==
    /\ Rows(o.draft) /\ o.edges \in SUBSET (Ids(o.draft) \X Ids(o.draft))
    /\ Ids(o.draft) \ {New} \subseteq Ids(o.read)
    /\ \A d, n \in o.draft : d.id # New /\ n.id = New => Before(d, n)

(* A draft's row as the save writes it.                                      *)
SavedStep(o, d) == [d EXCEPT !.id = RealId(@), !.sortOrder = Position(o.draft, d)]

LEMMA SavedStepIs ==
    ASSUME TemplateInv, NEW o, HoldsDraft(o), nextStep <= MaxStep,
           Ids(o.draft) \ {New} \subseteq Ids(steps)
    PROVE  /\ \A d \in o.draft :
                  /\ SavedStep(o, d) \in Step /\ SavedStep(o, d).id = RealId(d.id)
                  /\ SavedStep(o, d).sortOrder = Position(o.draft, d)
                  /\ SavedStep(o, d).sortOrder <= MaxStep
                  /\ d.id # New => d.id \in Ids(steps) /\ RealId(d.id) = d.id
                  /\ d.id = New => RealId(d.id) = nextStep
           /\ nextStep \notin Ids(steps) /\ Ids(steps) \subseteq 1 .. nextStep - 1
           /\ \A c, d \in o.draft : RealId(c.id) = RealId(d.id) => c = d
<1>1. nextStep \in Nat /\ nextStep >= 1 /\ MaxStep \in Nat
  BY BoundsAssumption DEF TemplateInv
<1>2. Ids(steps) \subseteq 1 .. nextStep - 1
  BY DEF TemplateInv, Ids
<1>3. nextStep \notin Ids(steps)
  BY <1>1, <1>2
<1>4. \A d \in o.draft : d.id # New => d.id \in Ids(steps)
  BY DEF Ids
<1>5. \A d \in o.draft : /\ d.id # New => RealId(d.id) = d.id
                         /\ d.id = New => RealId(d.id) = nextStep
  BY DEF RealId
<1>6. \A c, d \in o.draft : RealId(c.id) = RealId(d.id) => c = d
  <2>1. \A c, d \in o.draft : RealId(c.id) = RealId(d.id) => c.id = d.id
    BY <1>3, <1>4, <1>5
  <2> QED BY <2>1 DEF HoldsDraft, Rows
<1>7. \A d \in o.draft : RealId(d.id) \in 1 .. MaxStep
  BY <1>1, <1>2, <1>4, <1>5
<1>8. Cardinality(o.draft) <= MaxStep /\ Cardinality(o.draft) \in Nat
  <2>1. PICK f : f = [d \in o.draft |-> RealId(d.id)]
    OBVIOUS
  <2>2. f \in [o.draft -> 1 .. MaxStep] /\ \A c, d \in o.draft : f[c] = f[d] => c = d
    BY <1>6, <1>7, <2>1
  <2>3. f \in Injection(o.draft, 1 .. MaxStep)
    BY <2>2 DEF Injection, IsInjective
  <2>4. IsFiniteSet(1 .. MaxStep) /\ Cardinality(1 .. MaxStep) = MaxStep
    BY <1>1, FS_Interval
  <2>5. IsFiniteSet(o.draft)
    BY DEF HoldsDraft, Rows
  <2> QED BY <2>3, <2>4, <2>5, FS_Injection, FS_CardinalityType
<1>9. ASSUME NEW d \in o.draft
      PROVE  /\ SavedStep(o, d) \in Step /\ SavedStep(o, d).id = RealId(d.id)
             /\ SavedStep(o, d).sortOrder = Position(o.draft, d)
             /\ SavedStep(o, d).sortOrder <= MaxStep
  <2>1. PICK k : k = Position(o.draft, d)
    OBVIOUS
  <2>2. k \in Nat /\ k <= MaxStep
    BY <1>1, <1>8, <2>1, Positions DEF HoldsDraft
  <2>3. d \in Step
    BY DEF HoldsDraft, Rows
  <2>4. PICK i : i = RealId(d.id)
    OBVIOUS
  <2>5. SavedStep(o, d) = [d EXCEPT !.id = i, !.sortOrder = k]
    BY <2>1, <2>4 DEF SavedStep
  <2>6. i \in StepId \cup {New}
    BY <1>7, <2>4 DEF StepId
  <2> QED BY <2>1, <2>2, <2>3, <2>4, <2>5, <2>6 DEF Step
<1> QED BY <1>2, <1>3, <1>4, <1>5, <1>6, <1>9

(* The template a save leaves is one again, and if nothing was saved since   *)
(* the save looked, what it adds comes after what it keeps.                  *)
LEMMA SavedIs ==
    ASSUME TemplateInv, NEW o, HoldsDraft(o), nextStep <= MaxStep,
           Ids(o.draft) \ {New} \subseteq Ids(steps), NEW S, S = Saved(o),
           NEW n, n = IF New \in Ids(o.draft) THEN nextStep + 1 ELSE nextStep
    PROVE  /\ Rows(S) /\ \A s \in S : s.id \in 1 .. n - 1 /\ s.sortOrder <= MaxStep
           /\ SavedDeps(o, S) \in SUBSET (Ids(S) \X Ids(S))
           /\ n \in 1 .. MaxStep + 1
           /\ o.read = steps =>
                  \A s, t \in S : s.id \in Ids(steps) /\ Before(t, s) => t.id \in Ids(steps)
<1> DEFINE Kept == Ids(o.draft) \ {New}
           Gone == Ids(o.read) \ Kept
           A == {s \in steps : s.id \notin Gone \cup Kept}
           B == {SavedStep(o, d) : d \in o.draft}
<1>1. S = A \cup B
  BY DEF Saved, SavedStep
<1>2. nextStep \in Nat /\ nextStep >= 1 /\ MaxStep \in Nat /\ n \in 1 .. MaxStep + 1
  BY BoundsAssumption DEF TemplateInv
<1>3. \A s \in A : s \in steps /\ s \in Step /\ s.id \in Ids(steps) /\ s.id \notin Kept /\ s.sortOrder <= MaxStep
  BY DEF TemplateInv, Rows, Ids
<1>4. ASSUME NEW s \in B
      PROVE  \E d \in o.draft :
                 /\ s = SavedStep(o, d) /\ s \in Step /\ s.id = RealId(d.id)
                 /\ s.sortOrder = Position(o.draft, d) /\ s.sortOrder <= MaxStep
                 /\ \/ d.id # New /\ s.id = d.id /\ s.id \in Kept /\ s.id \in Ids(steps)
                    \/ d.id = New /\ s.id = nextStep /\ s.id \notin Ids(steps) /\ New \in Ids(o.draft)
  <2>1. PICK d \in o.draft : s = SavedStep(o, d)
    OBVIOUS
  <2>2. d.id \in Ids(o.draft)
    BY DEF Ids
  <2> HIDE DEF B
  <2> QED BY <2>1, <2>2, SavedStepIs
<1>5. IsFiniteSet(S)
  <2>1. PICK g : g = [d \in o.draft |-> SavedStep(o, d)]
    OBVIOUS
  <2>2. g \in Surjection(o.draft, B)
    BY <2>1 DEF Surjection
  <2>3. IsFiniteSet(o.draft) /\ IsFiniteSet(steps) /\ A \in SUBSET steps
    BY DEF HoldsDraft, Rows, TemplateInv
  <2> HIDE DEF A, B
  <2>4. IsFiniteSet(B) /\ IsFiniteSet(A)
    BY <2>2, <2>3, FS_Surjection, FS_Subset
  <2> QED BY <1>1, <2>4, FS_Union
<1> HIDE DEF A, B
<1>6. \A s, t \in S : s.id = t.id => s = t
  <2>1. \A s, t \in A : s.id = t.id => s = t
    BY <1>3 DEF TemplateInv, Rows
  <2>2. \A s \in A, t \in B : s.id # t.id
    BY <1>3, <1>4
  <2>3. \A s, t \in B : s.id = t.id => s = t
    BY <1>4, SavedStepIs
  <2> QED BY <1>1, <2>1, <2>2, <2>3
<1>7. Rows(S)
  BY <1>1, <1>3, <1>4, <1>5, <1>6 DEF Rows
<1>8. ASSUME NEW s \in S PROVE s.id \in 1 .. n - 1 /\ s.sortOrder <= MaxStep
  <2>1. Ids(steps) \subseteq 1 .. nextStep - 1
    BY SavedStepIs
  <2>2. s.id \in Ids(steps) \/ (s.id = nextStep /\ New \in Ids(o.draft))
    BY <1>1, <1>3, <1>4
  <2>3. s.sortOrder <= MaxStep
    BY <1>1, <1>3, <1>4
  <2> QED BY <1>2, <2>1, <2>2, <2>3
<1>9. SavedDeps(o, S) \in SUBSET (Ids(S) \X Ids(S))
  <2>1. \A i \in Ids(o.draft) : RealId(i) \in Ids(S)
    <3>1. ASSUME NEW d \in o.draft PROVE RealId(d.id) \in Ids(S)
      <4>1. SavedStep(o, d) \in S /\ SavedStep(o, d).id = RealId(d.id)
        BY <1>1, SavedStepIs DEF B
      <4> QED BY <4>1 DEF Ids
    <3> QED BY <3>1 DEF Ids
  <2>2. \A e \in o.edges : e[1] \in Ids(o.draft) /\ e[2] \in Ids(o.draft)
    BY DEF HoldsDraft
  <2>3. {<<RealId(e[1]), RealId(e[2])>> : e \in o.edges} \in SUBSET (Ids(S) \X Ids(S))
    BY <2>1, <2>2
  <2>4. \A e \in stepDeps : e = <<e[1], e[2]>>
    BY DEF TemplateInv
  <2>5. {e \in stepDeps : e[1] \in Ids(S) \ Ids(o.draft) /\ e[2] \in Ids(S)} \in SUBSET (Ids(S) \X Ids(S))
    BY <2>4
  <2> QED BY <2>3, <2>5 DEF SavedDeps
<1>10. ASSUME o.read = steps, NEW s \in S, NEW t \in S, s.id \in Ids(steps), Before(t, s)
       PROVE  t.id \in Ids(steps)
  <2>1. A = {}
    BY <1>3, <1>10 DEF A
  <2>2. SUFFICES ASSUME t.id \notin Ids(steps) PROVE FALSE
    OBVIOUS
  <2>3. PICK d \in o.draft : s.sortOrder = Position(o.draft, d) /\ d.id # New /\ s \in Step
    BY <1>1, <1>4, <1>10, <2>1
  <2>4. PICK e \in o.draft : t.sortOrder = Position(o.draft, e) /\ e.id = New /\ t \in Step
    BY <1>1, <1>4, <2>1, <2>2
  <2>5. Before(d, e)
    BY <2>3, <2>4 DEF HoldsDraft
  <2>6. s.sortOrder < t.sortOrder
    BY <2>3, <2>4, <2>5, Positions DEF HoldsDraft
  <2>7. s.sortOrder \in Nat /\ t.sortOrder \in Nat
    BY <2>3, <2>4, StepFields
  <2> QED BY <1>10, <2>6, <2>7 DEF Before
<1> QED BY <1>2, <1>7, <1>8, <1>9, <1>10

-----------------------------------------------------------------------------
(* The drafts of the editor.                                                 *)

(* The step an editor adds comes behind the others.                          *)
NewIsLast(D) == \A d, n \in D : d.id # New /\ n.id = New => Before(d, n)

(* Rows under different names, from the template but for one at the end.     *)
IsDraft(D) ==
    /\ Rows(D) /\ Ids(D) \ {New} \subseteq Ids(steps) /\ NewIsLast(D)
    /\ \A s, t \in D : s.name = t.name => s = t

(* The drafts of the editor are drafts: some of the rows renamed, ...        *)
LEMMA RenamedIsDraft ==
    ASSUME TemplateInv, NEW kept \in SUBSET steps, NEW f \in [Ids(kept) -> Name], IsInjective(f),
           NEW D, D = {[s EXCEPT !.name = f[s.id]] : s \in kept}
    PROVE  IsDraft(D) /\ \A d \in D : d.id # New /\ d.sortOrder <= MaxStep
<1> DEFINE F(s) == [s EXCEPT !.name = f[s.id]]
<1>1. ASSUME NEW s \in kept
      PROVE  /\ F(s) \in Step /\ F(s).id = s.id /\ F(s).id \in Ids(steps) /\ F(s).id \in Ids(kept)
             /\ F(s).id # New /\ F(s).sortOrder <= MaxStep /\ F(s).name = f[s.id] /\ s \in steps
  <2>1. s \in Step /\ s \in steps /\ s.id \in 1 .. nextStep - 1 /\ s.sortOrder <= MaxStep
    BY DEF TemplateInv, Rows
  <2>2. s.id \in Ids(kept) /\ s.id \in Ids(steps)
    BY DEF Ids
  <2>3. PICK n : n = f[s.id]
    OBVIOUS
  <2>4. n \in Name
    BY <2>2, <2>3
  <2>5. F(s) = [s EXCEPT !.name = n]
    BY <2>3
  <2>6. s.id # New
    BY <2>1 DEF New, TemplateInv
  <2> QED BY <2>1, <2>2, <2>3, <2>4, <2>5, <2>6 DEF Step
<1>2. IsFiniteSet(D)
  <2>1. PICK g : g = [s \in kept |-> F(s)]
    OBVIOUS
  <2>2. g \in Surjection(kept, D)
    BY <2>1 DEF Surjection
  <2>3. IsFiniteSet(kept)
    BY FS_Subset DEF TemplateInv, Rows
  <2> QED BY <2>2, <2>3, FS_Surjection
<1>3. D = {F(s) : s \in kept}
  OBVIOUS
<1> HIDE DEF F
<1>4. ASSUME NEW c \in D, NEW d \in D, c.id = d.id PROVE c = d
  <2>1. PICK s \in kept, t \in kept : c = F(s) /\ d = F(t)
    BY <1>3
  <2>2. s = t
    BY <1>1, <1>4, <2>1 DEF TemplateInv, Rows
  <2> QED BY <2>1, <2>2
<1>5. ASSUME NEW c \in D, NEW d \in D, c.name = d.name PROVE c = d
  <2>1. PICK s \in kept, t \in kept : c = F(s) /\ d = F(t)
    BY <1>3
  <2>2. f[s.id] = f[t.id] /\ s.id \in DOMAIN f /\ t.id \in DOMAIN f
    BY <1>1, <1>5, <2>1
  <2>3. s.id = t.id
    BY <2>2 DEF IsInjective
  <2> QED BY <1>1, <1>4, <2>1, <2>3
<1>6. Rows(D)
  BY <1>1, <1>2, <1>3, <1>4 DEF Rows
<1>7. Ids(D) \subseteq Ids(steps) /\ \A d \in D : d.id # New /\ d.sortOrder <= MaxStep
  BY <1>1, <1>3 DEF Ids
<1> QED BY <1>5, <1>6, <1>7 DEF IsDraft, NewIsLast

(* ... and perhaps one more behind them.                                     *)
LEMMA ExtendedIsDraft ==
    ASSUME NEW C, IsDraft(C), \A d \in C : d.id # New /\ d.sortOrder <= MaxStep,
           NEW x \in Name, x \notin {d.name : d \in C}, NEW D,
           D = C \cup {[id |-> New, name |-> x, sortOrder |-> MaxStep + 1, isEndPhase |-> FALSE]}
    PROVE  IsDraft(D)
<1>1. PICK n : n = [id |-> New, name |-> x, sortOrder |-> MaxStep + 1, isEndPhase |-> FALSE]
  OBVIOUS
<1>2. n \in Step /\ n.id = New /\ n.sortOrder = MaxStep + 1 /\ n.name = x
  BY <1>1, BoundsAssumption DEF Step
<1>3. D = C \cup {n}
  BY <1>1
<1>4. IsFiniteSet(D)
  BY <1>3, FS_AddElement DEF IsDraft, Rows
<1>5. Rows(D)
  BY <1>2, <1>3, <1>4 DEF IsDraft, Rows
<1>6. \A s, t \in D : s.name = t.name => s = t
  BY <1>2, <1>3 DEF IsDraft
<1>7. Ids(D) \ {New} \subseteq Ids(steps)
  BY <1>2, <1>3 DEF IsDraft, Ids
<1>8. NewIsLast(D)
  <2>1. \A d \in C : d.sortOrder \in Nat
    BY StepFields DEF IsDraft, Rows
  <2> QED BY <1>2, <1>3, <2>1, BoundsAssumption DEF NewIsLast, Before
<1> QED BY <1>5, <1>6, <1>7, <1>8 DEF IsDraft

LEMMA DraftsAre ==
    ASSUME TemplateInv, NEW D \in Drafts
    PROVE  IsDraft(D)
<1> DEFINE Renamed(kept) ==
             {{[s EXCEPT !.name = f[s.id]] : s \in kept} :
                 f \in {g \in [Ids(kept) -> Name] : IsInjective(g)}}
           Added(draft) ==
             {[id |-> New, name |-> n, sortOrder |-> MaxStep + 1, isEndPhase |-> FALSE] :
                 n \in Name \ {s.name : s \in draft}}
           OfKept == UNION {Renamed(kept) : kept \in SUBSET steps}
<1>1. Drafts = OfKept \cup UNION {{d \cup {n} : n \in Added(d)} : d \in OfKept}
  BY Zenon DEF Drafts
<1>2. ASSUME NEW C \in OfKept
      PROVE  IsDraft(C) /\ \A d \in C : d.id # New /\ d.sortOrder <= MaxStep
  <2>1. PICK kept \in SUBSET steps : C \in Renamed(kept)
    OBVIOUS
  <2>2. PICK f \in [Ids(kept) -> Name] : IsInjective(f) /\ C = {[s EXCEPT !.name = f[s.id]] : s \in kept}
    BY <2>1
  <2> QED BY <2>2, RenamedIsDraft
<1>3. ASSUME NEW C \in OfKept, NEW n \in Added(C), D = C \cup {n}
      PROVE  IsDraft(D)
  <2>1. PICK x \in Name : /\ x \notin {s.name : s \in C}
                          /\ n = [id |-> New, name |-> x, sortOrder |-> MaxStep + 1, isEndPhase |-> FALSE]
    OBVIOUS
  <2> HIDE DEF OfKept, Added
  <2> QED BY <1>2, <1>3, <2>1, ExtendedIsDraft
<1> HIDE DEF OfKept, Added
<1>4. CASE D \in OfKept
  BY <1>2, <1>4
<1>5. CASE D \notin OfKept
  <2>1. PICK C \in OfKept : D \in {C \cup {n} : n \in Added(C)}
    BY <1>1, <1>5
  <2>2. PICK n \in Added(C) : D = C \cup {n}
    BY <2>1
  <2> QED BY <1>3, <2>2
<1> QED BY <1>4, <1>5

(* What the save read; its end is derived from the graph.                    *)
LEMMA SaveHolds ==
    ASSUME TemplateInv, NEW r, SaveRead(r)
    PROVE  \E D, E : LET o == [Idle EXCEPT !.step = "saving", !.draft = D, !.edges = E, !.read = steps]
                     IN  Begin(r, o) /\ HoldsDraft(o) /\ o.draft = D /\ o.edges = E /\ o.read = steps
<1>0. PICK C \in Drafts : \E E \in Graphs[Ids(C)] :
         Begin(r, [Idle EXCEPT !.step = "saving", !.draft = Marked(C, E), !.edges = E,
                               !.read = steps])
  BY DEF SaveRead
<1>1. PICK E \in Graphs[Ids(C)] :
         Begin(r, [Idle EXCEPT !.step = "saving", !.draft = Marked(C, E), !.edges = E,
                               !.read = steps])
  BY <1>0
<1>2. PICK D : D = Marked(C, E)
  OBVIOUS
<1>3. IsDraft(C)
  BY DraftsAre
<1> DEFINE F(d) == [d EXCEPT !.isEndPhase = (d.id \in Sinks(Ids(C), E))]
<1>4. ASSUME NEW d \in C
      PROVE  F(d) \in Step /\ F(d).id = d.id /\ F(d).sortOrder = d.sortOrder
  <2>1. d \in Step
    BY <1>3 DEF IsDraft, Rows
  <2>2. PICK b : b = (d.id \in Sinks(Ids(C), E))
    OBVIOUS
  <2>3. F(d) = [d EXCEPT !.isEndPhase = b]
    BY <2>2
  <2>4. b \in BOOLEAN
    BY <2>2
  <2> HIDE DEF F
  <2> QED BY <2>1, <2>3, <2>4 DEF Step
<1>5. IsFiniteSet(C)
  BY <1>3 DEF IsDraft, Rows
<1>6. D = {F(d) : d \in C}
  BY <1>2 DEF Marked
<1>7. IsFiniteSet(D)
  <2>1. PICK g : g = [d \in C |-> F(d)]
    OBVIOUS
  <2>2. g \in Surjection(C, D)
    BY <1>6, <2>1 DEF Surjection
  <2> QED BY <1>5, <2>2, FS_Surjection
<1> HIDE DEF F
<1>8. \A s, t \in D : s.id = t.id => s = t
  BY <1>3, <1>4, <1>6 DEF IsDraft, Rows
<1>9. Rows(D)
  BY <1>4, <1>6, <1>7, <1>8 DEF Rows
<1>10. Ids(D) = Ids(C)
  BY <1>4, <1>6 DEF Ids
<1>11. NewIsLast(D)
  BY <1>3, <1>4, <1>6 DEF IsDraft, NewIsLast, Before
<1>12. Ids(C) \in SUBSET (StepId \cup {New}) /\ Cardinality(Ids(C)) <= Cardinality(Name)
  <2>1. \A d \in C : d \in Step /\ d.id \in StepId \cup {New} /\ d.name \in Name
    BY <1>3, StepFields DEF IsDraft, Rows
  <2>2. PICK f : f = [d \in C |-> d.name]
    OBVIOUS
  <2>3. f \in Injection(C, Name)
    BY <1>3, <2>1, <2>2 DEF Injection, IsInjective, IsDraft
  <2>4. Cardinality(C) <= Cardinality(Name)
    BY <2>3, FS_Injection, BoundsAssumption
  <2>5. PICK g : g = [d \in C |-> d.id]
    OBVIOUS
  <2>6. g \in Surjection(C, Ids(C))
    BY <2>5 DEF Surjection, Ids
  <2>7. IsFiniteSet(Ids(C)) /\ Cardinality(Ids(C)) <= Cardinality(C)
    BY <1>5, <2>6, FS_Surjection
  <2>8. Cardinality(Ids(C)) \in Nat /\ Cardinality(C) \in Nat /\ Cardinality(Name) \in Nat
    BY <1>5, <2>7, FS_CardinalityType, BoundsAssumption
  <2> QED BY <2>1, <2>4, <2>7, <2>8 DEF Ids
<1>13. E \in SUBSET (Ids(C) \X Ids(C))
  <2>1. Graphs[Ids(C)] = {G \in SUBSET (Ids(C) \X Ids(C)) : ValidDag(Ids(C), G)}
    BY <1>12 DEF Graphs
  <2> QED BY <2>1
<1>14. PICK o : o = [Idle EXCEPT !.step = "saving", !.draft = D, !.edges = E, !.read = steps]
  OBVIOUS
<1>15. o.draft = D /\ o.edges = E /\ o.read = steps
  BY <1>14 DEF Idle
<1>16. HoldsDraft(o)
  BY <1>3, <1>9, <1>10, <1>11, <1>13, <1>15 DEF HoldsDraft, IsDraft, NewIsLast
<1> QED BY <1>1, <1>2, <1>14, <1>15, <1>16

-----------------------------------------------------------------------------
(* The copies.                                                               *)

(* A copy of the template S with dependencies E: its phases stand for the    *)
(* steps and its dependencies say what theirs do, unless it is behind.       *)
GoodCopy(c, S, E) ==
    /\ c \in Copy /\ Apart(c.phases)
    /\ \A p \in c.phases : p.source \in Ids(S) \cup {None}
    /\ Ends(c.deps) \subseteq Ids(c.phases)
    /\ ~c.behind => StandFor(c.phases, S) /\ Leads(c) = E

GoodCopies(cs, S, E) ==
    /\ cs \in Seq(Copy) /\ Len(cs) <= MaxCopy
    /\ \A c \in DOMAIN cs : GoodCopy(cs[c], S, E)

(* The ways a step changes the copies keep them good.                        *)
LEMMA OneRewritten ==
    ASSUME NEW S, NEW E, NEW cs, GoodCopies(cs, S, E), NEW d \in DOMAIN cs,
           NEW n, GoodCopy(n, S, E)
    PROVE  GoodCopies([cs EXCEPT ![d] = n], S, E)
<1>1. PICK ds : ds = [cs EXCEPT ![d] = n]
  OBVIOUS
<1>2. cs \in Seq(Copy) /\ n \in Copy /\ Len(cs) \in Nat /\ DOMAIN cs = 1 .. Len(cs)
  BY LenProperties DEF GoodCopies, GoodCopy
<1>3. ds \in Seq(Copy) /\ Len(ds) = Len(cs)
  BY <1>1, <1>2, ExceptSeq
<1>4. DOMAIN ds = DOMAIN cs /\ \A c \in DOMAIN cs : ds[c] = IF c = d THEN n ELSE cs[c]
  BY <1>1
<1> QED BY <1>1, <1>3, <1>4 DEF GoodCopies

LEMMA AllRewritten ==
    ASSUME NEW S, NEW E, NEW T, NEW F, NEW cs, GoodCopies(cs, S, E), NEW ds,
           DOMAIN ds = DOMAIN cs, ds = [c \in DOMAIN cs |-> ds[c]],
           \A c \in DOMAIN cs : GoodCopy(ds[c], T, F)
    PROVE  GoodCopies(ds, T, F)
<1>1. cs \in Seq(Copy) /\ Len(cs) \in Nat /\ DOMAIN cs = 1 .. Len(cs)
  BY LenProperties DEF GoodCopies
<1>2. \A c \in DOMAIN cs : ds[c] \in Copy
  BY DEF GoodCopy
<1>3. ds \in [1 .. Len(cs) -> Copy]
  BY <1>1, <1>2
<1>4. ds \in Seq(Copy) /\ Len(ds) = Len(cs)
  BY <1>1, <1>3, SeqDef, LenProperties
<1> QED BY <1>4 DEF GoodCopies

LEMMA OneMore ==
    ASSUME NEW S, NEW E, NEW cs, GoodCopies(cs, S, E), Len(cs) < MaxCopy,
           NEW n, GoodCopy(n, S, E)
    PROVE  GoodCopies(Append(cs, n), S, E)
<1>1. PICK ds : ds = Append(cs, n)
  OBVIOUS
<1>2. cs \in Seq(Copy) /\ n \in Copy /\ Len(cs) \in Nat /\ MaxCopy \in Nat
  BY BoundsAssumption DEF GoodCopies, GoodCopy
<1>3. /\ ds \in Seq(Copy) /\ Len(ds) = Len(cs) + 1 /\ ds[Len(cs) + 1] = n
      /\ \A i \in 1 .. Len(cs) : ds[i] = cs[i]
  BY <1>1, <1>2, AppendProperties
<1>4. DOMAIN cs = 1 .. Len(cs) /\ DOMAIN ds = 1 .. Len(cs) + 1
  BY <1>2, <1>3, LenProperties
<1>5. \A c \in DOMAIN ds : GoodCopy(ds[c], S, E)
  BY <1>2, <1>3, <1>4 DEF GoodCopies
<1> QED BY <1>1, <1>2, <1>3, <1>5 DEF GoodCopies

(* A new copy.                                                               *)
LEMMA CreatedIsGood ==
    ASSUME NEW T, Rows(T), New \notin Ids(T), NEW F \in SUBSET (Ids(T) \X Ids(T)),
           Ids(T) \subseteq Ids(steps), NEW p \in Partner, NEW n,
           n = [partner |-> p, lifecycle |-> "active", isArchived |-> FALSE,
                phases |-> Fresh(T), deps |-> Wired(Fresh(T), F),
                behind |-> T # steps \/ F # stepDeps]
    PROVE  GoodCopy(n, steps, stepDeps)
<1>1. PICK P : P = Fresh(T)
  OBVIOUS
<1>2. Apart(P) /\ StandFor(P, T)
  BY <1>1, FreshIs
<1>3. PICK D : D = Wired(P, F)
  OBVIOUS
<1>4. PICK b : b = (T # steps \/ F # stepDeps)
  OBVIOUS
<1>5. b \in BOOLEAN
  BY <1>4
<1>6. n = [partner |-> p, lifecycle |-> "active", isArchived |-> FALSE,
           phases |-> P, deps |-> D, behind |-> b]
  BY <1>1, <1>3, <1>4
<1>7. n.phases = P /\ n.deps = D /\ n.behind = b
  BY <1>6
<1>8. Leads(n) = F /\ D \in SUBSET (Nat \X Nat) /\ Ends(D) \subseteq Ids(P)
  BY <1>2, <1>3, <1>7, WiredIs, WiredTyped
<1>9. \A x \in P : x.source \in Ids(steps) \cup {None}
  BY <1>2, StandForIds
<1>10. n \in Copy
  BY <1>2, <1>5, <1>6, <1>8 DEF Copy, Apart
<1>11. ~n.behind => T = steps /\ F = stepDeps
  BY <1>4, <1>7
<1> QED BY <1>2, <1>7, <1>8, <1>9, <1>10, <1>11 DEF GoodCopy

(* A copy a save passes over, and one it rewrites.                           *)
LEMMA PassedIsGood ==
    ASSUME NEW S, NEW T, NEW c, NEW E, NEW F, GoodCopy(c, S, E), NEW n,
           n = [c EXCEPT !.phases = Forgotten(c.phases, Ids(S) \ Ids(T)), !.behind = TRUE]
    PROVE  GoodCopy(n, T, F)
<1>1. PICK P, gone : P = Forgotten(c.phases, gone) /\ gone = Ids(S) \ Ids(T)
  OBVIOUS
<1>2. n = [c EXCEPT !.phases = P, !.behind = TRUE]
  BY <1>1
<1>3. c \in Copy /\ Apart(c.phases)
  BY DEF GoodCopy
<1>4. Apart(P) /\ Ids(P) = Ids(c.phases)
  BY <1>1, <1>3, ForgottenIs
<1>5. ASSUME NEW q \in P PROVE q.source \in Ids(T) \cup {None}
  <2>1. q.source \notin gone \/ q.source = None
    BY <1>1, <1>3, ForgottenIs
  <2>2. \E p \in c.phases : q.source \in {p.source, None}
    BY <1>1, <1>3, ForgottenIs
  <2> QED BY <1>1, <2>1, <2>2 DEF GoodCopy
<1>6. n \in Copy /\ n.phases = P /\ n.deps = c.deps /\ n.behind
  BY <1>2, <1>3, <1>4 DEF Copy, Apart
<1> QED BY <1>4, <1>5, <1>6 DEF GoodCopy

Resynced(c, P, F) == [c EXCEPT !.phases = P, !.deps = Wired(P, F), !.behind = FALSE]

LEMMA SyncedIsGood ==
    ASSUME NEW S, NEW T, NEW c, NEW E, NEW F \in SUBSET (Ids(T) \X Ids(T)), GoodCopy(c, S, E),
           Rows(T), New \notin Ids(T), NEW P, P = Synced(Forgotten(c.phases, Ids(S) \ Ids(T)), T),
           NEW n, n = Resynced(c, P, F)
    PROVE  GoodCopy(n, T, F)
<1>1. c \in Copy /\ Apart(Forgotten(c.phases, Ids(S) \ Ids(T)))
  BY ForgottenIs DEF GoodCopy
<1>2. Apart(P) /\ StandFor(P, T)
  BY <1>1, SyncedIs
<1>3. PICK D : D = Wired(P, F)
  OBVIOUS
<1>4. n = [c EXCEPT !.phases = P, !.deps = D, !.behind = FALSE]
  BY <1>3 DEF Resynced
<1>5. n.phases = P /\ n.deps = D
  BY <1>1, <1>4 DEF Copy
<1>6. Leads(n) = F /\ D \in SUBSET (Nat \X Nat) /\ Ends(D) \subseteq Ids(P)
  <2>1. n.deps = Wired(P, F)
    BY <1>3, <1>5
  <2>2. Leads(n) = F
    BY <1>2, <1>5, <2>1, WiredIs
  <2>3. D \in SUBSET (Nat \X Nat) /\ Ends(D) \subseteq Ids(P)
    BY <1>2, <1>3, WiredTyped
  <2> QED BY <2>2, <2>3
<1>7. \A x \in P : x.source \in Ids(T) \cup {None}
  BY <1>2, StandForIds
<1>8. n \in Copy
  BY <1>1, <1>2, <1>4, <1>6 DEF Copy, Apart
<1> QED BY <1>2, <1>5, <1>6, <1>7, <1>8 DEF GoodCopy

(* One whose standing changed, and one that was worked on.                   *)
LEMMA StandingIsGood ==
    ASSUME NEW S, NEW E, NEW c, GoodCopy(c, S, E), NEW n, n \in Copy,
           n.phases = c.phases, n.deps = c.deps, n.behind = c.behind
    PROVE  GoodCopy(n, S, E)
BY DEF GoodCopy, Leads

WorkedOn(phases, p) == (phases \ {p}) \cup {[p EXCEPT !.at = Worked]}

LEMMA WorkedIsGood ==
    ASSUME NEW S, NEW E, NEW c, GoodCopy(c, S, E), NEW p \in c.phases,
           NEW P, P = WorkedOn(c.phases, p),
           NEW n, n = [c EXCEPT !.phases = P]
    PROVE  GoodCopy(n, S, E)
<1>1. PICK q : q = [p EXCEPT !.at = Worked]
  OBVIOUS
<1>2. P = (c.phases \ {p}) \cup {q}
  BY <1>1 DEF WorkedOn
<1>3. c \in Copy /\ p \in Phase
  BY DEF GoodCopy, Apart
<1>4. q \in Phase /\ q.id = p.id /\ q.source = p.source /\ q.name = p.name
  BY <1>1, <1>3 DEF Phase
<1>6. Apart(P)
  <2>1. IsFiniteSet(c.phases \ {p})
    BY FS_RemoveElement DEF GoodCopy, Apart
  <2>2. IsFiniteSet(P)
    BY <1>2, <2>1, FS_AddElement
  <2> QED BY <1>2, <1>4, <2>2 DEF GoodCopy, Apart
<1>7. n \in Copy /\ n.phases = P /\ n.deps = c.deps /\ n.behind = c.behind
  BY <1>3, <1>6 DEF Copy, Apart
<1>8. Ids(P) = Ids(c.phases)
  BY <1>2, <1>4 DEF Ids
<1>9. {<<x.source, x.name>> : x \in P} = {<<x.source, x.name>> : x \in c.phases}
  BY <1>2, <1>4
<1>10. Leads(n) = Leads(c)
  <2>1. \A x \in P : \E y \in c.phases : x.id = y.id /\ x.source = y.source
    BY <1>2, <1>4
  <2>2. \A y \in c.phases : \E x \in P : x.id = y.id /\ x.source = y.source
    BY <1>2, <1>4
  <2>3. Leads(n) \subseteq Leads(c)
    BY <1>7, <2>1, LeadsFewer
  <2>4. Leads(c) \subseteq Leads(n)
    BY <1>7, <2>2, LeadsFewer
  <2> QED BY <2>3, <2>4
<1>11. \A x \in P : x.source \in Ids(S) \cup {None}
  BY <1>2, <1>4 DEF GoodCopy
<1> QED BY <1>6, <1>7, <1>8, <1>9, <1>10, <1>11 DEF GoodCopy, StandFor

-----------------------------------------------------------------------------
(* The requests, and the invariant.                                          *)

(* What a request holds: enough of what it read to make a good copy of it.   *)
InFlight == [step : {"idle", "adding", "joining", "building", "saving", "removing"},
             todo : SUBSET Partner, partner : Partner \cup {None},
             read : SUBSET Step, draft : SUBSET Step,
             edges : SUBSET ((StepId \cup {New}) \X (StepId \cup {New}))]

Prepared(o) ==
    /\ o.step \in {"joining", "building", "removing"} => o.partner \in Partner
    /\ o.step = "building" => /\ Rows(o.read) /\ New \notin Ids(o.read)
                              /\ o.edges \in SUBSET (Ids(o.read) \X Ids(o.read))
    /\ o.step = "saving" => HoldsDraft(o)

RequestsInv == op \in [Request -> InFlight] /\ \A r \in Request : Prepared(op[r])

CopiesInv == GoodCopies(copies, steps, stepDeps)

RestTyped ==
    /\ member \in [Partner -> {"none", "active", "removed"}]
    /\ disturbed \in SUBSET Partner
    /\ spent \in 0 .. MaxRequests

(* The inductive invariant.                                                  *)
CarryInv == TemplateInv /\ CopiesInv /\ RequestsInv /\ RestTyped

(* No step has a draft's id or the id of none.                               *)
LEMMA TemplateIds ==
    ASSUME TemplateInv
    PROVE  /\ Ids(steps) \subseteq StepId /\ New \notin Ids(steps) /\ None \notin Ids(steps)
           /\ stepDeps \in SUBSET ((StepId \cup {New}) \X (StepId \cup {New}))
<1>1. \A i \in Ids(steps) : i \in 1 .. nextStep - 1
  BY DEF TemplateInv, Ids
<1>2. \A i \in Ids(steps) : i \in StepId /\ i # New /\ i # None
  BY <1>1, BoundsAssumption DEF TemplateInv, StepId, New, None
<1>3. stepDeps \in SUBSET (Ids(steps) \X Ids(steps))
  BY DEF TemplateInv
<1> QED BY <1>2, <1>3

(* A request holds nothing when it is idle.                                  *)
LEMMA IdlePrepared == Idle \in InFlight /\ Prepared(Idle)
BY DEF Idle, InFlight, Prepared, None

(* A request that moves on leaves the others as they are.                    *)
LEMMA MovedOn ==
    ASSUME RequestsInv, NEW r \in Request, NEW o \in InFlight, Prepared(o), op' = [op EXCEPT ![r] = o]
    PROVE  RequestsInv'
<1>1. op' \in [Request -> InFlight]
  BY DEF RequestsInv
<1>2. \A q \in Request : op'[q] = IF q = r THEN o ELSE op[q]
  BY DEF RequestsInv
<1>3. \A q \in Request : Prepared(op'[q])
  BY <1>2 DEF RequestsInv
<1> QED BY <1>1, <1>3 DEF RequestsInv

LEMMA FinishedOn ==
    ASSUME RequestsInv, NEW r \in Request, Finish(r)
    PROVE  RequestsInv'
BY MovedOn, IdlePrepared DEF Finish

LEMMA BegunOn ==
    ASSUME RequestsInv, NEW r \in Request, NEW o \in InFlight, Prepared(o), Begin(r, o),
           spent \in 0 .. MaxRequests
    PROVE  RequestsInv' /\ spent' \in 0 .. MaxRequests
<1>1. RequestsInv'
  BY MovedOn DEF Begin
<1>2. spent' = spent + 1 /\ spent < MaxRequests
  BY DEF Begin, Ready
<1> QED BY <1>1, <1>2, BoundsAssumption

(* Every step keeps the invariant.                                           *)
LEMMA AddBeginCarries == ASSUME CarryInv, NEW r \in Request, AddBegin(r) PROVE CarryInv'
<1>1. PICK todo \in SUBSET Partner \ {{}} : Begin(r, [Idle EXCEPT !.step = "adding", !.todo = todo])
  BY DEF AddBegin
<1>2. PICK o : o = [Idle EXCEPT !.step = "adding", !.todo = todo]
  OBVIOUS
<1>3. o \in InFlight /\ Prepared(o)
  BY <1>2 DEF Idle, InFlight, Prepared
<1>4. RequestsInv' /\ spent' \in 0 .. MaxRequests
  BY <1>1, <1>2, <1>3, BegunOn DEF CarryInv, RestTyped
<1>5. UNCHANGED <<steps, stepDeps, nextStep, member, copies, disturbed>>
  BY DEF AddBegin
<1> QED BY <1>4, <1>5 DEF CarryInv, TemplateInv, CopiesInv, RestTyped

LEMMA AddNextCarries == ASSUME CarryInv, NEW r \in Request, AddNext(r) PROVE CarryInv'
<1>1. PICK x : x = op[r] /\ x \in InFlight
  BY DEF CarryInv, RequestsInv
<1>2. \/ Finish(r) /\ UNCHANGED disturbed
      \/ \E p \in x.todo :
            \/ op' = [op EXCEPT ![r].todo = @ \ {p}] /\ UNCHANGED disturbed
            \/ /\ op' = [op EXCEPT ![r].todo = @ \ {p}, ![r].partner = p, ![r].step = "joining"]
               /\ disturbed' = disturbed \cup IF Others(r, p) THEN {p} ELSE {}
  BY <1>1 DEF AddNext
<1>3. x.step = "adding" /\ x.todo \in SUBSET Partner /\ RequestsInv /\ disturbed \in SUBSET Partner
  BY <1>1 DEF AddNext, CarryInv, RestTyped, InFlight
<1>4. CASE Finish(r) /\ UNCHANGED disturbed
  BY <1>3, <1>4, FinishedOn DEF CarryInv, TemplateInv, CopiesInv, RestTyped, AddNext
<1>5. ASSUME NEW p \in x.todo, op' = [op EXCEPT ![r].todo = @ \ {p}], UNCHANGED disturbed
      PROVE  RequestsInv' /\ disturbed' \in SUBSET Partner
  <2>1. PICK o : o = [x EXCEPT !.todo = @ \ {p}]
    OBVIOUS
  <2>2. op' = [op EXCEPT ![r] = o]
    BY <1>1, <1>5, <2>1
  <2>3. o \in InFlight /\ Prepared(o)
    BY <1>1, <1>3, <2>1 DEF InFlight, Prepared
  <2> QED BY <1>3, <1>5, <2>2, <2>3, MovedOn
<1>6. ASSUME NEW p \in x.todo,
             op' = [op EXCEPT ![r].todo = @ \ {p}, ![r].partner = p, ![r].step = "joining"],
             disturbed' = disturbed \cup IF Others(r, p) THEN {p} ELSE {}
      PROVE  RequestsInv' /\ disturbed' \in SUBSET Partner
  <2>1. PICK o : o = [x EXCEPT !.todo = @ \ {p}, !.partner = p, !.step = "joining"]
    OBVIOUS
  <2>2. op' = [op EXCEPT ![r] = o]
    BY <1>1, <1>6, <2>1
  <2>3. o \in InFlight /\ Prepared(o)
    BY <1>1, <1>3, <2>1 DEF InFlight, Prepared
  <2>4. disturbed' \in SUBSET Partner
    BY <1>3, <1>6
  <2> QED BY <1>3, <2>2, <2>3, <2>4, MovedOn
<1>7. UNCHANGED <<steps, stepDeps, nextStep, member, copies, spent>>
  BY DEF AddNext
<1>8. CASE RequestsInv' /\ disturbed' \in SUBSET Partner
  BY <1>7, <1>8 DEF CarryInv, TemplateInv, CopiesInv, RestTyped
<1> QED BY <1>2, <1>4, <1>5, <1>6, <1>8

LEMMA AddJoinCarries == ASSUME CarryInv, NEW r \in Request, AddJoin(r) PROVE CarryInv'
<1>1. PICK x : x = op[r] /\ x \in InFlight /\ Prepared(x) /\ x.step = "joining"
  BY DEF CarryInv, RequestsInv, AddJoin
<1>2. PICK o : o = [x EXCEPT !.step = "building", !.read = steps, !.edges = stepDeps]
  OBVIOUS
<1>3. op' = [op EXCEPT ![r] = o]
  BY <1>1, <1>2 DEF AddJoin
<1>4. o \in InFlight
  BY <1>1, <1>2, TemplateIds DEF InFlight, CarryInv, TemplateInv, Rows
<1>5. o.step = "building" /\ o.read = steps /\ o.edges = stepDeps /\ o.partner = x.partner
  BY <1>1, <1>2 DEF InFlight
<1>6. Prepared(o)
  BY <1>1, <1>5, TemplateIds DEF Prepared, CarryInv, TemplateInv
<1>7. RequestsInv'
  BY <1>3, <1>4, <1>6, MovedOn DEF CarryInv
<1>8. member' \in [Partner -> {"none", "active", "removed"}]
  BY DEF AddJoin, CarryInv, RestTyped
<1>9. UNCHANGED <<steps, stepDeps, nextStep, copies, disturbed, spent>>
  BY DEF AddJoin
<1> QED BY <1>7, <1>8, <1>9 DEF CarryInv, TemplateInv, CopiesInv, RestTyped

LEMMA AddCreateCarries == ASSUME CarryInv, NEW r \in Request, AddCreate(r) PROVE CarryInv'
<1>1. PICK x : x = op[r] /\ x \in InFlight /\ Prepared(x) /\ x.step = "building"
  BY DEF CarryInv, RequestsInv, AddCreate
<1>2. /\ Rows(x.read) /\ New \notin Ids(x.read) /\ x.partner \in Partner
      /\ x.edges \in SUBSET (Ids(x.read) \X Ids(x.read)) /\ x.todo \in SUBSET Partner
  BY <1>1 DEF Prepared, InFlight
<1>3. UNCHANGED <<steps, stepDeps, nextStep, member, spent>> /\ Len(copies) < MaxCopy
  BY DEF AddCreate
<1>4. CASE ValidTemplate(x.read, x.edges) /\ Ids(x.read) \subseteq Ids(steps)
  <2>1. PICK n : n = [partner |-> x.partner, lifecycle |-> "active", isArchived |-> FALSE,
                      phases |-> Fresh(x.read), deps |-> Wired(Fresh(x.read), x.edges),
                      behind |-> x.read # steps \/ x.edges # stepDeps]
    OBVIOUS
  <2>2. PICK o : o = [Idle EXCEPT !.step = "adding", !.todo = x.todo]
    OBVIOUS
  <2>3. copies' = Append(copies, n) /\ op' = [op EXCEPT ![r] = o] /\ UNCHANGED disturbed
    BY <1>1, <1>4, <2>1, <2>2 DEF AddCreate
  <2>4. GoodCopy(n, steps, stepDeps)
    BY <1>2, <1>4, <2>1, CreatedIsGood
  <2>5. CopiesInv'
    BY <1>3, <2>3, <2>4, OneMore DEF CarryInv, CopiesInv
  <2>6. o \in InFlight /\ Prepared(o)
    BY <1>2, <2>2 DEF Idle, InFlight, Prepared
  <2>7. RequestsInv'
    BY <2>3, <2>6, MovedOn DEF CarryInv
  <2> QED BY <1>3, <2>3, <2>5, <2>7 DEF CarryInv, TemplateInv, RestTyped
<1>5. CASE ~(ValidTemplate(x.read, x.edges) /\ Ids(x.read) \subseteq Ids(steps))
  <2>1. Finish(r) /\ disturbed' = disturbed \cup {x.partner} /\ UNCHANGED copies
    BY <1>1, <1>5 DEF AddCreate
  <2>2. RequestsInv'
    BY <2>1, FinishedOn DEF CarryInv
  <2> QED BY <1>2, <1>3, <2>1, <2>2 DEF CarryInv, TemplateInv, CopiesInv, RestTyped
<1> QED BY <1>4, <1>5

LEMMA AddFailsCarries == ASSUME CarryInv, NEW r \in Request, AddFails(r) PROVE CarryInv'
<1>1. op[r].partner \in Partner
  BY DEF CarryInv, RequestsInv, Prepared, AddFails
<1>2. RequestsInv'
  BY FinishedOn DEF CarryInv, AddFails
<1> QED BY <1>1, <1>2 DEF CarryInv, TemplateInv, CopiesInv, RestTyped, AddFails

LEMMA RemoveReadCarries == ASSUME CarryInv, NEW r \in Request, RemoveRead(r) PROVE CarryInv'
<1>1. PICK p \in Partner :
         /\ Begin(r, [Idle EXCEPT !.step = "removing", !.partner = p])
         /\ disturbed' = disturbed \cup IF Others(r, p) THEN {p} ELSE {}
  BY DEF RemoveRead
<1>2. PICK o : o = [Idle EXCEPT !.step = "removing", !.partner = p]
  OBVIOUS
<1>3. o \in InFlight /\ Prepared(o)
  BY <1>2 DEF Idle, InFlight, Prepared
<1>4. RequestsInv' /\ spent' \in 0 .. MaxRequests
  BY <1>1, <1>2, <1>3, BegunOn DEF CarryInv, RestTyped
<1>5. disturbed' \in SUBSET Partner
  BY <1>1 DEF CarryInv, RestTyped
<1>6. UNCHANGED <<steps, stepDeps, nextStep, member, copies>>
  BY DEF RemoveRead
<1> QED BY <1>4, <1>5, <1>6 DEF CarryInv, TemplateInv, CopiesInv, RestTyped

LEMMA RemoveCommitCarries == ASSUME CarryInv, NEW r \in Request, RemoveCommit(r) PROVE CarryInv'
<1>1. RequestsInv'
  BY FinishedOn DEF CarryInv, RemoveCommit
<1>2. member' \in [Partner -> {"none", "active", "removed"}]
  BY DEF RemoveCommit, CarryInv, RestTyped
<1>3. UNCHANGED <<steps, stepDeps, nextStep, disturbed, spent>>
  BY DEF RemoveCommit
<1>4. CopiesInv'
  <2>1. copies' = copies \/ \E c \in DOMAIN copies : copies' = [copies EXCEPT ![c].lifecycle = "cancelled"]
    BY DEF RemoveCommit, Cancelled
  <2>2. ASSUME NEW c \in DOMAIN copies, copies' = [copies EXCEPT ![c].lifecycle = "cancelled"]
        PROVE  CopiesInv'
    <3>1. PICK n : n = [copies[c] EXCEPT !.lifecycle = "cancelled"]
      OBVIOUS
    <3>2. GoodCopy(copies[c], steps, stepDeps) /\ copies[c] \in Copy
      BY DEF CarryInv, CopiesInv, GoodCopies, GoodCopy
    <3>3. n \in Copy /\ n.phases = copies[c].phases /\ n.deps = copies[c].deps /\ n.behind = copies[c].behind
      BY <3>1, <3>2 DEF Copy
    <3>4. GoodCopy(n, steps, stepDeps)
      BY <3>2, <3>3, StandingIsGood
    <3>5. copies' = [copies EXCEPT ![c] = n]
      BY <2>2, <3>1
    <3> QED BY <1>3, <3>4, <3>5, OneRewritten DEF CarryInv, CopiesInv
  <2> QED BY <1>3, <2>1, <2>2 DEF CarryInv, CopiesInv
<1> QED BY <1>1, <1>2, <1>3, <1>4 DEF CarryInv, TemplateInv, RestTyped

LEMMA SaveReadCarries == ASSUME CarryInv, NEW r \in Request, SaveRead(r) PROVE CarryInv'
<1>1. PICK D, E : LET o == [Idle EXCEPT !.step = "saving", !.draft = D, !.edges = E, !.read = steps]
                  IN  Begin(r, o) /\ HoldsDraft(o) /\ o.draft = D /\ o.edges = E /\ o.read = steps
  BY SaveHolds DEF CarryInv
<1>2. PICK o : o = [Idle EXCEPT !.step = "saving", !.draft = D, !.edges = E, !.read = steps]
  OBVIOUS
<1>3. Begin(r, o) /\ HoldsDraft(o) /\ o.draft = D /\ o.edges = E /\ o.read = steps
  BY <1>1, <1>2
<1>4. D \in SUBSET Step /\ steps \in SUBSET Step /\ E \in SUBSET (Ids(D) \X Ids(D))
  BY <1>3 DEF HoldsDraft, Rows, CarryInv, TemplateInv
<1>5. Ids(D) \subseteq StepId \cup {New}
  BY <1>4 DEF Ids, Step
<1>6. E \in SUBSET ((StepId \cup {New}) \X (StepId \cup {New}))
  BY <1>4, <1>5
<1>7. o.step = "saving" /\ o \in InFlight
  BY <1>2, <1>4, <1>6 DEF Idle, InFlight
<1>8. Prepared(o)
  BY <1>3, <1>7 DEF Prepared
<1>9. RequestsInv' /\ spent' \in 0 .. MaxRequests
  BY <1>3, <1>7, <1>8, BegunOn DEF CarryInv, RestTyped
<1>10. UNCHANGED <<steps, stepDeps, nextStep, member, copies, disturbed>>
  BY DEF SaveRead
<1> QED BY <1>9, <1>10 DEF CarryInv, TemplateInv, CopiesInv, RestTyped

(* What a save makes of every copy.                                          *)
(* A save whose draft's rows are all there makes this of the template and of *)
(* the copies; another leaves them.                                          *)
LEMMA SaveMakes ==
    ASSUME CarryInv, NEW r \in Request, SaveWrite(r)
    PROVE  /\ op[r] \in InFlight /\ HoldsDraft(op[r]) /\ nextStep <= MaxStep
           /\ \/ UNCHANGED <<steps, stepDeps, nextStep, copies>>
              \/ LET S == Saved(op[r])
                     F == SavedDeps(op[r], S)
                 IN  /\ Ids(op[r].draft) \ {New} \subseteq Ids(steps)
                     /\ steps' = S /\ stepDeps' = F
                     /\ nextStep' = IF New \in Ids(op[r].draft) THEN nextStep + 1 ELSE nextStep
                     /\ DOMAIN copies' = DOMAIN copies
                     /\ copies' = [c \in DOMAIN copies |-> copies'[c]]
                     /\ \A c \in DOMAIN copies :
                            LET left == Forgotten(copies[c].phases, Ids(steps) \ Ids(S)) IN
                            copies'[c] = IF Live(copies[c])
                                         THEN Resynced(copies[c], Synced(left, S), F)
                                         ELSE [copies[c] EXCEPT !.phases = left, !.behind = TRUE]
<1>1. op[r] \in InFlight /\ HoldsDraft(op[r]) /\ nextStep <= MaxStep
  BY DEF CarryInv, RequestsInv, Prepared, SaveWrite
<1>2. CASE ~(Ids(op[r].draft) \ {New} \subseteq Ids(steps))
  BY <1>1, <1>2 DEF SaveWrite
<1>3. CASE Ids(op[r].draft) \ {New} \subseteq Ids(steps)
  <2>1. PICK S : S = Saved(op[r])
    OBVIOUS
  <2>2. PICK F, gone : F = SavedDeps(op[r], S) /\ gone = Ids(steps) \ Ids(S)
    OBVIOUS
  <2>3. /\ steps' = S /\ stepDeps' = F
        /\ nextStep' = IF New \in Ids(op[r].draft) THEN nextStep + 1 ELSE nextStep
        /\ copies' = [c \in DOMAIN copies |->
              IF Reached(copies[c])
              THEN [copies[c] EXCEPT
                      !.phases = Synced(Forgotten(copies[c].phases, gone), S),
                      !.deps = Wired(Synced(Forgotten(copies[c].phases, gone), S), F),
                      !.behind = FALSE]
              ELSE [copies[c] EXCEPT !.phases = Forgotten(copies[c].phases, gone), !.behind = TRUE]]
    BY <1>3, <2>1, <2>2 DEF SaveWrite
  <2>4. DOMAIN copies' = DOMAIN copies /\ copies' = [c \in DOMAIN copies |-> copies'[c]]
    BY <2>3
  <2>5. ASSUME NEW c \in DOMAIN copies
        PROVE  LET left == Forgotten(copies[c].phases, gone) IN
               copies'[c] = IF Live(copies[c])
                            THEN Resynced(copies[c], Synced(left, S), F)
                            ELSE [copies[c] EXCEPT !.phases = left, !.behind = TRUE]
    BY <2>3 DEF Reached, Resynced
  <2> QED BY <1>1, <1>3, <2>1, <2>2, <2>3, <2>4, <2>5
<1> QED BY <1>2, <1>3

LEMMA SaveWriteCarries == ASSUME CarryInv, NEW r \in Request, SaveWrite(r) PROVE CarryInv'
<1>1. RequestsInv' /\ UNCHANGED <<member, disturbed, spent>>
  BY FinishedOn DEF CarryInv, SaveWrite
<1>2. CASE UNCHANGED <<steps, stepDeps, nextStep, copies>>
  BY <1>1, <1>2 DEF CarryInv, TemplateInv, CopiesInv, RestTyped
<1>3. CASE ~UNCHANGED <<steps, stepDeps, nextStep, copies>>
  <2>1. PICK S : S = Saved(op[r])
    OBVIOUS
  <2>2. PICK F : F = SavedDeps(op[r], S)
    OBVIOUS
  <2>3. /\ HoldsDraft(op[r]) /\ nextStep <= MaxStep
        /\ Ids(op[r].draft) \ {New} \subseteq Ids(steps)
        /\ steps' = S /\ stepDeps' = F
        /\ nextStep' = IF New \in Ids(op[r].draft) THEN nextStep + 1 ELSE nextStep
        /\ DOMAIN copies' = DOMAIN copies
        /\ copies' = [c \in DOMAIN copies |-> copies'[c]]
        /\ \A c \in DOMAIN copies :
               LET left == Forgotten(copies[c].phases, Ids(steps) \ Ids(S)) IN
               copies'[c] = IF Live(copies[c])
                            THEN Resynced(copies[c], Synced(left, S), F)
                            ELSE [copies[c] EXCEPT !.phases = left, !.behind = TRUE]
    BY <1>3, <2>1, <2>2, SaveMakes
  <2>4. /\ Rows(S) /\ \A s \in S : s.id \in 1 .. nextStep' - 1 /\ s.sortOrder <= MaxStep
        /\ F \in SUBSET (Ids(S) \X Ids(S)) /\ nextStep' \in 1 .. MaxStep + 1
    BY <2>1, <2>2, <2>3, SavedIs DEF CarryInv
  <2>5. TemplateInv'
    BY <2>3, <2>4 DEF TemplateInv
  <2>6. New \notin Ids(S)
    <3>1. \A s \in S : s.id > 0
      BY <2>4
    <3> QED BY <3>1 DEF Ids, New
  <2>7. ASSUME NEW c \in DOMAIN copies PROVE GoodCopy(copies'[c], S, F)
    <3>1. PICK x, left : x = copies[c] /\ left = Forgotten(x.phases, Ids(steps) \ Ids(S))
      OBVIOUS
    <3>2. GoodCopy(x, steps, stepDeps)
      BY <3>1 DEF CarryInv, CopiesInv, GoodCopies
    <3>3. copies'[c] = IF Live(x) THEN Resynced(x, Synced(left, S), F)
                       ELSE [x EXCEPT !.phases = left, !.behind = TRUE]
      BY <2>3, <3>1
    <3>4. PICK P, n : P = Synced(left, S) /\ n = copies'[c]
      OBVIOUS
    <3>5. CASE Live(x)
      <4>1. n = Resynced(x, P, F) /\ P = Synced(Forgotten(x.phases, Ids(steps) \ Ids(S)), S)
        BY <3>1, <3>3, <3>4, <3>5
      <4>2. GoodCopy(n, S, F)
        BY <2>4, <2>6, <3>2, <4>1, SyncedIsGood
      <4> QED BY <3>4, <4>2
    <3>6. CASE ~Live(x)
      <4>1. n = [x EXCEPT !.phases = Forgotten(x.phases, Ids(steps) \ Ids(S)), !.behind = TRUE]
        BY <3>1, <3>3, <3>4, <3>6
      <4>2. GoodCopy(n, S, F)
        BY <3>2, <4>1, PassedIsGood
      <4> QED BY <3>4, <4>2
    <3> QED BY <3>5, <3>6
  <2>8. GoodCopies(copies', S, F)
    BY <2>3, <2>7, AllRewritten DEF CarryInv, CopiesInv
  <2> QED BY <1>1, <2>3, <2>5, <2>8 DEF CarryInv, CopiesInv, RestTyped
<1> QED BY <1>2, <1>3

(* One copy, whose phases, dependencies and past stay.                       *)
LEMMA ByHandCarries ==
    ASSUME CarryInv, NEW r \in Request, SetLifecycle(r) \/ ToggleArchived(r) PROVE CarryInv'
<1>1. \E c \in DOMAIN copies : \E n \in Copy :
          /\ n.phases = copies[c].phases /\ n.deps = copies[c].deps /\ n.behind = copies[c].behind
          /\ copies' = [copies EXCEPT ![c] = n] /\ disturbed' = disturbed \cup {copies[c].partner}
  <2>1. \A c \in DOMAIN copies : copies[c] \in Copy
    BY DEF CarryInv, CopiesInv, GoodCopies, GoodCopy
  <2>2. CASE SetLifecycle(r)
    <3>1. PICK c \in DOMAIN copies, l \in {"active", "complete", "cancelled"} :
             /\ copies' = [copies EXCEPT ![c].lifecycle = l]
             /\ disturbed' = disturbed \cup {copies[c].partner}
      BY <2>2 DEF SetLifecycle
    <3>2. PICK n : n = [copies[c] EXCEPT !.lifecycle = l]
      OBVIOUS
    <3>3. n \in Copy /\ n.phases = copies[c].phases /\ n.deps = copies[c].deps /\ n.behind = copies[c].behind
      BY <2>1, <3>2 DEF Copy
    <3>4. copies' = [copies EXCEPT ![c] = n]
      BY <3>1, <3>2
    <3> QED BY <3>1, <3>3, <3>4
  <2>3. CASE ToggleArchived(r)
    <3>1. PICK c \in DOMAIN copies :
             /\ copies' = [copies EXCEPT ![c].isArchived = ~@]
             /\ disturbed' = disturbed \cup {copies[c].partner}
      BY <2>3 DEF ToggleArchived
    <3>2. PICK n : n = [copies[c] EXCEPT !.isArchived = ~@]
      OBVIOUS
    <3>3. n \in Copy /\ n.phases = copies[c].phases /\ n.deps = copies[c].deps /\ n.behind = copies[c].behind
      BY <2>1, <3>2 DEF Copy
    <3>4. copies' = [copies EXCEPT ![c] = n]
      BY <3>1, <3>2
    <3> QED BY <3>1, <3>3, <3>4
  <2> QED BY <2>2, <2>3
<1>2. PICK c \in DOMAIN copies, n \in Copy :
          /\ n.phases = copies[c].phases /\ n.deps = copies[c].deps /\ n.behind = copies[c].behind
          /\ copies' = [copies EXCEPT ![c] = n] /\ disturbed' = disturbed \cup {copies[c].partner}
  BY <1>1
<1>3. Begin(r, Idle) /\ UNCHANGED <<steps, stepDeps, nextStep, member>>
  BY DEF SetLifecycle, ToggleArchived
<1>4. GoodCopy(copies[c], steps, stepDeps) /\ copies[c].partner \in Partner
  BY DEF CarryInv, CopiesInv, GoodCopies, GoodCopy, Copy
<1>5. GoodCopy(n, steps, stepDeps)
  BY <1>2, <1>4, StandingIsGood
<1>6. CopiesInv'
  BY <1>2, <1>3, <1>5, OneRewritten DEF CarryInv, CopiesInv
<1>7. RequestsInv' /\ spent' \in 0 .. MaxRequests
  BY <1>3, IdlePrepared, BegunOn DEF CarryInv, RestTyped
<1>8. disturbed' \in SUBSET Partner
  BY <1>2, <1>4 DEF CarryInv, RestTyped
<1> QED BY <1>3, <1>6, <1>7, <1>8 DEF CarryInv, TemplateInv, RestTyped

LEMMA ProgressCarries == ASSUME CarryInv, NEW r \in Request, Progress(r) PROVE CarryInv'
<1>1. PICK c \in DOMAIN copies : \E p \in copies[c].phases :
         copies' = [copies EXCEPT ![c].phases = (@ \ {p}) \cup {[p EXCEPT !.at = Worked]}]
  BY DEF Progress
<1>2. PICK p \in copies[c].phases :
         copies' = [copies EXCEPT ![c].phases = (@ \ {p}) \cup {[p EXCEPT !.at = Worked]}]
  BY <1>1
<1>3. PICK P : P = WorkedOn(copies[c].phases, p)
  OBVIOUS
<1>4. PICK n : n = [copies[c] EXCEPT !.phases = P]
  OBVIOUS
<1>5. copies' = [copies EXCEPT ![c] = n]
  BY <1>2, <1>3, <1>4 DEF WorkedOn
<1>6. Begin(r, Idle) /\ UNCHANGED <<steps, stepDeps, nextStep, member, disturbed>>
  BY DEF Progress
<1>7. GoodCopy(copies[c], steps, stepDeps)
  BY DEF CarryInv, CopiesInv, GoodCopies
<1>8. GoodCopy(n, steps, stepDeps)
  BY <1>3, <1>4, <1>7, WorkedIsGood
<1>9. CopiesInv'
  BY <1>5, <1>6, <1>8, OneRewritten DEF CarryInv, CopiesInv
<1>10. RequestsInv' /\ spent' \in 0 .. MaxRequests
  BY <1>6, IdlePrepared, BegunOn DEF CarryInv, RestTyped
<1> QED BY <1>6, <1>9, <1>10 DEF CarryInv, TemplateInv, RestTyped

(* The first template is the snapshot's: numbered rows in their order.       *)
LEMMA InitCarries == ASSUME Init PROVE CarryInv
<1> DEFINE F(i) == [id |-> i, name |-> FirstSteps[i], sortOrder |-> i,
                    isEndPhase |-> i \in Sinks(DOMAIN FirstSteps, FirstDeps)]
<1>1. /\ Len(FirstSteps) \in Nat /\ DOMAIN FirstSteps = 1 .. Len(FirstSteps)
      /\ Len(FirstSteps) <= MaxStep /\ MaxStep \in Nat
      /\ FirstDeps \subseteq (DOMAIN FirstSteps) \X (DOMAIN FirstSteps)
      /\ \A i \in DOMAIN FirstSteps : FirstSteps[i] \in Name
  BY FirstAssumption, BoundsAssumption, LenProperties, ElementOfSeq
<1>2. ASSUME NEW i \in DOMAIN FirstSteps
      PROVE  F(i) \in Step /\ F(i).id = i /\ F(i).sortOrder = i
  <2>1. i \in StepId \cup {New} /\ i \in Nat /\ FirstSteps[i] \in Name
    BY <1>1 DEF StepId
  <2>2. PICK b : b = (i \in Sinks(DOMAIN FirstSteps, FirstDeps))
    OBVIOUS
  <2>3. b \in BOOLEAN
    BY <2>2
  <2>4. F(i) = [id |-> i, name |-> FirstSteps[i], sortOrder |-> i, isEndPhase |-> b]
    BY <2>2
  <2> QED BY <2>1, <2>3, <2>4 DEF Step
<1>3. steps = {F(i) : i \in DOMAIN FirstSteps}
  BY DEF Init
<1>4. Ids(steps) = DOMAIN FirstSteps
  <2>1. \A i \in DOMAIN FirstSteps : F(i) \in steps /\ F(i).id = i
    BY <1>2, <1>3
  <2>2. \A s \in steps : s.id \in DOMAIN FirstSteps
    BY <1>2, <1>3
  <2>3. \A i \in DOMAIN FirstSteps : \E s \in steps : s.id = i
    BY <2>1
  <2> HIDE DEF F
  <2> QED BY <2>2, <2>3 DEF Ids
<1>5. Rows(steps)
  <2>1. steps \in SUBSET Step
    BY <1>2, <1>3
  <2>2. \A s, t \in steps : s.id = t.id => s = t
    BY <1>2, <1>3
  <2>3. IsFiniteSet(1 .. Len(FirstSteps))
    <3>1. 1 \in Int /\ Len(FirstSteps) \in Int
      BY <1>1
    <3> QED BY <3>1, FS_Interval
  <2>4. IsFiniteSet({F(i) : i \in DOMAIN FirstSteps})
    <3> HIDE DEF F
    <3>1. PICK D : D = DOMAIN FirstSteps
      OBVIOUS
    <3>2. PICK g : g = [i \in D |-> F(i)]
      OBVIOUS
    <3>3. \A i \in D : g[i] = F(i)
      BY <3>2
    <3>4. PICK T : T = {F(i) : i \in D}
      OBVIOUS
    <3>5. \A i \in D : g[i] \in T
      BY <3>3, <3>4
    <3>6. \A t \in T : \E i \in D : g[i] = t
      BY <3>3, <3>4
    <3>7. g \in Surjection(D, T)
      BY <3>2, <3>5, <3>6 DEF Surjection
    <3>8. IsFiniteSet(D)
      BY <1>1, <2>3, <3>1
    <3>9. IsFiniteSet(T)
      BY <3>7, <3>8, FS_Surjection
    <3> QED BY <3>1, <3>4, <3>9
  <2> QED BY <1>3, <2>1, <2>2, <2>4 DEF Rows
<1>6. TemplateInv
  <2>1. \A s \in steps : s.id \in 1 .. nextStep - 1 /\ s.sortOrder <= MaxStep
    BY <1>1, <1>2, <1>3 DEF Init
  <2>2. nextStep \in 1 .. MaxStep + 1
    BY <1>1 DEF Init
  <2>3. stepDeps \in SUBSET (Ids(steps) \X Ids(steps))
    BY <1>1, <1>4 DEF Init
  <2> QED BY <1>5, <2>1, <2>2, <2>3 DEF TemplateInv
<1>7. CopiesInv
  BY BoundsAssumption, EmptySeq DEF Init, CopiesInv, GoodCopies
<1>8. RequestsInv
  BY IdlePrepared DEF Init, RequestsInv
<1>9. RestTyped
  BY BoundsAssumption DEF Init, RestTyped
<1> QED BY <1>6, <1>7, <1>8, <1>9 DEF CarryInv

(* Whatever request it is of.                                                *)
LEMMA NextCarries == ASSUME CarryInv, [Next]_vars PROVE CarryInv'
<1>1. CASE Next
  <2>1. PICK r \in Request :
           \/ AddBegin(r) \/ AddNext(r) \/ AddJoin(r) \/ AddCreate(r) \/ AddFails(r)
           \/ RemoveRead(r) \/ RemoveCommit(r) \/ SaveRead(r) \/ SaveWrite(r)
           \/ SetLifecycle(r) \/ ToggleArchived(r) \/ Progress(r)
    BY <1>1 DEF Next
  <2>2. CASE AddBegin(r) \/ AddNext(r) \/ AddJoin(r) \/ AddCreate(r) \/ AddFails(r)
    BY <2>2, AddBeginCarries, AddNextCarries, AddJoinCarries, AddCreateCarries, AddFailsCarries
  <2>3. CASE RemoveRead(r) \/ RemoveCommit(r)
    BY <2>3, RemoveReadCarries, RemoveCommitCarries
  <2>4. CASE SaveRead(r) \/ SaveWrite(r)
    BY <2>4, SaveReadCarries, SaveWriteCarries
  <2>5. CASE SetLifecycle(r) \/ ToggleArchived(r)
    BY <2>5, ByHandCarries
  <2>6. CASE Progress(r)
    BY <2>6, ProgressCarries
  <2> QED BY <2>1, <2>2, <2>3, <2>4, <2>5, <2>6
<1>2. CASE UNCHANGED vars
  BY <1>2 DEF vars, CarryInv, TemplateInv, CopiesInv, RequestsInv, RestTyped
<1> QED BY <1>1, <1>2

(* The template's rows stay apart, every copy that is not behind stands for  *)
(* them, and every request holds what it could have read.                    *)
THEOREM CarryInvariant == Spec => []CarryInv
<1>1. Init => CarryInv
  BY InitCarries
<1>2. CarryInv /\ [Next]_vars => CarryInv'
  BY NextCarries
<1> QED BY <1>1, <1>2, PTL DEF Spec

(* Every variable has its type: steps and copies by ids that are apart,      *)
(* provenance and dependencies that point at rows which are there.           *)
THEOREM TypeCorrect == Spec => []TypeOK
<1>1. CarryInv => TypeOK
  <2> SUFFICES ASSUME CarryInv PROVE TypeOK
    OBVIOUS
  <2>1. /\ steps \in SUBSET Step /\ \A s \in steps : s.id \in 1 .. nextStep - 1
        /\ stepDeps \subseteq Ids(steps) \X Ids(steps)
        /\ nextStep \in 1 .. MaxStep + 1
    BY DEF CarryInv, TemplateInv, Rows
  <2>2. /\ copies \in Seq(Copy) /\ Len(copies) <= MaxCopy
        /\ \A c \in DOMAIN copies : \A p \in copies[c].phases :
               /\ p.source \in Ids(steps) \cup {None}
               /\ \A q \in copies[c].phases : p.id = q.id => p = q
               /\ Ends(copies[c].deps) \subseteq Ids(copies[c].phases)
    BY DEF CarryInv, CopiesInv, GoodCopies, GoodCopy, Apart
  <2>3. op \in [Request -> InFlight]
    BY DEF CarryInv, RequestsInv
  <2> QED BY <2>1, <2>2, <2>3 DEF TypeOK, CarryInv, RestTyped, InFlight
<1> QED BY <1>1, CarryInvariant, PTL

(* Phases that stand for the steps, and are apart, are as many.              *)
LEMMA AsManyAsSteps ==
    ASSUME NEW S, Rows(S), New \notin Ids(S), NEW P, Apart(P), StandFor(P, S)
    PROVE  Cardinality(P) = Cardinality(S)
<1>1. \A p \in P : \E s \in S : p.source = s.id
  BY StandForIds
<1>2. \A s \in S : \E p \in P : p.source = s.id
  BY StandForIds
<1>3. \A s, t \in S : s.id = t.id => s = t
  BY DEF Rows
<1>4. \A p \in P : p.source # None
  <2>1. \A s \in S : s.id # None
    BY StepFields DEF Rows, Ids
  <2> QED BY <1>1, <2>1
<1>5. \A p, q \in P : p.source = q.source => p = q
  BY <1>4 DEF Apart
<1>6. PICK f : f = [p \in P |-> CHOOSE s \in S : p.source = s.id]
  OBVIOUS
<1>7. \A p \in P : f[p] \in S /\ f[p].id = p.source
  BY <1>1, <1>6
<1>8. \A s \in S : \E p \in P : f[p] = s
  BY <1>2, <1>3, <1>7
<1>9. \A p, q \in P : f[p] = f[q] => p = q
  BY <1>5, <1>7
<1>10. f \in Bijection(P, S)
  <2>1. f \in [P -> S]
    BY <1>6, <1>7
  <2> QED BY <2>1, <1>8, <1>9 DEF Bijection, Injection, Surjection, IsInjective
<1> QED BY <1>10, FS_Bijection DEF Apart, ExistsBijection

(* Every copy at work carries exactly the template's steps, with the names   *)
(* and the dependencies they have now, whatever saves and additions overlap: *)
(* the creating transaction takes what it read, and a save rewrites every    *)
(* copy it reaches.  Those built from steps already replaced, or that a save *)
(* has passed by since, are apart until the next one.                        *)
THEOREM CopiesFollowTheTemplate == Spec => []CopiesCarryTheSteps
<1>1. CarryInv => CopiesCarryTheSteps
  <2> SUFFICES ASSUME CarryInv, NEW c \in DOMAIN copies, ~copies[c].behind
               PROVE  /\ Cardinality(copies[c].phases) = Cardinality(steps)
                      /\ {<<p.source, p.name>> : p \in copies[c].phases}
                             = {<<s.id, s.name>> : s \in steps}
                      /\ Leads(copies[c]) = stepDeps
    BY DEF CopiesCarryTheSteps
  <2>1. Apart(copies[c].phases) /\ StandFor(copies[c].phases, steps) /\ Leads(copies[c]) = stepDeps
    BY DEF CarryInv, CopiesInv, GoodCopies, GoodCopy
  <2>2. Rows(steps) /\ New \notin Ids(steps)
    BY TemplateIds DEF CarryInv, TemplateInv
  <2> QED BY <2>1, <2>2, AsManyAsSteps DEF StandFor
<1> QED BY <1>1, CarryInvariant, PTL

(* The phase of a step is not claimed by another: the steps before it have   *)
(* phases of their own.                                                      *)
LEMMA KeptPhaseIsClaimed ==
    ASSUME NEW S, NEW P, NEW s \in S, NEW p \in P, p.source = s.id,
           \A q \in P : q.source = s.id => q = p,
           \A t \in S : t.id = s.id => t = s,
           \A t \in S : Before(t, s) => t # s /\ \E q \in P : q.source = t.id
    PROVE  Claimed(P, S, s) = {p}
<1>1. Matched(P, s) = {p}
  <2>1. {q \in P : q.source = s.id} = {p}
    OBVIOUS
  <2> QED BY <2>1 DEF Matched
<1>2. ASSUME NEW t \in S, Before(t, s) PROVE p \notin Matched(P, t)
  <2>1. {q \in P : q.source = t.id} # {}
    BY <1>2
  <2>2. Matched(P, t) = {q \in P : q.source = t.id}
    BY <2>1 DEF Matched
  <2>3. t.id # s.id
    BY <1>2
  <2> QED BY <2>2, <2>3
<1> QED BY <1>1, <1>2 DEF Claimed

(* And who claims it leaves it its dot.                                      *)
LEMMA KeptPhaseStays ==
    ASSUME NEW S, NEW P, P \in SUBSET Phase, NEW s \in S, NEW p \in P, p.source = s.id,
           Claimed(P, S, s) = {p}
    PROVE  \E q \in Synced(P, S) : q.id = p.id /\ q.source = p.source /\ q.at = p.at
<1>1. PICK q : q = [p EXCEPT !.name = s.name, !.source = s.id]
  OBVIOUS
<1>2. p \in Phase
  OBVIOUS
<1>3. q.id = p.id /\ q.source = p.source /\ q.at = p.at
  BY <1>1, <1>2 DEF Phase
<1>4. StandsFor(P, S, s) = {q}
  <2>1. {[x EXCEPT !.name = s.name, !.source = s.id] : x \in {p}} = {q}
    BY <1>1
  <2> QED BY <2>1 DEF StandsFor
<1>5. q \in Synced(P, S)
  BY <1>4 DEF Synced
<1> QED BY <1>3, <1>5

(* Only its own commit ends a save.                                          *)
LEMMA OnlyItsCommit ==
    ASSUME CarryInv, [Next]_vars, NEW r \in Request, op[r].step = "saving", op'[r].step = "idle"
    PROVE  SaveWrite(r)
<1>1. op \in [Request -> InFlight]
  BY DEF CarryInv, RequestsInv
<1>2. op' # op
  OBVIOUS
<1>3. PICK q \in Request :
         \/ AddBegin(q) \/ AddNext(q) \/ AddJoin(q) \/ AddCreate(q) \/ AddFails(q)
         \/ RemoveRead(q) \/ RemoveCommit(q) \/ SaveRead(q) \/ SaveWrite(q)
         \/ SetLifecycle(q) \/ ToggleArchived(q) \/ Progress(q)
  BY <1>2 DEF Next, vars
<1>4. \/ op[q].step \in {"adding", "joining", "building", "removing", "idle"}
      \/ SaveWrite(q)
  BY <1>3 DEF AddBegin, AddNext, AddJoin, AddCreate, AddFails, RemoveRead, RemoveCommit, SaveRead,
              SetLifecycle, ToggleArchived, Progress, Begin, Ready
<1>5. \A x \in Request : x # q => op'[x] = op[x]
  <2>1. CASE AddBegin(q) \/ RemoveRead(q) \/ SaveRead(q) \/ SetLifecycle(q) \/ ToggleArchived(q) \/ Progress(q)
    <3>1. \E o : op' = [op EXCEPT ![q] = o]
      BY <2>1 DEF AddBegin, RemoveRead, SaveRead, SetLifecycle, ToggleArchived, Progress, Begin
    <3> QED BY <1>1, <3>1
  <2>2. CASE RemoveCommit(q) \/ SaveWrite(q) \/ AddFails(q)
    BY <1>1, <2>2 DEF RemoveCommit, SaveWrite, AddFails, Finish
  <2>3. CASE AddNext(q)
    BY <1>1, <2>3 DEF AddNext, Finish
  <2>4. CASE AddJoin(q)
    BY <1>1, <2>4 DEF AddJoin
  <2>5. CASE AddCreate(q)
    <3>1. \E o : op' = [op EXCEPT ![q] = o]
      BY <2>5 DEF AddCreate, Finish
    <3> QED BY <1>1, <3>1
  <2> QED BY <1>3, <2>1, <2>2, <2>3, <2>4, <2>5
<1>6. q = r
  BY <1>5
<1> QED BY <1>4, <1>6

(* What the save keeps of one copy.                                          *)
LEMMA SaveKeeps ==
    ASSUME CarryInv, NEW r \in Request, SaveWrite(r), op[r].read = steps,
           NEW c \in DOMAIN copies, Live(copies[c]), ~copies[c].behind,
           NEW p \in copies[c].phases, p.source \in Ids(steps')
    PROVE  \E q \in copies'[c].phases : q.id = p.id /\ q.source = p.source /\ q.at = p.at
<1>1. CASE UNCHANGED <<steps, stepDeps, nextStep, copies>>
  BY <1>1
<1>2. CASE ~UNCHANGED <<steps, stepDeps, nextStep, copies>>
  <2>1. PICK S : S = Saved(op[r])
    OBVIOUS
  <2>2. PICK F : F = SavedDeps(op[r], S)
    OBVIOUS
  <2>3. /\ HoldsDraft(op[r]) /\ nextStep <= MaxStep
        /\ Ids(op[r].draft) \ {New} \subseteq Ids(steps)
        /\ steps' = S
        /\ LET left == Forgotten(copies[c].phases, Ids(steps) \ Ids(S)) IN
           copies'[c] = Resynced(copies[c], Synced(left, S), F)
    BY <1>2, <2>1, <2>2, SaveMakes
  <2>4. Rows(S) /\ \A s, t \in S : s.id \in Ids(steps) /\ Before(t, s) => t.id \in Ids(steps)
    BY <2>1, <2>3, SavedIs DEF CarryInv
  <2>5. /\ copies[c] \in Copy /\ Apart(copies[c].phases) /\ StandFor(copies[c].phases, steps)
    BY DEF CarryInv, CopiesInv, GoodCopies, GoodCopy
  <2>6. PICK P, gone, left :
          P = copies[c].phases /\ gone = Ids(steps) \ Ids(S) /\ left = Forgotten(P, gone)
    OBVIOUS
  <2>7. PICK s \in S : p.source = s.id
    BY <2>3 DEF Ids
  <2>8. p \in P /\ p.source \in Ids(steps)
    BY <2>5, <2>6, StandForIds
  <2>9. /\ Apart(left) /\ p \in left
        /\ \A q \in P : q.source \notin gone => q \in left
    BY <2>3, <2>5, <2>6, <2>8, ForgottenIs
  <2>10. p.source # None
    BY <2>8, TemplateIds DEF CarryInv
  <2>11. Claimed(left, S, s) = {p}
    <3>1. \A q \in left : q.source = s.id => q = p
      BY <2>7, <2>9, <2>10 DEF Apart
    <3>2. \A t \in S : t.id = s.id => t = s
      BY <2>4 DEF Rows
    <3>3. ASSUME NEW t \in S, Before(t, s) PROVE t # s /\ \E q \in left : q.source = t.id
      <4>1. t.id \in Ids(steps) /\ t.id \in Ids(S)
        BY <2>4, <2>7, <2>8, <3>3 DEF Ids
      <4>2. \E q \in P : q.source = t.id
        BY <2>5, <2>6, <4>1, StandForIds
      <4>3. t # s
        <5>1. s.id \in Int /\ s.sortOrder \in Nat
          BY <2>4, StepFields DEF Rows
        <5> QED BY <3>3, <5>1 DEF Before
      <4> QED BY <2>6, <2>9, <4>1, <4>2, <4>3
    <3> QED BY <2>7, <2>9, <3>1, <3>2, <3>3, KeptPhaseIsClaimed
  <2>12. \E q \in Synced(left, S) : q.id = p.id /\ q.source = p.source /\ q.at = p.at
    BY <2>7, <2>9, <2>11, KeptPhaseStays DEF Apart
  <2>13. copies'[c].phases = Synced(left, S)
    <3>1. PICK Q : Q = Synced(left, S)
      OBVIOUS
    <3>2. copies'[c] = Resynced(copies[c], Q, F)
      BY <2>3, <2>6, <3>1
    <3>3. Resynced(copies[c], Q, F).phases = Q
      BY <2>5 DEF Resynced, Copy
    <3> QED BY <3>1, <3>2, <3>3
  <2> QED BY <2>12, <2>13
<1> QED BY <1>1, <1>2

(* A save that saw the steps as they are takes no work from a step it keeps, *)
(* whatever it renames: the phase that stood for the step before stands for  *)
(* it afterwards, with its dot, and no namesake takes it away.               *)
THEOREM SavesKeepTheWork == Spec => KeptStepsKeepTheirWork
<1> DEFINE Kept(r, c) ==
        /\ op[r].step = "saving" /\ op'[r].step = "idle" /\ op[r].read = steps
        /\ Live(copies[c]) /\ ~copies[c].behind
        => \A p \in copies[c].phases :
               p.source \in Ids(steps') =>
                   \E q \in copies'[c].phases :
                       q.id = p.id /\ q.source = p.source /\ q.at = p.at
<1>1. CarryInv /\ [Next]_vars => [\A r \in Request, c \in DOMAIN copies : Kept(r, c)]_vars
  <2> SUFFICES ASSUME CarryInv, [Next]_vars, NEW r \in Request, NEW c \in DOMAIN copies,
                      op[r].step = "saving", op'[r].step = "idle", op[r].read = steps,
                      Live(copies[c]), ~copies[c].behind,
                      NEW p \in copies[c].phases, p.source \in Ids(steps')
               PROVE  \E q \in copies'[c].phases :
                          q.id = p.id /\ q.source = p.source /\ q.at = p.at
    OBVIOUS
  <2>1. SaveWrite(r)
    BY OnlyItsCommit
  <2> QED BY <2>1, SaveKeeps
<1>2. Spec => [][\A r \in Request, c \in DOMAIN copies : Kept(r, c)]_vars
  BY <1>1, CarryInvariant, PTL DEF Spec
<1> QED BY <1>2 DEF KeptStepsKeepTheirWork
=============================================================================
