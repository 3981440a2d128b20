----------------------------- MODULE Escalation -----------------------------
(***************************************************************************)
(* Escalations: raised by hand or from a Chat thread, edited, closed and   *)
(* re-opened by any number of requests at a time, announced to the thread  *)
(* they came from after the response, and detached from the programs,      *)
(* partners and threads that other actions delete (actions/escalations,    *)
(* lib/chatEvents, lib/escalationPostBack, programs/[id]/actions,          *)
(* actions/partners).                                                      *)
(*                                                                         *)
(* A request is a slot: it serves one action, with an await between any    *)
(* two of its steps, and then runs what the action scheduled with after(). *)
(* A transaction is one step, but for the deletion of a program, whose     *)
(* first two statements read different snapshots.  The three roles of an   *)
(* escalation behave alike and are one here; a subject is a partner or a   *)
(* program.                                                                *)
(***************************************************************************)
EXTENDS Naturals, FiniteSets

CONSTANTS
    Partner, Program,   \* what an escalation can be about
    Thread,             \* Chat threads of the space the app is in
    Person, NoOne,      \* who can own an escalation
    Request,            \* server requests that can be in flight together
    Ending,             \* the terminal statuses looked at
    NoRow, NoThread,
    chatConfigured,     \* whether this deployment has a Chat app
    MaxId,              \* bound: escalations ever created
    MaxRequests,        \* bound: requests ever started
    MaxFaults           \* bound: instances killed

ASSUME EscalationAssumption ==
    /\ Ending \subseteq {"resolved", "duplicate", "addressed", "obsolete"}
    /\ Partner \cap Program = {} /\ NoOne \notin Person /\ NoThread \notin Thread
    /\ chatConfigured \in BOOLEAN /\ MaxId \in Nat /\ MaxRequests \in Nat /\ MaxFaults \in Nat

VARIABLES
    escalation,  \* Id -> the row, or NoRow
    thread,      \* Thread -> what its ContextUrl was classified as, or NoRow
    alive,       \* the partners and programs that exist
    op,          \* Request -> what it is doing, with what it has read
    nextId, clock, faults, requests,
    \* what happened, for the properties
    raced,       \* escalations on which two status changes overlapped
    extra,       \* Thread -> openings that no duplicate check could see
    vague,       \* escalations that have lost their subject in a known way
    post         \* Id -> what became of the posts to the thread

vars == <<escalation, thread, alive, op, nextId, clock, faults, requests,
          raced, extra, vague, post>>
history == <<raced, extra, vague, post>>

Id == 1 .. MaxId
NoId == 0
Subject == Partner \cup Program
Status == Ending \cup {"open"}
Outcome == {"delivered", "refused"}

(* A partner and/or a program: each is one column of the row.              *)
AtMostOne(a) == \A s, u \in a : s = u
About == {a \in SUBSET Subject : AtMostOne(a \cap Partner) /\ AtMostOne(a \cap Program)}

Row == [status : Status, closedAt : Nat, original : Id \cup {NoId}, about : About,
        owner : Person \cup {NoOne}, kind : {"chat", "manual"}, thread : Thread \cup {NoThread},
        told : BOOLEAN, badge : BOOLEAN]

(* Of the posts about an escalation: whether one was delivered, how the    *)
(* latest ended, whether two overlapped, whether a kill ate an answer.     *)
Post == [told : BOOLEAN, latest : Outcome \cup {"none"}, crossed : BOOLEAN, lost : BOOLEAN]
NoPost == [told |-> FALSE, latest |-> "none", crossed |-> FALSE, lost |-> FALSE]

Idle == [step |-> "idle"]
Local ==
    [step : {"idle"}]
    \cup [step : {"revise"}, thread : Thread]
    \cup [step : {"ingest"}, thread : Thread]
    \cup [step : {"save"}, thread : Thread, about : About]
    \cup [step : {"raise"}, thread : Thread \cup {NoThread}]
    \cup [step : {"create"}, thread : Thread \cup {NoThread}, about : About]
    \cup [step : {"edit"}, id : Id, before : Person \cup {NoOne}]
    \cup [step : {"status"}, id : Id, status : Status, original : Id \cup {NoId}]
    \cup [step : {"announce"}, id : Id]
    \cup [step : {"record"}, id : Id, outcome : Outcome]
    \cup [step : {"delete"}, partner : Partner, only : SUBSET Id]
    \cup [step : {"erase"}, program : Program, gone : SUBSET Id, only : SUBSET Id]

Live == {id \in Id : escalation[id] # NoRow}
IsOpen(id) == id \in Live /\ escalation[id].status = "open"
On(t) == {id \in Live : escalation[id].thread = t}

Init ==
    /\ escalation = [id \in Id |-> NoRow]
    /\ thread = [t \in Thread |-> NoRow]
    /\ alive = Subject
    /\ op = [r \in Request |-> Idle]
    /\ nextId = 1 /\ clock = 0 /\ faults = 0 /\ requests = 0
    /\ raced = {} /\ vague = {}
    /\ extra = [t \in Thread |-> 0]
    /\ post = [id \in Id |-> NoPost]

Becomes(r, l) == op' = [op EXCEPT ![r] = l]

(* A request arrives and leaves its first step behind.                     *)
Arrives(r) ==
    /\ op[r] = Idle /\ requests < MaxRequests
    /\ requests' = requests + 1

Starts(r, l) == Arrives(r) /\ Becomes(r, l)

At(r, step) == op[r].step = step

(* A column that names a row which is gone is refused by its foreign key.  *)
References(about, t, original) ==
    /\ about \subseteq alive
    /\ t \in Thread => thread[t] # NoRow
    /\ original # NoId => original \in Live

(* What a deletion of a program has deleted or cleared without having      *)
(* committed: whoever would write or reference these rows waits for it.    *)
Locked(r) ==
    LET gone == UNION {op[q].gone : q \in {p \in Request \ {r} : At(p, "erase")}} IN
    gone \cup {id \in Live : escalation[id].original \in gone}

Waits(r, ids) == Locked(r) \cap ids # {}

-----------------------------------------------------------------------------
(* Creation. *)

Fresh(about, kind, t) ==
    [status |-> "open", closedAt |-> 0, original |-> NoId, about |-> about, owner |-> NoOne,
     kind |-> kind, thread |-> t, told |-> FALSE, badge |-> FALSE]

Insert(row) ==
    /\ nextId <= MaxId
    /\ escalation' = [escalation EXCEPT ![nextId] = row]
    /\ nextId' = nextId + 1

(* "closedAt is DERIVED from the new status": closing stamps it, re-opening*)
(* clears it.                                                              *)
Moved(row, status, original, now) ==
    [row EXCEPT !.status = status, !.original = original,
                !.closedAt = IF status = "open" THEN 0 ELSE now]

(* createEscalation: a form, hence about something.                        *)
CreateEscalation(r) ==
    \E about \in About \ {{}} :
        /\ References(about, NoThread, NoId)
        /\ Starts(r, Idle)
        /\ Insert(Fresh(about, "manual", NoThread))
        /\ UNCHANGED <<thread, alive, clock, faults, history>>

(* POST /api/escalations, which the seeds use to file what came from Chat, *)
(* closed ones included.                                                   *)
PostEscalation(r) ==
    \E about \in About \ {{}}, t \in Thread \cup {NoThread}, status \in Status, original \in Id \cup {NoId} :
        /\ (status = "duplicate") = (original # NoId)
        /\ References(about, t, original) /\ ~Waits(r, {original})
        /\ Starts(r, Idle)
        /\ clock' = clock + 1
        /\ Insert(Moved(Fresh(about, "chat", t), status, original, clock'))
        /\ extra' = [u \in Thread |-> IF u = t /\ status = "open" THEN extra[u] + 1 ELSE extra[u]]
        /\ UNCHANGED <<thread, alive, faults, raced, vague, post>>

Triggers(t) == {r \in Request : (At(r, "raise") \/ At(r, "create")) /\ op[r].thread = t}

(* With its thread saved, a message that says "escalate" goes on; any other*)
(* ends here.                                                              *)
Raises(r, t) ==
    \/ /\ Becomes(r, [step |-> "raise", thread |-> t])
       /\ extra' = IF Triggers(t) = {} THEN extra ELSE [extra EXCEPT ![t] = @ + 1]
    \/ Becomes(r, Idle) /\ UNCHANGED extra

(* What the ingest answers to whoever finds the thread saved by another    *)
(* since: a duplicate, without the id of the row.                          *)
Duplicate(r) == Becomes(r, [step |-> "raise", thread |-> NoThread]) /\ UNCHANGED extra

(* A mention in a thread saves the thread first (snapshotThread).  One that*)
(* is saved is left alone when it reads the same, else summarized again.   *)
Mention(r) ==
    \E t \in Thread :
        /\ Arrives(r)
        /\ \/ thread[t] # NoRow /\ Raises(r, t)
           \/ thread[t] # NoRow /\ Becomes(r, [step |-> "revise", thread |-> t]) /\ UNCHANGED extra
           \/ thread[t] = NoRow /\ Becomes(r, [step |-> "ingest", thread |-> t]) /\ UNCHANGED extra
        /\ UNCHANGED <<escalation, thread, alive, nextId, clock, faults, raced, vague, post>>

(* The summary is written on the row by its id.                            *)
Revise(r) ==
    /\ At(r, "revise")
    /\ Raises(r, op[r].thread)
    /\ UNCHANGED <<escalation, thread, alive, nextId, clock, faults, requests, raced, vague, post>>

(* ingestContent looks again, then has the thread summarized and classified*)
(* under at most one of the programs and partners there are; the provider  *)
(* may refuse.                                                             *)
Classify(r) ==
    /\ At(r, "ingest")
    /\ LET t == op[r].thread IN
       \/ thread[t] # NoRow /\ Duplicate(r)
       \/ thread[t] = NoRow /\ Becomes(r, Idle) /\ UNCHANGED extra
       \/ /\ thread[t] = NoRow
          /\ \E about \in {{}} \cup {{s} : s \in alive} :
                Becomes(r, [step |-> "save", thread |-> t, about |-> about])
          /\ UNCHANGED extra
    /\ UNCHANGED <<escalation, thread, alive, nextId, clock, faults, requests, raced, vague, post>>

(* The insert: refused when the thread was saved since (its sourceRef is   *)
(* unique), or when what it was classified under is gone.                  *)
SaveThread(r) ==
    /\ At(r, "save")
    /\ LET t == op[r].thread
           about == op[r].about IN
       \/ thread[t] # NoRow /\ Duplicate(r) /\ UNCHANGED thread
       \/ ~(about \subseteq alive) /\ Becomes(r, Idle) /\ UNCHANGED <<thread, extra>>
       \/ /\ thread[t] = NoRow /\ about \subseteq alive
          /\ thread' = [thread EXCEPT ![t] = about]
          /\ Raises(r, t)
    /\ UNCHANGED <<escalation, alive, nextId, clock, faults, requests, raced, vague, post>>

(* A plausible bug: the check looks for what the thread is classified as.  *)
OpenAboutIt(t) == {id \in On(t) : IsOpen(id) /\ escalation[id].about = thread[t]}

OpenOn(t) == {id \in On(t) : IsOpen(id)}

(* raiseEscalation reads the saved thread; if it still is there and has an *)
(* open escalation, the reply names that one.  Without the id of a thread  *)
(* there is no check.                                                      *)
RaiseCheck(r) ==
    /\ At(r, "raise")
    /\ LET t == op[r].thread IN
       \/ /\ t = NoThread
          /\ Becomes(r, [step |-> "create", thread |-> NoThread, about |-> {}])
       \/ /\ t # NoThread /\ thread[t] # NoRow /\ OpenOn(t) = {}
          /\ Becomes(r, [step |-> "create", thread |-> t, about |-> thread[t]])
       \/ /\ t # NoThread /\ OpenOn(t) # {}
          /\ Becomes(r, Idle)
    /\ UNCHANGED <<escalation, thread, alive, nextId, clock, faults, requests, history>>

(* ... and creates one about whatever the thread was classified as.        *)
RaiseCreate(r) ==
    /\ At(r, "create")
    /\ Becomes(r, Idle)
    /\ Insert(Fresh(op[r].about, "chat", op[r].thread))
    /\ vague' = IF op[r].about = {} THEN vague \cup {nextId} ELSE vague
    /\ UNCHANGED <<thread, alive, clock, faults, requests, raced, extra, post>>

-----------------------------------------------------------------------------
(* Editing and closing. *)

(* updateEscalation reads the roles before it writes.                      *)
EditRead(r) ==
    \E id \in Live :
        /\ Starts(r, [step |-> "edit", id |-> id, before |-> escalation[id].owner])
        /\ UNCHANGED <<escalation, thread, alive, nextId, clock, faults, history>>

(* The form is about something; a role that moved since the read is        *)
(* announced after the response.                                           *)
EditWrite(r) ==
    /\ At(r, "edit") /\ ~Waits(r, {op[r].id})
    /\ LET id == op[r].id IN
       \/ \E about \in About \ {{}}, owner \in Person \cup {NoOne} :
             /\ id \in Live /\ References(about, NoThread, NoId)
             /\ escalation' = [escalation EXCEPT ![id].about = about, ![id].owner = owner]
             /\ vague' = vague \ {id}
             /\ Becomes(r, IF op[r].before = owner THEN Idle ELSE [step |-> "announce", id |-> id])
       \/ /\ id \notin Live \/ alive # Subject
          /\ Becomes(r, Idle)
          /\ UNCHANGED <<escalation, vague>>
    /\ UNCHANGED <<thread, alive, nextId, clock, faults, requests, raced, extra, post>>

(* lib/escalation: open to any ending, any ending to open, nothing else.   *)
CanTransition(from, to) == from # to /\ (from = "open" \/ to = "open")

Changing(id) == {r \in Request : At(r, "status") /\ op[r].id = id}

(* setEscalationStatus: the rule is checked against the status read here.  *)
StatusRead(r) ==
    \E id \in Live, status \in Status, original \in Id \cup {NoId} :
        /\ CanTransition(escalation[id].status, status)
        /\ (status = "duplicate") = (original # NoId)
        /\ original # id
        /\ Starts(r, [step |-> "status", id |-> id, status |-> status, original |-> original])
        /\ raced' = IF Changing(id) = {} THEN raced ELSE raced \cup {id}
        /\ UNCHANGED <<escalation, thread, alive, nextId, clock, faults, extra, vague, post>>

(* ... and the row is updated by id, whatever its status is by then.       *)
StatusWrite(r) ==
    /\ At(r, "status") /\ ~Waits(r, {op[r].id, op[r].original})
    /\ LET l == op[r] IN
       \/ /\ l.id \in Live /\ References({}, NoThread, l.original)
          /\ clock' = clock + 1
          /\ escalation' = [escalation EXCEPT ![l.id] = Moved(@, l.status, l.original, clock')]
          /\ extra' = [t \in Thread |->
                IF l.status = "open" /\ escalation[l.id].thread = t THEN extra[t] + 1 ELSE extra[t]]
          /\ Becomes(r, [step |-> "announce", id |-> l.id])
       \/ /\ l.id \notin Live \/ ~References({}, NoThread, l.original)
          /\ Becomes(r, Idle)
          /\ UNCHANGED <<escalation, clock, extra>>
    /\ UNCHANGED <<thread, alive, nextId, faults, requests, raced, vague, post>>

-----------------------------------------------------------------------------
(* The post-back to the thread, after the response. *)

Posting(id) == {r \in Request : At(r, "record") /\ op[r].id = id}

(* postEscalationChange reads where to post, and posts; an escalation that *)
(* did not come from Chat, or whose thread is gone, has nowhere to post,   *)
(* and a deployment without a Chat app skips.                              *)
Announce(r) ==
    /\ At(r, "announce")
    /\ LET id == op[r].id
           Reachable == chatConfigured /\ id \in Live
                        /\ escalation[id].kind = "chat" /\ escalation[id].thread # NoThread IN
       \/ ~Reachable /\ Becomes(r, Idle) /\ UNCHANGED post
       \/ /\ Reachable
          /\ \E outcome \in Outcome :
                /\ Becomes(r, [step |-> "record", id |-> id, outcome |-> outcome])
                /\ post' = [post EXCEPT ![id].latest = outcome,
                                        ![id].told = @ \/ outcome = "delivered",
                                        ![id].crossed = @ \/ Posting(id) # {}]
    /\ UNCHANGED <<escalation, thread, alive, nextId, clock, faults, requests,
                   raced, extra, vague>>

(* A plausible bug: a success leaves the error of an earlier attempt.      *)
RecordedKeepingError(row, outcome) ==
    [row EXCEPT !.told = @ \/ outcome = "delivered", !.badge = @ \/ outcome = "refused"]

(* A success stamps the delivery and clears the error, a failure sets it.  *)
Recorded(row, outcome) ==
    [row EXCEPT !.told = @ \/ outcome = "delivered", !.badge = outcome = "refused"]

Record(r) ==
    /\ At(r, "record") /\ ~Waits(r, {op[r].id})
    /\ Becomes(r, Idle)
    /\ LET l == op[r] IN
       \/ l.id \in Live /\ escalation' = [escalation EXCEPT ![l.id] = Recorded(@, l.outcome)]
       \/ l.id \notin Live /\ UNCHANGED escalation
    /\ UNCHANGED <<thread, alive, nextId, clock, faults, requests, history>>

-----------------------------------------------------------------------------
(* What other parts delete. *)

(* A plausible bug: only open escalations are counted and deleted.         *)
AboutOnlyOpen(s) == {id \in Live : escalation[id].about = {s} /\ IsOpen(id)}

AboutOnly(s) == {id \in Live : escalation[id].about = {s}}
Filed(s) == {t \in Thread : thread[t] # NoRow /\ s \in thread[t]}

(* The rows when subjects ss, threads ts and escalations gone are deleted: *)
(* every column that named one of them is set to null.                     *)
Detached(ss, ts, gone) ==
    [id \in Id |->
        IF id \notin Live \ gone THEN NoRow
        ELSE [escalation[id] EXCEPT
                !.about = @ \ ss,
                !.thread = IF @ \in ts THEN NoThread ELSE @,
                !.original = IF @ \in gone THEN NoId ELSE @]]

(* Mentions that hold the id of a thread row that is deleted: one that is  *)
(* about to read it finds nothing, one that writes it or refers to it is   *)
(* refused.                                                                *)
Forgotten(o, ts) ==
    CASE o.step = "raise" /\ o.thread \in ts -> [o EXCEPT !.thread = NoThread]
      [] o.step \in {"revise", "create"} /\ o.thread \in ts -> Idle
      [] OTHER -> o

DeletesThreads(r, ts) == op' = [q \in Request |-> IF q = r THEN Idle ELSE Forgotten(op[q], ts)]

Without(ts) == [t \in Thread |-> IF t \in ts THEN NoRow ELSE thread[t]]

Referrers(ids) == {id \in Live : escalation[id].original \in ids}

(* deleteProject: its first statement deletes the escalations about this   *)
(* program alone,                                                          *)
DeleteProjectBegin(r) ==
    \E g \in Program \cap alive :
        /\ ~Waits(r, AboutOnly(g) \cup Referrers(AboutOnly(g)))
        /\ Starts(r, [step |-> "erase", program |-> g, gone |-> AboutOnly(g),
                      only |-> {id \in Live : escalation[id].about = {g}}])
        /\ UNCHANGED <<escalation, thread, alive, nextId, clock, faults, history>>

(* ... the later ones detach what names it by then and delete it.  Whoever *)
(* finds the program gone, or deadlocks with another deletion, rolls back. *)
DeleteProjectCommit(r) ==
    /\ At(r, "erase")
    /\ LET g == op[r].program
           gone == op[r].gone
           Blocked == Waits(r, {id \in Live : g \in escalation[id].about
                                             \/ escalation[id].thread \in Filed(g)}) IN
       \/ /\ g \in alive /\ ~Blocked
          /\ DeletesThreads(r, Filed(g))
          /\ escalation' = Detached({g}, Filed(g), gone)
          /\ thread' = Without(Filed(g))
          /\ alive' = alive \ {g}
          /\ vague' = vague \cup {id \in Live \ gone : escalation[id].about = {g} /\ id \notin op[r].only}
       \/ /\ g \notin alive \/ Blocked
          /\ Becomes(r, Idle)
          /\ UNCHANGED <<escalation, thread, alive, vague>>
    /\ UNCHANGED <<nextId, clock, faults, requests, raced, extra, post>>

(* deletePartner counts what blocks it: an escalation about nothing else.  *)
(* (Programs and people block it too; the programs here are of partners    *)
(* that are not deleted.)                                                  *)
DeletePartnerRead(r) ==
    \E p \in Partner \cap alive :
        /\ AboutOnly(p) = {}
        /\ Starts(r, [step |-> "delete", partner |-> p,
                      only |-> {id \in Live : escalation[id].about = {p}}])
        /\ UNCHANGED <<escalation, thread, alive, nextId, clock, faults, history>>

(* ... and deletes the partner in a transaction that does not count again. *)
DeletePartnerCommit(r) ==
    /\ At(r, "delete")
    /\ LET p == op[r].partner
           Now == {id \in Live : escalation[id].about = {p}} IN
       \/ /\ p \in alive
          /\ ~Waits(r, {id \in Live : p \in escalation[id].about \/ escalation[id].thread \in Filed(p)})
          /\ DeletesThreads(r, Filed(p))
          /\ escalation' = Detached({p}, Filed(p), {})
          /\ thread' = Without(Filed(p))
          /\ alive' = alive \ {p}
          /\ vague' = vague \cup (Now \ op[r].only)
       \/ p \notin alive /\ Becomes(r, Idle) /\ UNCHANGED <<escalation, thread, alive, vague>>
    /\ UNCHANGED <<nextId, clock, faults, requests, raced, extra, post>>

(* deleteUpdate on the card of the thread.                                 *)
DeleteThread(r) ==
    \E t \in Thread :
        /\ thread[t] # NoRow /\ ~Waits(r, On(t))
        /\ Arrives(r)
        /\ DeletesThreads(r, {t})
        /\ escalation' = Detached({}, {t}, {})
        /\ thread' = Without({t})
        /\ UNCHANGED <<alive, nextId, clock, faults, history>>

(* The instance goes, and with it whatever this request had left to do: a  *)
(* deletion that has not committed is rolled back.                         *)
Kill(r) ==
    /\ op[r] # Idle /\ faults < MaxFaults
    /\ faults' = faults + 1
    /\ Becomes(r, Idle)
    /\ post' = IF At(r, "record") THEN [post EXCEPT ![op[r].id].lost = TRUE] ELSE post
    /\ UNCHANGED <<escalation, thread, alive, nextId, clock, requests, raced, extra, vague>>

-----------------------------------------------------------------------------

Next ==
    \E r \in Request :
        \/ CreateEscalation(r) \/ PostEscalation(r)
        \/ Mention(r) \/ Revise(r) \/ Classify(r) \/ SaveThread(r)
        \/ RaiseCheck(r) \/ RaiseCreate(r)
        \/ EditRead(r) \/ EditWrite(r) \/ StatusRead(r) \/ StatusWrite(r)
        \/ Announce(r) \/ Record(r)
        \/ DeleteProjectBegin(r) \/ DeleteProjectCommit(r)
        \/ DeletePartnerRead(r) \/ DeletePartnerCommit(r) \/ DeleteThread(r)
        \/ Kill(r)

Spec == Init /\ [][Next]_vars

-----------------------------------------------------------------------------

(* Everything has its type, and an escalation is stamped as closed exactly *)
(* while its status is an ending ("closedAt is DERIVED from the status").  *)
TypeOK ==
    /\ escalation \in [Id -> Row \cup {NoRow}]
    /\ thread \in [Thread -> About \cup {NoRow}]
    /\ alive \subseteq Subject
    /\ op \in [Request -> Local]
    /\ nextId \in 1 .. MaxId + 1 /\ clock \in Nat
    /\ faults \in 0 .. MaxFaults /\ requests \in 0 .. MaxRequests
    /\ raced \subseteq Id /\ vague \subseteq Id
    /\ extra \in [Thread -> Nat] /\ post \in [Id -> Post]
    /\ \A id \in Live : escalation[id].closedAt = 0 <=> IsOpen(id)

(* A closed escalation keeps the way and the time it ended until it is     *)
(* re-opened (canTransition: re-classifying in place "would silently       *)
(* rewrite the record of how it ended"), unless two status changes of it   *)
(* overlapped: the update is by id alone.                                  *)
EndingsAreKept ==
    [][\A id \in Id \ raced' :
          (id \in Live /\ escalation'[id] # NoRow) =>
              LET was == escalation[id]
                  is == escalation'[id] IN
              (was.status # "open" /\ is.status # "open") =>
                  was.status = is.status /\ was.closedAt = is.closedAt]_vars

(* Only one escalation of a thread is open (schema.prisma, on contextUrlId)*)
(* up to those that the duplicate check of a trigger could not see: two    *)
(* triggers that overlap, one re-opened, one posted by a seed.             *)
OneOpenPerThread == \A t \in Thread : Cardinality({id \in On(t) : IsOpen(id)}) <= 1 + extra[t]

(* An escalation is about something (schemas.ts, ABOUT_SOMETHING), through *)
(* every deletion of a program or a partner, unless                        *)
(*   - the thread it came from was classified as nothing;                  *)
(*   - another mention saved the thread first, and the reply to this one   *)
(*     was a duplicate without an id; or                                   *)
(*   - it became about a partner alone while that partner's deletion was   *)
(*     past its count of blockers, or about a program alone while that     *)
(*     program's deletion was past its first statement.                    *)
AboutSomething == \A id \in Live \ vague : escalation[id].about # {}

(* Once no post is in flight, the row says a delivery was made if and only *)
(* if one was, and shows the badge if and only if the latest post was      *)
(* refused; the latter if posts did not overlap (lib/escalationPostBack on *)
(* the two delivery columns).                                              *)
DeliveryIsHonest ==
    \A id \in Live :
        (Posting(id) = {} /\ ~post[id].lost) =>
            /\ escalation[id].told = post[id].told
            /\ ~post[id].crossed => escalation[id].badge = (post[id].latest = "refused")
=============================================================================
