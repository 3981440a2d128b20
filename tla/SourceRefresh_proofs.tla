------------------------ MODULE SourceRefresh_proofs ------------------------
(* Theorems about SourceRefresh, for every set of sources, requests, texts *)
(* and digests and for every bound.                                        *)
EXTENDS SourceRefresh, SequenceTheorems, TLAPS

-----------------------------------------------------------------------------
(* What the steps are made of keeps the types. *)

(* A request that is done, whichever it was. *)
LEMMA IdleIsAJob == Idle \in Job /\ Holds(Idle)
  BY BoundAssumption DEF Idle, Job, Holds, Positions, Versions, Modes, Frozen

(* A step that only moves a request on. *)
LEMMA GotoKeepsTypes ==
    ASSUME TypeOK, NEW a \in Actor, NEW j \in Job, Holds(j), Goto(a, j),
           UNCHANGED <<remote, row, revisions, inserted>>, faults' \in 0 .. MaxFaults
    PROVE  TypeOK'
  BY DEF TypeOK, Goto, Holds

(* A step that ends a request. *)
LEMMA FinishKeepsTypes ==
    ASSUME TypeOK, NEW a \in Actor, Finish(a),
           UNCHANGED <<remote, row, revisions, inserted>>, faults' \in 0 .. MaxFaults
    PROVE  TypeOK'
  BY IdleIsAJob, GotoKeepsTypes DEF Finish

(* What refreshSource's caller does next is a job like any other. *)
LEMMA ReturnIsAJob ==
    ASSUME TypeOK, NEW a \in Actor, ~At(a, "idle"), Return(a)
    PROVE  \E j \in Job : Holds(j) /\ Goto(a, j)
<1>1. CASE a = Cron /\ Kind(Src(a)) = "drive"
  <2> DEFINE j == [job[a] EXCEPT !.at = "stamp"]
  <2>1. job[a] \in Job /\ job[a].src \in Source
    BY DEF TypeOK, Holds, At
  <2>2. j \in Job
    BY <2>1 DEF Job, Positions
  <2>3. Holds(j)
    BY <2>1, <2>2 DEF Job, Holds
  <2> QED BY <1>1, <2>2, <2>3 DEF Return
<1>2. CASE ~(a = Cron /\ Kind(Src(a)) = "drive")
  BY <1>2, IdleIsAJob DEF Return, Finish
<1> QED BY <1>1, <1>2

(* A step that writes the row and moves its request on. *)
LEMMA WriteKeepsTypes ==
    ASSUME TypeOK, NEW a \in Actor, ~At(a, "idle"), NEW r \in Row, Write(a, r),
           NEW j \in Job, Holds(j), Goto(a, j),
           revisions' \in [Source -> Seq(Revision)], inserted' \in Nat,
           UNCHANGED <<remote, faults>>
    PROVE  TypeOK'
  BY DEF TypeOK, Goto, Holds, Write, Src, At

(* A revision is appended to a history that stays one. *)
LEMMA RecordKeepsTypes ==
    ASSUME TypeOK, NEW a \in Actor, At(a, "commit"), Record(a, job[a].text)
    PROVE  revisions' \in [Source -> Seq(Revision)]
<1> DEFINE e == [hash |-> job[a].text, digest |-> job[a].digest,
                 status |-> DigestStatus[job[a].digest]]
<1>1. Src(a) \in Source /\ e \in Revision
  BY DigestAssumption DEF TypeOK, Holds, At, Src, Revision
<1>2. Append(revisions[Src(a)], e) \in Seq(Revision)
  BY <1>1, AppendProperties DEF TypeOK
<1> QED BY <1>1, <1>2 DEF Record, TypeOK

-----------------------------------------------------------------------------
(* Type correctness, action by action. *)

LEMMA InitTypes == Init => TypeOK
<1> SUFFICES ASSUME Init PROVE TypeOK
  OBVIOUS
<1>1. remote \in [Source -> Remote]
  BY SourceAssumption, BoundAssumption DEF Init, Remote, Access
<1>2. revisions \in [Source -> Seq(Revision)]
  BY EmptySeq DEF Init
<1>3. job \in [Actor -> Job] /\ \A a \in Actor : Holds(job[a])
  BY IdleIsAJob DEF Init
<1> QED BY <1>1, <1>2, <1>3, BoundAssumption DEF Init, TypeOK

LEMMA WorldTypes ==
    ASSUME TypeOK, NEW s \in Source, Edit(s) \/ SetAccess(s)
    PROVE  TypeOK'
<1>0. remote[s] \in Remote
  BY DEF TypeOK
<1>1. CASE Edit(s)
  <2>1. PICK t \in Text :
           remote' = [remote EXCEPT ![s].text = t, ![s].version = @ + 1,
                                    ![s].modified = remote[s].version + 1]
    BY <1>1 DEF Edit
  <2> DEFINE v == remote[s].version + 1
             n == [remote[s] EXCEPT !.text = t, !.version = v, !.modified = v]
  <2>0. remote[s].version < MaxVersion
    BY <1>1 DEF Edit
  <2>2. v \in 1 .. MaxVersion
    BY <1>0, <2>0, BoundAssumption DEF Remote
  <2>3. n \in Remote
    BY <1>0, <2>2 DEF Remote
  <2>4. remote' = [remote EXCEPT ![s] = n]
    BY <1>0, <2>1 DEF Remote, TypeOK
  <2>5. remote' \in [Source -> Remote]
    BY <2>3, <2>4 DEF TypeOK
  <2> QED BY <1>1, <2>5 DEF Edit, TypeOK
<1>2. CASE SetAccess(s)
  <2>1. PICK acc \in Access :
           remote' = [remote EXCEPT ![s].access = acc,
                                    ![s].version = IF Kind(s) = "drive" THEN @ + 1 ELSE @]
    BY <1>2 DEF SetAccess
  <2> DEFINE v == IF Kind(s) = "drive" THEN remote[s].version + 1 ELSE remote[s].version
             n == [remote[s] EXCEPT !.access = acc, !.version = v]
  <2>2. v \in 1 .. MaxVersion
    BY <1>0, <1>2, BoundAssumption DEF Remote, SetAccess
  <2>3. n \in Remote
    BY <1>0, <2>2 DEF Remote
  <2>4. remote' = [remote EXCEPT ![s] = n]
    BY <1>0, <2>1 DEF Remote, TypeOK
  <2>5. remote' \in [Source -> Remote]
    BY <2>3, <2>4 DEF TypeOK
  <2> QED BY <1>2, <2>5 DEF SetAccess, TypeOK
<1> QED BY <1>1, <1>2

(* Requests that start. *)
LEMMA StartTypes ==
    ASSUME TypeOK, NEW u \in User, NEW s \in Source,
           PasteLink(u, s) \/ RefreshNow(u, s) \/ Mention(u, s) \/ PauseClick(u, s)
               \/ ModeClick(u, s) \/ DeleteSource(u, s)
    PROVE  TypeOK'
<1> u \in Actor
  BY DEF Actor
<1>0. remote[s] \in Remote /\ (row[s] # NoRow => row[s] \in Row)
  BY DEF TypeOK
<1>1. CASE PasteLink(u, s)
  <2>1. PICK m \in Modes, v \in {0, remote[s].version} :
           Goto(u, [Idle EXCEPT !.at = "dedupe", !.src = s, !.text = remote[s].text,
                                !.version = v, !.mode = m])
    BY <1>1 DEF PasteLink
  <2> DEFINE j == [Idle EXCEPT !.at = "dedupe", !.src = s, !.text = remote[s].text,
                               !.version = v, !.mode = m]
  <2>2. v \in Versions
    BY <1>0, BoundAssumption DEF Remote, Versions
  <2>3. j \in Job /\ Holds(j)
    BY <1>0, <2>2, IdleIsAJob DEF Job, Holds, Positions, Remote
  <2> QED BY <1>1, <2>1, <2>3, GotoKeepsTypes DEF PasteLink, TypeOK
<1>2. CASE RefreshNow(u, s)
  <2> DEFINE j == [Idle EXCEPT !.at = "fetch", !.src = s, !.seen = row[s]]
  <2>1. j \in Job /\ Holds(j)
    BY <1>0, <1>2, IdleIsAJob DEF Job, Holds, Positions, RefreshNow
  <2> QED BY <1>2, <2>1, GotoKeepsTypes DEF RefreshNow, TypeOK
<1>3. CASE Mention(u, s)
  <2>1. PICK t \in Text :
           Goto(u, [Idle EXCEPT !.at = "thread", !.src = s, !.text = t, !.mode = "snapshot"])
    BY <1>3 DEF Mention
  <2> DEFINE j == [Idle EXCEPT !.at = "thread", !.src = s, !.text = t, !.mode = "snapshot"]
  <2>2. j \in Job /\ Holds(j)
    BY IdleIsAJob DEF Job, Holds, Positions, Modes
  <2> QED BY <1>3, <2>1, <2>2, GotoKeepsTypes DEF Mention, TypeOK
<1>4. CASE PauseClick(u, s)
  <2> DEFINE j == [Idle EXCEPT !.at = "setPause", !.src = s, !.seen = row[s]]
  <2>1. j \in Job /\ Holds(j)
    BY <1>0, <1>4, IdleIsAJob DEF Job, Holds, Positions, PauseClick
  <2> QED BY <1>4, <2>1, GotoKeepsTypes DEF PauseClick, TypeOK
<1>5. CASE ModeClick(u, s)
  <2> DEFINE j == [Idle EXCEPT !.at = "setMode", !.src = s, !.seen = row[s]]
  <2>1. j \in Job /\ Holds(j)
    BY <1>0, <1>5, IdleIsAJob DEF Job, Holds, Positions, ModeClick
  <2> QED BY <1>5, <2>1, GotoKeepsTypes DEF ModeClick, TypeOK
<1>6. CASE DeleteSource(u, s)
  BY <1>6, EmptySeq DEF DeleteSource, TypeOK
<1> QED BY <1>1, <1>2, <1>3, <1>4, <1>5, <1>6
(* Requests that go on. *)
LEMMA StepTypes ==
    ASSUME TypeOK, NEW a \in Actor,
           Dedupe(a) \/ Distil(a) \/ ReadRow(a) \/ NotModified(a) \/ FetchText(a)
               \/ FetchBlocked(a) \/ GoneRow(a) \/ ThreadRead(a)
    PROVE  TypeOK'
<1>0. job[a] \in Job /\ Holds(job[a]) /\ faults \in 0 .. MaxFaults
  BY DEF TypeOK
<1>1. CASE Dedupe(a)
  <2> DEFINE j == [job[a] EXCEPT !.at = "distil", !.op = "insert"]
  <2>1. At(a, "dedupe") => j \in Job /\ Holds(j)
    BY <1>0 DEF Job, Holds, Positions, At
  <2> QED BY <1>0, <1>1, <2>1, GotoKeepsTypes, FinishKeepsTypes DEF Dedupe
<1>2. CASE Distil(a)
  <2>1. PICK d \in Digest :
           Goto(a, [job[a] EXCEPT !.at = "commit", !.digest = d, !.now = remote[Src(a)].version])
    BY <1>2 DEF Distil
  <2> DEFINE j == [job[a] EXCEPT !.at = "commit", !.digest = d, !.now = remote[Src(a)].version]
  <2>2. At(a, "distil")
    BY <1>2 DEF Distil
  <2>3. remote[Src(a)].version \in Versions
    BY <1>0, <2>2, BoundAssumption DEF TypeOK, Holds, At, Src, Remote, Versions
  <2>4. j \in Job
    BY <1>0, <2>3 DEF Job, Positions
  <2>5. Holds(j)
    BY <1>0, <2>2, <2>4 DEF Job, Holds, At
  <2> QED BY <1>0, <1>2, <2>1, <2>4, <2>5, GotoKeepsTypes DEF Distil
<1>3. CASE ReadRow(a)
  <2> DEFINE j == [job[a] EXCEPT !.at = "fetch", !.seen = row[Src(a)]]
  <2>1. At(a, "read")
    BY <1>3 DEF ReadRow
  <2>2. StillThere(a) => row[Src(a)] \in Row
    BY <1>0, <2>1 DEF TypeOK, Holds, At, Src, StillThere
  <2>3. StillThere(a) => j \in Job /\ Holds(j)
    BY <1>0, <2>1, <2>2 DEF Job, Positions, Holds, At
  <2> QED BY <1>0, <1>3, <2>3, GotoKeepsTypes, FinishKeepsTypes DEF ReadRow
<1>4. CASE NotModified(a)
  BY <1>0, <1>4, FinishKeepsTypes DEF NotModified
<1>5. CASE FetchText(a)
  <2> DEFINE j(v) == [job[a] EXCEPT
                        !.at = IF remote[Src(a)].text = job[a].seen.hash THEN "same" ELSE "distil",
                        !.op = "refresh", !.text = remote[Src(a)].text, !.version = v]
             V == IF Kind(Src(a)) = "web" THEN {0, remote[Src(a)].version}
                                          ELSE {job[a].seen.version}
  <2>1. PICK v \in V : Goto(a, j(v))
    BY <1>5 DEF FetchText
  <2>2. At(a, "fetch")
    BY <1>5 DEF FetchText
  <2>3. Src(a) \in Source /\ job[a].seen \in Row
    BY <1>0, <2>2 DEF Holds, At, Src
  <2>4. remote[Src(a)].text \in Text /\ remote[Src(a)].version \in Versions
    BY <2>3, BoundAssumption DEF TypeOK, Remote, Versions
  <2>5. v \in Versions
    BY <2>1, <2>3, <2>4, BoundAssumption DEF Row, Versions
  <2>6. j(v) \in Job
    BY <1>0, <2>4, <2>5 DEF Job, Positions
  <2>7. Holds(j(v))
    BY <1>0, <2>3, <2>4, <2>6 DEF Job, Holds, Src
  <2> QED BY <1>0, <1>5, <2>1, <2>6, <2>7, GotoKeepsTypes DEF FetchText
<1>6. CASE FetchBlocked(a)
  <2>1. PICK why \in RefusalReasons(a, Src(a)) :
           Goto(a, [job[a] EXCEPT !.at = "freeze", !.reason = why])
    BY <1>6 DEF FetchBlocked
  <2> DEFINE j == [job[a] EXCEPT !.at = "freeze", !.reason = why]
  <2>2. why \in Frozen
    BY DEF RefusalReasons, Frozen
  <2>3. At(a, "fetch")
    BY <1>6 DEF FetchBlocked
  <2>4. j \in Job
    BY <1>0, <2>2 DEF Job, Positions
  <2>5. Holds(j)
    BY <1>0, <2>3, <2>4 DEF Job, Holds, At
  <2> QED BY <1>0, <1>6, <2>1, <2>4, <2>5, GotoKeepsTypes DEF FetchBlocked
<1>7. CASE GoneRow(a)
  BY <1>0, <1>7, FinishKeepsTypes DEF GoneRow
<1>8. CASE ThreadRead(a)
  <2>1. At(a, "thread")
    BY <1>8 DEF ThreadRead
  <2>2. row[Src(a)] \in Row \cup {NoRow}
    BY <1>0, <2>1 DEF TypeOK, Holds, At, Src
  <2> DEFINE d == [job[a] EXCEPT !.at = "dedupe"]
             r == [job[a] EXCEPT !.at = "distil", !.op = "revise", !.seen = row[Src(a)]]
  <2>3. d \in Job /\ Holds(d)
    BY <1>0, <2>1 DEF Job, Positions, Holds, At
  <2>4. r \in Job /\ Holds(r)
    BY <1>0, <2>1, <2>2 DEF Job, Positions, Holds, At
  <2> QED BY <1>0, <1>8, <2>3, <2>4, GotoKeepsTypes, FinishKeepsTypes DEF ThreadRead
<1> QED BY <1>1, <1>2, <1>3, <1>4, <1>5, <1>6, <1>7, <1>8
(* What the writers have in common.  A step of a writes the row, and then  *)
(* either nothing that history repeats, or a revision that says the same.  *)
Touches(a, n) ==
    /\ row[Src(a)] # NoRow
    /\ n.hash = row[Src(a)].hash
    /\ n.digest = row[Src(a)].digest
    /\ UNCHANGED revisions

Publishes(a, n) ==
    /\ At(a, "commit")
    /\ n.hash = job[a].text
    /\ n.digest = job[a].digest
    /\ Record(a, job[a].text)

Writes(a) ==
    /\ ~At(a, "idle")
    /\ \E n \in Row : Write(a, n) /\ (Touches(a, n) \/ Publishes(a, n))
    /\ \E j \in Job : Holds(j) /\ Goto(a, j)
    /\ inserted' \in Nat
    /\ UNCHANGED <<remote, faults>>

Rests == UNCHANGED <<row, revisions, remote, inserted, faults>>

(* "n" is what each of them makes of the row. *)
LEMMA WritersWrite ==
    ASSUME TypeOK, NEW a \in Actor,
           InsertRow(a) \/ Freeze(a) \/ TouchUnchanged(a) \/ CommitChange(a)
               \/ ReviseThread(a) \/ PauseWrite(a) \/ ModeWrite(a) \/ (a = Cron /\ StampVersion)
    PROVE  Writes(a) \/ (Finish(a) /\ Rests)
<1> DEFINE s == Src(a)
           d == job[a].digest
<1>0. /\ job[a] \in Job
      /\ ~At(a, "idle") => s \in Source /\ row[s] \in Row \cup {NoRow} /\ remote[s] \in Remote
      /\ At(a, "commit") => job[a].text \in Text /\ d \in Digest
      /\ At(a, "same") => job[a].text \in Text
      /\ revisions \in [Source -> Seq(Revision)] /\ inserted \in Nat /\ faults \in 0 .. MaxFaults
  BY DEF TypeOK, Holds, At, Src
<1>1. At(a, "commit") =>
          DigestText[d] \in {DigestText[x] : x \in Digest} /\ DigestStatus[d] \in Statuses
  BY <1>0, DigestAssumption
<1>2. CASE InsertRow(a)
  <2> DEFINE n == [id |-> inserted + 1, mode |-> job[a].mode, frozen |-> "no",
                   hash |-> job[a].text, version |-> job[a].version,
                   digest |-> d, embedding |-> DigestText[d],
                   mentions |-> d, status |-> DigestStatus[d],
                   changedAt |-> job[a].now]
  <2>1. At(a, "commit") /\ ~At(a, "idle")
    BY <1>2 DEF InsertRow, At
  <2>2. n \in Row
    BY <1>0, <1>1, <2>1 DEF Row, Job, Frozen
  <2>3. CASE row[s] # NoRow
    BY <1>2, <2>3 DEF InsertRow, Rests
  <2>4. CASE row[s] = NoRow
    <3>1. Write(a, n) /\ Record(a, job[a].text) /\ inserted' = inserted + 1 /\ Goto(a, Idle)
      BY <1>2, <2>4 DEF InsertRow, Finish
    <3>2. Publishes(a, n)
      BY <2>1, <3>1 DEF Publishes
    <3> QED BY <1>0, <1>2, <2>1, <2>2, <3>1, <3>2, IdleIsAJob DEF InsertRow, Writes
  <2> QED BY <2>3, <2>4
<1>3. CASE Freeze(a)
  <2> DEFINE n == [row[s] EXCEPT !.frozen = job[a].reason]
  <2>1. ~At(a, "idle") /\ row[s] # NoRow
    BY <1>3 DEF Freeze, At, StillThere
  <2>2. n \in Row
    BY <1>0, <2>1 DEF Row, Job
  <2>3. Touches(a, n)
    BY <1>0, <1>3, <2>1 DEF Touches, Row, Freeze
  <2> QED BY <1>0, <1>3, <2>1, <2>2, <2>3, ReturnIsAJob DEF Freeze, Writes
<1>4. CASE TouchUnchanged(a)
  <2> DEFINE n == [row[s] EXCEPT !.version = job[a].version, !.frozen = "no"]
  <2>1. ~At(a, "idle") /\ row[s] # NoRow
    BY <1>4 DEF TouchUnchanged, At, StillThere
  <2>2. n \in Row
    BY <1>0, <2>1 DEF Row, Job, Frozen
  <2>3. Touches(a, n)
    BY <1>0, <1>4, <2>1 DEF Touches, Row, TouchUnchanged
  <2> QED BY <1>0, <1>4, <2>1, <2>2, <2>3, ReturnIsAJob DEF TouchUnchanged, Writes
<1>5. CASE CommitChange(a)
  <2> DEFINE n == [row[s] EXCEPT
                     !.digest = d, !.hash = job[a].text, !.version = job[a].version,
                     !.status = DigestStatus[d], !.mentions = d, !.changedAt = job[a].now,
                     !.embedding = IF DigestMoved(a) THEN DigestText[d] ELSE @,
                     !.frozen = IF DigestStatus[d] = "resolved" THEN "resolved" ELSE "no"]
  <2>1. At(a, "commit") /\ ~At(a, "idle") /\ row[s] # NoRow
    BY <1>5 DEF CommitChange, At, StillThere
  <2>2. n \in Row
    BY <1>0, <1>1, <2>1 DEF Row, Job, Frozen
  <2>3. Write(a, n) /\ Record(a, job[a].text) /\ Return(a) /\ UNCHANGED <<remote, inserted, faults>>
    BY <1>5 DEF CommitChange
  <2>4. Publishes(a, n)
    BY <1>0, <2>1, <2>3 DEF Publishes, Row
  <2> QED BY <1>0, <2>1, <2>2, <2>3, <2>4, ReturnIsAJob DEF Writes
<1>6. CASE ReviseThread(a)
  <2> DEFINE n == [row[s] EXCEPT !.digest = d, !.hash = job[a].text,
                                 !.changedAt = remote[s].version]
  <2>1. At(a, "commit") /\ ~At(a, "idle") /\ row[s] # NoRow
    BY <1>6 DEF ReviseThread, At, StillThere
  <2>2. remote[s].version \in Versions
    BY <1>0, <2>1, BoundAssumption DEF Remote, Versions
  <2>3. n \in Row
    BY <1>0, <2>1, <2>2 DEF Row
  <2>4. Write(a, n) /\ Record(a, job[a].text) /\ Goto(a, Idle) /\ UNCHANGED <<remote, inserted, faults>>
    BY <1>6 DEF ReviseThread, Finish
  <2>5. Publishes(a, n)
    BY <1>0, <2>1, <2>4 DEF Publishes, Row
  <2> QED BY <1>0, <2>1, <2>3, <2>4, <2>5, IdleIsAJob DEF Writes
<1>7. CASE PauseWrite(a)
  <2> DEFINE n == [row[s] EXCEPT !.frozen =
                     IF job[a].seen.frozen = "user-paused" THEN "no" ELSE "user-paused"]
  <2>1. ~At(a, "idle") /\ row[s] # NoRow
    BY <1>7 DEF PauseWrite, At, StillThere
  <2>2. n \in Row
    BY <1>0, <2>1 DEF Row, Frozen
  <2>3. Touches(a, n)
    BY <1>0, <1>7, <2>1 DEF Touches, Row, PauseWrite
  <2> QED BY <1>0, <1>7, <2>1, <2>2, <2>3, IdleIsAJob DEF PauseWrite, Finish, Writes
<1>8. CASE ModeWrite(a)
  <2> DEFINE n == [row[s] EXCEPT
                     !.mode = IF job[a].seen.mode = "watched" THEN "snapshot" ELSE "watched",
                     !.frozen = "no"]
  <2>1. ~At(a, "idle") /\ row[s] # NoRow
    BY <1>8 DEF ModeWrite, At, StillThere
  <2>2. n \in Row
    BY <1>0, <2>1 DEF Row, Frozen, Modes
  <2>3. Touches(a, n)
    BY <1>0, <1>8, <2>1 DEF Touches, Row, ModeWrite
  <2> QED BY <1>0, <1>8, <2>1, <2>2, <2>3, IdleIsAJob DEF ModeWrite, Finish, Writes
<1>9. CASE a = Cron /\ StampVersion
  <2> DEFINE n == [row[s] EXCEPT !.version = job[a].listed]
  <2>1. ~At(a, "idle") /\ row[s] # NoRow
    BY <1>9 DEF StampVersion, At, StillThere
  <2>2. n \in Row
    BY <1>0, <2>1 DEF Row, Job
  <2>3. Touches(a, n)
    BY <1>0, <1>9, <2>1 DEF Touches, Row, StampVersion
  <2> QED BY <1>0, <1>9, <2>1, <2>2, <2>3, IdleIsAJob DEF StampVersion, Finish, Writes
<1> QED BY <1>2, <1>3, <1>4, <1>5, <1>6, <1>7, <1>8, <1>9

LEMMA WriteTypes ==
    ASSUME TypeOK, NEW a \in Actor,
           InsertRow(a) \/ Freeze(a) \/ TouchUnchanged(a) \/ CommitChange(a)
               \/ ReviseThread(a) \/ PauseWrite(a) \/ ModeWrite(a) \/ (a = Cron /\ StampVersion)
    PROVE  TypeOK'
<1>1. CASE Finish(a) /\ Rests
  BY <1>1, FinishKeepsTypes DEF Rests, TypeOK
<1>2. CASE Writes(a)
  <2>1. PICK n \in Row : Write(a, n) /\ (Touches(a, n) \/ Publishes(a, n))
    BY <1>2 DEF Writes
  <2>2. revisions' \in [Source -> Seq(Revision)]
    BY <2>1, RecordKeepsTypes DEF Touches, Publishes, TypeOK
  <2> QED BY <1>2, <2>1, <2>2, WriteKeepsTypes DEF Writes
<1> QED BY <1>1, <1>2, WritersWrite

(* The cron worker on its way to a source. *)
LEMMA CronTypes ==
    ASSUME TypeOK, CronTracked \/ Discover \/ \E s \in Source : CronPage(s) \/ CronList(s)
    PROVE  TypeOK'
<1> Cron \in Actor
  BY DEF Actor
<1>0. job[Cron] \in Job /\ Holds(job[Cron]) /\ faults \in 0 .. MaxFaults
  BY DEF TypeOK
<1>1. ASSUME NEW s \in Source, CronPage(s) PROVE TypeOK'
  <2> DEFINE j == [Idle EXCEPT !.at = "read", !.src = s, !.seen = row[s]]
  <2>1. row[s] \in Row
    BY <1>1 DEF CronPage, TypeOK
  <2>2. j \in Job /\ Holds(j)
    BY <2>1, IdleIsAJob DEF Job, Holds, Positions
  <2> QED BY <1>0, <1>1, <2>2, GotoKeepsTypes DEF CronPage
<1>2. ASSUME NEW s \in Source, CronList(s) PROVE TypeOK'
  <2> DEFINE j == [Idle EXCEPT !.at = "listed", !.src = s, !.listed = remote[s].version,
                               !.modified = remote[s].modified]
  <2>1. remote[s].version \in Versions /\ remote[s].modified \in Versions
    BY BoundAssumption DEF TypeOK, Remote, Versions
  <2>2. j \in Job /\ Holds(j)
    BY <2>1, IdleIsAJob DEF Job, Holds, Positions
  <2> QED BY <1>0, <1>2, <2>2, GotoKeepsTypes DEF CronList
<1>3. CASE CronTracked
  <2> DEFINE r == row[Src(Cron)]
             d == [job[Cron] EXCEPT !.at = "discover"]
             t == [job[Cron] EXCEPT !.at = "read", !.seen = r]
  <2>1. At(Cron, "listed")
    BY <1>3 DEF CronTracked
  <2>2. r \in Row \cup {NoRow}
    BY <1>0, <2>1 DEF TypeOK, Holds, At, Src
  <2>3. d \in Job /\ Holds(d)
    BY <1>0, <2>1 DEF Job, Positions, Holds, At
  <2>4. t \in Job /\ Holds(t)
    BY <1>0, <2>1, <2>2 DEF Job, Positions, Holds, At
  <2> QED BY <1>0, <1>3, <2>3, <2>4, GotoKeepsTypes, FinishKeepsTypes DEF CronTracked
<1>4. CASE Discover
  <2> DEFINE j == [job[Cron] EXCEPT !.at = "dedupe", !.text = remote[Src(Cron)].text,
                                    !.version = job[Cron].listed, !.mode = "watched"]
  <2>1. At(Cron, "discover")
    BY <1>4 DEF Discover
  <2>2. remote[Src(Cron)].text \in Text
    BY <1>0, <2>1 DEF TypeOK, Holds, At, Src, Remote
  <2>3. j \in Job
    BY <1>0, <2>2 DEF Job, Positions, Modes
  <2>4. Holds(j)
    BY <1>0, <2>1, <2>2, <2>3 DEF Job, Holds, At
  <2> QED BY <1>0, <1>4, <2>3, <2>4, GotoKeepsTypes, FinishKeepsTypes DEF Discover
<1> QED BY <1>1, <1>2, <1>3, <1>4

(* Steps that go wrong write nothing. *)
LEMMA FaultTypes ==
    ASSUME TypeOK, NEW a \in Actor, GoesWrong(a)
    PROVE  TypeOK'
<1>1. faults' \in 0 .. MaxFaults
  BY BoundAssumption DEF GoesWrong, Refused, FetchFails, Crash, Fault, TypeOK
<1> QED BY <1>1, FinishKeepsTypes DEF GoesWrong, Refused, FetchFails, Crash

LEMMA NextTypes == TypeOK /\ [Next]_vars => TypeOK'
<1> SUFFICES ASSUME TypeOK, [Next]_vars PROVE TypeOK'
  OBVIOUS
<1>1. CASE World
  BY <1>1, WorldTypes DEF World
<1>2. ASSUME NEW u \in User, UserStarts(u) PROVE TypeOK'
  BY <1>2, StartTypes DEF UserStarts
<1>3. ASSUME NEW a \in Actor, Continue(a) PROVE TypeOK'
  BY <1>3, StepTypes, WriteTypes DEF Continue
<1>4. ASSUME NEW u \in User, UserContinues(u) PROVE TypeOK'
  <2> u \in Actor
    BY DEF Actor
  <2> QED BY <1>3, <1>4, StepTypes, WriteTypes DEF UserContinues
<1>5. CASE CronContinues
  <2> Cron \in Actor
    BY DEF Actor
  <2> QED BY <1>3, <1>5, CronTypes, WriteTypes DEF CronContinues
<1>6. ASSUME NEW s \in Source, CronStarts(s) PROVE TypeOK'
  BY <1>6, CronTypes DEF CronStarts
<1>7. ASSUME NEW a \in Actor, GoesWrong(a) PROVE TypeOK'
  BY <1>7, FaultTypes
<1>8. CASE UNCHANGED vars
  BY <1>8 DEF vars, TypeOK, Holds
<1> QED BY <1>1, <1>2, <1>4, <1>5, <1>6, <1>7, <1>8 DEF Next

(* Whatever requests do to each other, every row, revision and local value *)
(* is of its type, and a request holds what its next step needs.           *)
THEOREM TypeCorrect == Spec => []TypeOK
<1> QED BY InitTypes, NextTypes, PTL DEF Spec
-----------------------------------------------------------------------------
(* What any step does to the rows and their history: nothing that shows,   *)
(* one more revision of one source, which its row then shows, or a delete. *)

Kept ==
    /\ UNCHANGED revisions
    /\ \A s \in Source :
           IF row[s] = NoRow
           THEN row'[s] = NoRow
           ELSE row'[s] # NoRow /\ row'[s].hash = row[s].hash /\ row'[s].digest = row[s].digest

Published(s, e) ==
    /\ revisions' = [revisions EXCEPT ![s] = Append(@, e)]
    /\ row'[s] # NoRow /\ row'[s].hash = e.hash /\ row'[s].digest = e.digest
    /\ \A o \in Source \ {s} : row'[o] = row[o]

Retired(s) ==
    /\ revisions' = [revisions EXCEPT ![s] = <<>>]
    /\ row'[s] = NoRow
    /\ \A o \in Source \ {s} : row'[o] = row[o]

Effect ==
    \/ Kept
    \/ \E s \in Source, e \in Revision : Published(s, e)
    \/ \E s \in Source : Retired(s)

LEMMA WriterEffect ==
    ASSUME TypeOK, NEW a \in Actor, Writes(a)
    PROVE  Effect
<1>1. PICK n \in Row : Write(a, n) /\ (Touches(a, n) \/ Publishes(a, n))
  BY DEF Writes
<1>2. Src(a) \in Source /\ n # NoRow
  BY NullAssumption DEF Writes, TypeOK, Holds, At, Src
<1>3. row'[Src(a)] = n /\ \A o \in Source \ {Src(a)} : row'[o] = row[o]
  BY <1>1, <1>2 DEF Write, TypeOK
<1>4. CASE Touches(a, n)
  <2> Kept
    BY <1>2, <1>3, <1>4 DEF Touches, Kept
  <2> QED BY DEF Effect
<1>5. CASE Publishes(a, n)
  <2> DEFINE e == [hash |-> job[a].text, digest |-> job[a].digest,
                   status |-> DigestStatus[job[a].digest]]
  <2>1. e \in Revision
    BY <1>5, DigestAssumption DEF Publishes, TypeOK, Holds, At, Revision
  <2>2. Published(Src(a), e)
    BY <1>2, <1>3, <1>5 DEF Publishes, Published, Record
  <2> QED BY <1>2, <2>1, <2>2 DEF Effect
<1> QED BY <1>1, <1>4, <1>5

LEMMA StepEffect == TypeOK /\ [Next]_vars => Effect
<1> SUFFICES ASSUME TypeOK, [Next]_vars PROVE Effect
  OBVIOUS
<1>0. ASSUME UNCHANGED <<row, revisions>> PROVE Effect
  BY <1>0 DEF Effect, Kept
<1>1. CASE World
  BY <1>0, <1>1 DEF World, Edit, SetAccess
<1>2. ASSUME NEW u \in User, UserStarts(u) PROVE Effect
  <2>1. ASSUME NEW s \in Source, DeleteSource(u, s) PROVE Retired(s)
    BY <2>1 DEF DeleteSource, Retired, TypeOK
  <2> QED BY <1>0, <1>2, <2>1
          DEF UserStarts, PasteLink, RefreshNow, Mention, PauseClick, ModeClick, Effect
<1>3. ASSUME NEW a \in Actor,
             InsertRow(a) \/ Freeze(a) \/ TouchUnchanged(a) \/ CommitChange(a)
                 \/ ReviseThread(a) \/ PauseWrite(a) \/ ModeWrite(a) \/ (a = Cron /\ StampVersion)
      PROVE  Effect
  BY <1>0, <1>3, WritersWrite, WriterEffect DEF Rests
<1>4. ASSUME NEW a \in Actor, Continue(a) PROVE Effect
  BY <1>0, <1>3, <1>4
  DEF Continue, Dedupe, Distil, ReadRow, NotModified, FetchText, FetchBlocked, GoneRow
<1>5. ASSUME NEW u \in User, UserContinues(u) PROVE Effect
  <2> u \in Actor
    BY DEF Actor
  <2> QED BY <1>0, <1>3, <1>4, <1>5 DEF UserContinues, ThreadRead
<1>6. CASE CronContinues
  <2> Cron \in Actor
    BY DEF Actor
  <2> QED BY <1>0, <1>3, <1>4, <1>6 DEF CronContinues, CronTracked, Discover
<1>7. ASSUME NEW s \in Source, CronStarts(s) PROVE Effect
  BY <1>0, <1>7 DEF CronStarts, CronPage, CronList
<1>8. ASSUME NEW a \in Actor, GoesWrong(a) PROVE Effect
  BY <1>0, <1>8 DEF GoesWrong, Refused, FetchFails, Crash
<1>9. CASE UNCHANGED vars
  BY <1>0, <1>9 DEF vars
<1> QED BY <1>1, <1>2, <1>5, <1>6, <1>7, <1>8, <1>9 DEF Next

-----------------------------------------------------------------------------
(* The row is the newest revision. *)

LEMMA NewestInductive ==
    ASSUME TypeOK, NewestRevisionIsTheRow, Effect
    PROVE  NewestRevisionIsTheRow'
<1> SUFFICES ASSUME NEW s \in Source
             PROVE  IF row'[s] = NoRow
                    THEN revisions'[s] = <<>>
                    ELSE /\ revisions'[s] # <<>>
                         /\ Last(revisions'[s]).hash = row'[s].hash
                         /\ Last(revisions'[s]).digest = row'[s].digest
  BY DEF NewestRevisionIsTheRow, Last
<1>1. CASE Kept
  BY <1>1 DEF Kept, NewestRevisionIsTheRow
<1>2. ASSUME NEW p \in Source, NEW e \in Revision, Published(p, e)
      PROVE  IF row'[s] = NoRow
             THEN revisions'[s] = <<>>
             ELSE /\ revisions'[s] # <<>>
                  /\ Last(revisions'[s]).hash = row'[s].hash
                  /\ Last(revisions'[s]).digest = row'[s].digest
  <2>1. CASE s = p
    <3>1. revisions'[s] = Append(revisions[s], e)
      BY <1>2, <2>1 DEF Published, TypeOK
    <3>2. revisions'[s] # <<>> /\ Last(revisions'[s]) = e
      BY <3>1, AppendProperties DEF TypeOK, Last
    <3> QED BY <1>2, <2>1, <3>2 DEF Published
  <2>2. CASE s # p
    BY <1>2, <2>2 DEF Published, NewestRevisionIsTheRow, TypeOK
  <2> QED BY <2>1, <2>2
<1>3. ASSUME NEW p \in Source, Retired(p)
      PROVE  IF row'[s] = NoRow
             THEN revisions'[s] = <<>>
             ELSE /\ revisions'[s] # <<>>
                  /\ Last(revisions'[s]).hash = row'[s].hash
                  /\ Last(revisions'[s]).digest = row'[s].digest
  BY <1>3 DEF Retired, NewestRevisionIsTheRow, TypeOK
<1> QED BY <1>1, <1>2, <1>3 DEF Effect

(* A row always says what its newest revision says, and a source without a *)
(* row has no history, however refreshes, re-mentions, sweeps, toggles,    *)
(* deletes and crashes interleave.                                         *)
THEOREM RowIsNewestRevision == Spec => []NewestRevisionIsTheRow
<1>1. Init => NewestRevisionIsTheRow
  BY DEF Init, NewestRevisionIsTheRow
<1>2. TypeOK /\ NewestRevisionIsTheRow /\ [Next]_vars => NewestRevisionIsTheRow'
  BY StepEffect, NewestInductive
<1> QED BY <1>1, <1>2, TypeCorrect, PTL DEF Spec
-----------------------------------------------------------------------------
(* SourceRefresh implements RevisionLog. *)

LEMMA HistoryInit == Init => History!Init
  BY DEF Init, History!Init, ShownRow

LEMMA HistoryStep == TypeOK /\ [Next]_vars => [History!Next]_(History!vars)
<1> SUFFICES ASSUME TypeOK, [Next]_vars PROVE [History!Next]_(History!vars)
  OBVIOUS
<1>1. CASE Kept
  <2>1. ShownRow' = ShownRow
    BY <1>1 DEF Kept, ShownRow, ShownPart
  <2> QED BY <1>1, <2>1 DEF Kept, History!vars
<1>2. ASSUME NEW s \in Source, NEW e \in Revision, Published(s, e)
      PROVE  History!Publish(s, e)
  <2>1. ShownRow' = [ShownRow EXCEPT ![s] = ShownPart(e)]
    BY <1>2 DEF Published, ShownRow, ShownPart
  <2> QED BY <1>2, <2>1 DEF Published, History!Publish
<1>3. ASSUME NEW s \in Source, Retired(s)
      PROVE  History!Retire(s)
  <2>1. ShownRow' = [ShownRow EXCEPT ![s] = NoRow]
    BY <1>3 DEF Retired, ShownRow, ShownPart
  <2> QED BY <1>3, <2>1 DEF Retired, History!Retire
<1> QED BY <1>1, <1>2, <1>3, StepEffect DEF Effect, History!Next

(* The concurrent program implements the abstract history: every step      *)
(* appends one revision and shows it, deletes a history, or leaves both.   *)
THEOREM RefinesRevisionLog == Spec => ImplementsRevisionLog
<1> QED BY HistoryInit, HistoryStep, TypeCorrect, PTL DEF Spec, ImplementsRevisionLog, History!Spec


-----------------------------------------------------------------------------
(* What is derived from a digest agrees with it, for every instance in     *)
(* which nobody writes what a refresh has read: mentions, statuses and     *)
(* vectors are only written together with their digest if there are no     *)
(* re-mentions, and a change is recorded once, and its vector with it, if  *)
(* the cron is the only one to refresh.  First: without mentions.          *)

NoThreads == \A a \in Actor : job[a].at # "thread" /\ job[a].op # "revise"

LEMMA NoThreadsInductive ==
    ASSUME TypeOK, NoThreads, [Next]_vars, "mention" \notin UserOps
    PROVE  NoThreads'
<1> DEFINE Fits(j) == j.at # "thread" /\ j.op # "revise"
<1>0. Fits(Idle) /\ \A a \in Actor : job[a] \in Job /\ Fits(job[a])
  BY DEF NoThreads, Idle, TypeOK
<1>1. ASSUME NEW a \in Actor, NEW j, Goto(a, j), Fits(j) PROVE NoThreads'
  BY <1>1 DEF NoThreads, Goto, TypeOK
<1>2. ASSUME NEW a \in Actor, Finish(a) PROVE NoThreads'
  BY <1>0, <1>1, <1>2 DEF Finish
<1>3. ASSUME NEW a \in Actor, Return(a) PROVE NoThreads'
  <2> DEFINE j == [job[a] EXCEPT !.at = "stamp"]
  <2>1. Fits(j)
    BY <1>0 DEF Job
  <2> QED BY <1>1, <1>2, <1>3, <2>1 DEF Return
<1>4. ASSUME UNCHANGED job PROVE NoThreads'
  BY <1>4 DEF NoThreads
<1>5. CASE World
  BY <1>4, <1>5 DEF World, Edit, SetAccess
<1>6. ASSUME NEW u \in User, UserStarts(u) PROVE NoThreads'
  <2> u \in Actor
    BY DEF Actor
  <2>1. ASSUME NEW s \in Source, PasteLink(u, s) PROVE NoThreads'
    BY <1>1, <2>1 DEF PasteLink, Idle
  <2>2. ASSUME NEW s \in Source, RefreshNow(u, s) \/ PauseClick(u, s) \/ ModeClick(u, s)
        PROVE  NoThreads'
    BY <1>1, <2>2 DEF RefreshNow, PauseClick, ModeClick, Idle
  <2>3. ASSUME NEW s \in Source, DeleteSource(u, s) PROVE NoThreads'
    BY <1>4, <2>3 DEF DeleteSource
  <2> QED BY <1>6, <2>1, <2>2, <2>3 DEF UserStarts, Mention
<1>7. ASSUME NEW a \in Actor, Continue(a) PROVE NoThreads'
  <2>1. CASE Dedupe(a)
    BY <1>0, <1>1, <1>2, <2>1 DEF Dedupe, Job
  <2>2. CASE Distil(a)
    BY <1>0, <1>1, <2>2 DEF Distil, Job
  <2>3. CASE InsertRow(a) \/ NotModified(a) \/ GoneRow(a)
    BY <1>2, <2>3 DEF InsertRow, NotModified, GoneRow
  <2>4. CASE ReadRow(a)
    BY <1>0, <1>1, <1>2, <2>4 DEF ReadRow, Job
  <2>5. CASE FetchText(a)
    BY <1>0, <1>1, <2>5 DEF FetchText, Job
  <2>6. CASE FetchBlocked(a)
    BY <1>0, <1>1, <2>6 DEF FetchBlocked, Job
  <2>7. CASE Freeze(a) \/ TouchUnchanged(a) \/ CommitChange(a)
    BY <1>3, <2>7 DEF Freeze, TouchUnchanged, CommitChange
  <2> QED BY <1>7, <2>1, <2>2, <2>3, <2>4, <2>5, <2>6, <2>7 DEF Continue
<1>8. ASSUME NEW u \in User, UserContinues(u) PROVE NoThreads'
  <2> u \in Actor
    BY DEF Actor
  <2>1. ~ThreadRead(u) /\ ~ReviseThread(u)
    BY DEF NoThreads, ThreadRead, ReviseThread, At
  <2>2. CASE PauseWrite(u) \/ ModeWrite(u)
    BY <1>2, <2>2 DEF PauseWrite, ModeWrite
  <2> QED BY <1>7, <1>8, <2>1, <2>2 DEF UserContinues
<1>9. CASE CronContinues
  <2> Cron \in Actor
    BY DEF Actor
  <2>1. CASE CronTracked
    BY <1>0, <1>1, <1>2, <2>1 DEF CronTracked, Job
  <2>2. CASE Discover
    BY <1>0, <1>1, <1>2, <2>2 DEF Discover, Job
  <2>3. CASE StampVersion
    BY <1>2, <2>3 DEF StampVersion
  <2> QED BY <1>7, <1>9, <2>1, <2>2, <2>3 DEF CronContinues
<1>10. ASSUME NEW s \in Source, CronStarts(s) PROVE NoThreads'
  <2> Cron \in Actor
    BY DEF Actor
  <2> QED BY <1>1, <1>10 DEF CronStarts, CronPage, CronList, Idle
<1>11. ASSUME NEW a \in Actor, GoesWrong(a) PROVE NoThreads'
  BY <1>2, <1>11 DEF GoesWrong, Refused, FetchFails, Crash
<1>12. CASE UNCHANGED vars
  BY <1>4, <1>12 DEF vars
<1> QED BY <1>5, <1>6, <1>7, <1>8, <1>9, <1>10, <1>11, <1>12 DEF Next

-----------------------------------------------------------------------------
(* What a step does to rows and history when no thread is revised: a row   *)
(* keeps all that comes from its digest, or all of it is renewed.          *)

Keeps(a, n) ==
    LET r == row[Src(a)] IN
    /\ r # NoRow
    /\ n.id = r.id /\ n.hash = r.hash /\ n.digest = r.digest
    /\ n.mentions = r.mentions /\ n.status = r.status /\ n.embedding = r.embedding
    /\ UNCHANGED <<revisions, inserted>>

Inserts(a, n) ==
    /\ job[a].op = "insert"
    /\ row[Src(a)] = NoRow
    /\ n.id = inserted + 1
    /\ n.embedding = DigestText[n.digest]
    /\ inserted' = inserted + 1

Replaces(a, n) ==
    /\ job[a].op = "refresh"
    /\ StillThere(a)
    /\ n.id = row[Src(a)].id
    /\ n.embedding = IF DigestMoved(a) THEN DigestText[n.digest] ELSE row[Src(a)].embedding
    /\ UNCHANGED inserted

Renews(a, n) ==
    /\ At(a, "commit")
    /\ n.hash = job[a].text
    /\ n.digest = job[a].digest
    /\ n.mentions = n.digest
    /\ n.status = DigestStatus[n.digest]
    /\ Record(a, job[a].text)
    /\ Inserts(a, n) \/ Replaces(a, n)

Rewrites(a) ==
    /\ ~At(a, "idle")
    /\ job'[a].at # job[a].at
    /\ \E n \in Row : Write(a, n) /\ (Keeps(a, n) \/ Renews(a, n))

Stays == UNCHANGED <<row, revisions, inserted>>

LEMMA WriterMovesOn ==
    ASSUME TypeOK, NEW a \in Actor, ~At(a, "idle"),
           Finish(a) \/ (Return(a) /\ ~At(a, "stamp"))
    PROVE  job'[a].at # job[a].at
<1>1. CASE Finish(a)
  BY <1>1 DEF Finish, Goto, TypeOK, Idle, At
<1>2. CASE Return(a) /\ ~At(a, "stamp") /\ ~Finish(a)
  <2> DEFINE j == [job[a] EXCEPT !.at = "stamp"]
  <2>1. job' = [job EXCEPT ![a] = j]
    BY <1>2 DEF Return, Goto
  <2>2. j.at = "stamp" /\ job'[a] = j
    BY <2>1 DEF TypeOK, Job
  <2> QED BY <1>2, <2>2 DEF At
<1> QED BY <1>1, <1>2

LEMMA WritersRewrite ==
    ASSUME TypeOK, NEW a \in Actor,
           InsertRow(a) \/ Freeze(a) \/ TouchUnchanged(a) \/ CommitChange(a)
               \/ PauseWrite(a) \/ ModeWrite(a) \/ (a = Cron /\ StampVersion)
    PROVE  Rewrites(a) \/ Stays
<1> DEFINE s == Src(a)
           d == job[a].digest
<1>0. /\ job[a] \in Job
      /\ ~At(a, "idle") => s \in Source /\ row[s] \in Row \cup {NoRow}
      /\ At(a, "commit") => job[a].text \in Text /\ d \in Digest
      /\ At(a, "same") => job[a].text \in Text
      /\ inserted \in Nat
  BY DEF TypeOK, Holds, At, Src
<1>1. At(a, "commit") =>
          DigestText[d] \in {DigestText[x] : x \in Digest} /\ DigestStatus[d] \in Statuses
  BY <1>0, DigestAssumption
<1>2. CASE InsertRow(a)
  <2> DEFINE n == [id |-> inserted + 1, mode |-> job[a].mode, frozen |-> "no",
                   hash |-> job[a].text, version |-> job[a].version,
                   digest |-> d, embedding |-> DigestText[d],
                   mentions |-> d, status |-> DigestStatus[d],
                   changedAt |-> job[a].now]
  <2>1. At(a, "commit") /\ ~At(a, "idle") /\ job[a].op = "insert"
    BY <1>2 DEF InsertRow, At
  <2>2. n \in Row
    BY <1>0, <1>1, <2>1 DEF Row, Job, Frozen
  <2>3. CASE row[s] # NoRow
    BY <1>2, <2>3 DEF InsertRow, Stays
  <2>4. CASE row[s] = NoRow
    <3>1. Write(a, n) /\ Record(a, job[a].text) /\ inserted' = inserted + 1
      BY <1>2, <2>4 DEF InsertRow
    <3>2. Renews(a, n)
      BY <2>1, <2>4, <3>1 DEF Renews, Inserts
    <3> QED BY <1>2, <2>1, <2>2, <3>1, <3>2, WriterMovesOn DEF Rewrites, InsertRow
  <2> QED BY <2>3, <2>4
<1>3. CASE Freeze(a)
  <2> DEFINE n == [row[s] EXCEPT !.frozen = job[a].reason]
  <2>1. ~At(a, "idle") /\ row[s] # NoRow /\ Write(a, n) /\ UNCHANGED <<revisions, inserted>>
    BY <1>3 DEF Freeze, At, StillThere
  <2>2. n \in Row /\ Keeps(a, n)
    BY <1>0, <2>1 DEF Row, Job, Keeps
  <2> QED BY <1>3, <2>1, <2>2, WriterMovesOn DEF Rewrites, Freeze, At
<1>4. CASE TouchUnchanged(a)
  <2> DEFINE n == [row[s] EXCEPT !.version = job[a].version, !.frozen = "no"]
  <2>1. ~At(a, "idle") /\ row[s] # NoRow /\ Write(a, n) /\ UNCHANGED <<revisions, inserted>>
    BY <1>4 DEF TouchUnchanged, At, StillThere
  <2>2. n \in Row /\ Keeps(a, n)
    BY <1>0, <2>1 DEF Row, Job, Frozen, Keeps
  <2> QED BY <1>4, <2>1, <2>2, WriterMovesOn DEF Rewrites, TouchUnchanged, At
<1>5. CASE CommitChange(a)
  <2> DEFINE n == [row[s] EXCEPT
                     !.digest = d, !.hash = job[a].text, !.version = job[a].version,
                     !.status = DigestStatus[d], !.mentions = d, !.changedAt = job[a].now,
                     !.embedding = IF DigestMoved(a) THEN DigestText[d] ELSE @,
                     !.frozen = IF DigestStatus[d] = "resolved" THEN "resolved" ELSE "no"]
  <2>1. /\ At(a, "commit") /\ ~At(a, "idle") /\ row[s] # NoRow
        /\ job[a].op = "refresh" /\ StillThere(a)
    BY <1>5 DEF CommitChange, At, StillThere
  <2>2. Write(a, n) /\ Record(a, job[a].text) /\ UNCHANGED inserted
    BY <1>5 DEF CommitChange
  <2>3. n \in Row
    BY <1>0, <1>1, <2>1 DEF Row, Job, Frozen
  <2>4. Renews(a, n)
    BY <1>0, <2>1, <2>2 DEF Renews, Replaces, Row
  <2> QED BY <1>5, <2>1, <2>2, <2>3, <2>4, WriterMovesOn DEF Rewrites, CommitChange, At
<1>6. CASE PauseWrite(a)
  <2> DEFINE n == [row[s] EXCEPT !.frozen =
                     IF job[a].seen.frozen = "user-paused" THEN "no" ELSE "user-paused"]
  <2>1. ~At(a, "idle") /\ row[s] # NoRow /\ Write(a, n) /\ UNCHANGED <<revisions, inserted>>
    BY <1>6 DEF PauseWrite, At, StillThere
  <2>2. n \in Row /\ Keeps(a, n)
    BY <1>0, <2>1 DEF Row, Frozen, Keeps
  <2> QED BY <1>6, <2>1, <2>2, WriterMovesOn DEF Rewrites, PauseWrite, At
<1>7. CASE ModeWrite(a)
  <2> DEFINE n == [row[s] EXCEPT
                     !.mode = IF job[a].seen.mode = "watched" THEN "snapshot" ELSE "watched",
                     !.frozen = "no"]
  <2>1. ~At(a, "idle") /\ row[s] # NoRow /\ Write(a, n) /\ UNCHANGED <<revisions, inserted>>
    BY <1>7 DEF ModeWrite, At, StillThere
  <2>2. n \in Row /\ Keeps(a, n)
    BY <1>0, <2>1 DEF Row, Frozen, Modes, Keeps
  <2> QED BY <1>7, <2>1, <2>2, WriterMovesOn DEF Rewrites, ModeWrite, At
<1>8. CASE a = Cron /\ StampVersion
  <2> DEFINE n == [row[s] EXCEPT !.version = job[a].listed]
  <2>1. ~At(a, "idle") /\ row[s] # NoRow /\ Write(a, n) /\ UNCHANGED <<revisions, inserted>>
    BY <1>8 DEF StampVersion, At, StillThere
  <2>2. n \in Row /\ Keeps(a, n)
    BY <1>0, <2>1 DEF Row, Job, Keeps
  <2> QED BY <1>8, <2>1, <2>2, WriterMovesOn DEF Rewrites, StampVersion, At
<1> QED BY <1>2, <1>3, <1>4, <1>5, <1>6, <1>7, <1>8

RowEffect ==
    \/ Stays
    \/ \E a \in Actor : Rewrites(a)
    \/ \E s \in Source : Retired(s) /\ UNCHANGED inserted

LEMMA StepRowEffect == TypeOK /\ NoThreads /\ [Next]_vars => RowEffect
<1> SUFFICES ASSUME TypeOK, NoThreads, [Next]_vars PROVE RowEffect
  OBVIOUS
<1>0. ASSUME Stays PROVE RowEffect
  BY <1>0 DEF RowEffect
<1>1. CASE World
  BY <1>0, <1>1 DEF World, Edit, SetAccess, Stays
<1>2. ASSUME NEW u \in User, UserStarts(u) PROVE RowEffect
  <2>1. ASSUME NEW s \in Source, DeleteSource(u, s) PROVE Retired(s) /\ UNCHANGED inserted
    BY <2>1 DEF DeleteSource, Retired, TypeOK
  <2> QED BY <1>0, <1>2, <2>1
          DEF UserStarts, PasteLink, RefreshNow, Mention, PauseClick, ModeClick, RowEffect, Stays
<1>3. ASSUME NEW a \in Actor,
             InsertRow(a) \/ Freeze(a) \/ TouchUnchanged(a) \/ CommitChange(a)
                 \/ PauseWrite(a) \/ ModeWrite(a) \/ (a = Cron /\ StampVersion)
      PROVE  RowEffect
  BY <1>3, WritersRewrite DEF RowEffect
<1>4. ASSUME NEW a \in Actor, Continue(a) PROVE RowEffect
  BY <1>0, <1>3, <1>4
  DEF Continue, Dedupe, Distil, ReadRow, NotModified, FetchText, FetchBlocked, GoneRow, Stays
<1>5. ASSUME NEW u \in User, UserContinues(u) PROVE RowEffect
  <2> u \in Actor
    BY DEF Actor
  <2>1. ~ReviseThread(u)
    BY DEF NoThreads, ReviseThread
  <2> QED BY <1>0, <1>3, <1>4, <1>5, <2>1 DEF UserContinues, ThreadRead, Stays
<1>6. CASE CronContinues
  <2> Cron \in Actor
    BY DEF Actor
  <2> QED BY <1>0, <1>3, <1>4, <1>6 DEF CronContinues, CronTracked, Discover, Stays
<1>7. ASSUME NEW s \in Source, CronStarts(s) PROVE RowEffect
  BY <1>0, <1>7 DEF CronStarts, CronPage, CronList, Stays
<1>8. ASSUME NEW a \in Actor, GoesWrong(a) PROVE RowEffect
  BY <1>0, <1>8 DEF GoesWrong, Refused, FetchFails, Crash, Stays
<1>9. CASE UNCHANGED vars
  BY <1>0, <1>9 DEF vars, Stays
<1> QED BY <1>1, <1>2, <1>5, <1>6, <1>7, <1>8, <1>9 DEF Next

-----------------------------------------------------------------------------
(* Mentions and status follow the digest. *)

LEMMA RewriteIsLocal ==
    ASSUME TypeOK, NEW a \in Actor, ~At(a, "idle"), NEW n \in Row, Write(a, n)
    PROVE  /\ Src(a) \in Source /\ n # NoRow
           /\ row'[Src(a)] = n
           /\ \A o \in Source \ {Src(a)} : row'[o] = row[o]
  BY NullAssumption DEF TypeOK, Holds, At, Src, Write

LEMMA RenewalIsLast ==
    ASSUME TypeOK, NEW a \in Actor, NEW n \in Row, Renews(a, n)
    PROVE  /\ revisions'[Src(a)] # <<>>
           /\ revisions'[Src(a)] =
                  Append(revisions[Src(a)], [hash |-> n.hash, digest |-> n.digest, status |-> n.status])
           /\ Last(revisions'[Src(a)]).status = n.status
           /\ \A o \in Source \ {Src(a)} : revisions'[o] = revisions[o]
<1> DEFINE e == [hash |-> n.hash, digest |-> n.digest, status |-> n.status]
<1>1. Src(a) \in Source /\ e \in Revision
  BY DEF Renews, TypeOK, Holds, At, Src, Revision, Row
<1>2. revisions' = [revisions EXCEPT ![Src(a)] = Append(@, e)]
  BY DEF Renews, Record
<1>3. revisions'[Src(a)] = Append(revisions[Src(a)], e)
  BY <1>1, <1>2 DEF TypeOK
<1>4. revisions'[Src(a)] # <<>> /\ Last(revisions'[Src(a)]) = e
  BY <1>1, <1>3, AppendProperties DEF TypeOK, Last
<1>6. Last(revisions'[Src(a)]).status = n.status
  BY <1>4
<1>5. \A o \in Source \ {Src(a)} : revisions'[o] = revisions[o]
  BY <1>1, <1>2 DEF TypeOK
<1> QED BY <1>3, <1>4, <1>5, <1>6

Derived == MentionsNameTheDigest /\ StatusFollowsNewestRevision

LEMMA DerivedInductive ==
    ASSUME TypeOK, Derived, RowEffect
    PROVE  Derived'
<1> DEFINE Agrees(s) == row[s] # NoRow =>
        row[s].mentions = row[s].digest /\ row[s].status = Last(revisions[s]).status
<1>0. \A s \in Source : Agrees(s)
  BY DEF Derived, MentionsNameTheDigest, StatusFollowsNewestRevision
<1>1. SUFFICES ASSUME NEW s \in Source PROVE Agrees(s)'
  BY DEF Derived, MentionsNameTheDigest, StatusFollowsNewestRevision
<1>2. CASE Stays
  BY <1>0, <1>2 DEF Stays, Last
<1>3. ASSUME NEW a \in Actor, Rewrites(a) PROVE Agrees(s)'
  <2>1. PICK n \in Row : Write(a, n) /\ (Keeps(a, n) \/ Renews(a, n))
    BY <1>3 DEF Rewrites
  <2>2. /\ Src(a) \in Source /\ n # NoRow
        /\ row'[Src(a)] = n
        /\ \A o \in Source \ {Src(a)} : row'[o] = row[o]
    BY <1>3, <2>1, RewriteIsLocal DEF Rewrites
  <2>3. CASE Keeps(a, n)
    BY <1>0, <2>2, <2>3 DEF Keeps, Last
  <2>4. CASE Renews(a, n)
    <3>1. /\ Last(revisions'[Src(a)]).status = n.status
          /\ \A o \in Source \ {Src(a)} : revisions'[o] = revisions[o]
      BY <2>4, RenewalIsLast
    <3>2. n.mentions = n.digest
      BY <2>4 DEF Renews
    <3>3. CASE s = Src(a)
      <4>1. row'[s] = n
        BY <2>2, <3>3
      <4>2. Last(revisions'[s]).status = n.status
        BY <3>1, <3>3
      <4> QED BY <3>2, <4>1, <4>2 DEF Last
    <3>4. CASE s # Src(a)
      BY <1>0, <2>2, <3>1, <3>4 DEF Last
    <3> QED BY <3>3, <3>4
  <2> QED BY <2>1, <2>3, <2>4
<1>4. ASSUME NEW p \in Source, Retired(p) PROVE Agrees(s)'
  <2>1. CASE s = p
    BY <1>4, <2>1 DEF Retired
  <2>2. CASE s # p
    BY <1>0, <1>4, <2>2 DEF Retired, TypeOK, Last
  <2> QED BY <2>1, <2>2
<1> QED BY <1>2, <1>3, <1>4 DEF RowEffect

LEMMA DerivedInvariant ==
    ASSUME "mention" \notin UserOps
    PROVE  Spec => [](NoThreads /\ Derived)
<1>1. Init => NoThreads /\ Derived
  BY DEF Init, NoThreads, Idle, Derived, MentionsNameTheDigest, StatusFollowsNewestRevision
<1>2. TypeOK /\ NoThreads /\ Derived /\ [Next]_vars => NoThreads' /\ Derived'
  BY NoThreadsInductive, StepRowEffect, DerivedInductive
<1> QED BY <1>1, <1>2, TypeCorrect, PTL DEF Spec

(* The people linked to a source are those of the digest it shows, as long *)
(* as no Chat thread is mentioned again: ingest and refresh write mentions *)
(* in the transaction that writes the digest.                              *)
THEOREM MentionsFollow ==
    ASSUME "mention" \notin UserOps
    PROVE  Spec => []MentionsNameTheDigest
<1>1. NoThreads /\ Derived => MentionsNameTheDigest
  BY DEF Derived
<1> QED BY <1>1, DerivedInvariant, PTL

(* The status that the briefs put before a source is that of its newest    *)
(* revision, as long as no Chat thread is mentioned again.                 *)
THEOREM StatusFollows ==
    ASSUME "mention" \notin UserOps
    PROVE  Spec => []StatusFollowsNewestRevision
<1>1. NoThreads /\ Derived => StatusFollowsNewestRevision
  BY DEF Derived
<1> QED BY <1>1, DerivedInvariant, PTL

-----------------------------------------------------------------------------
(* With the cron as the only one to refresh. *)

NoRefreshers == \A u \in User : job[u].op # "refresh" /\ job[u].at \notin {"read", "fetch"}

LEMMA NoRefreshersInductive ==
    ASSUME TypeOK, NoRefreshers, [Next]_vars, "refresh" \notin UserOps
    PROVE  NoRefreshers'
<1> DEFINE Fits(j) == j.op # "refresh" /\ j.at \notin {"read", "fetch"}
<1>0. Fits(Idle) /\ \A u \in User : u \in Actor /\ job[u] \in Job /\ Fits(job[u])
  BY DEF NoRefreshers, Idle, TypeOK, Actor
<1>1. ASSUME NEW u \in User, NEW j, Goto(u, j), Fits(j) PROVE NoRefreshers'
  BY <1>0, <1>1 DEF NoRefreshers, Goto, TypeOK
<1>2. ASSUME NEW a \in Actor, Finish(a) PROVE NoRefreshers'
  BY <1>0, <1>2 DEF NoRefreshers, Finish, Goto, TypeOK
<1>3. ASSUME NEW j, Goto(Cron, j) PROVE NoRefreshers'
  BY <1>0, <1>3, ActorAssumption DEF NoRefreshers, Goto, TypeOK
<1>4. ASSUME NEW a \in Actor, Return(a) PROVE NoRefreshers'
  BY <1>2, <1>3, <1>4 DEF Return
<1>5. ASSUME UNCHANGED job PROVE NoRefreshers'
  BY <1>5 DEF NoRefreshers
<1>6. CASE World
  BY <1>5, <1>6 DEF World, Edit, SetAccess
<1>7. ASSUME NEW u \in User, UserStarts(u) PROVE NoRefreshers'
  <2>1. ASSUME NEW s \in Source, PasteLink(u, s) PROVE NoRefreshers'
    BY <1>1, <2>1 DEF PasteLink, Idle
  <2>2. ASSUME NEW s \in Source, Mention(u, s) PROVE NoRefreshers'
    BY <1>1, <2>2 DEF Mention, Idle
  <2>3. ASSUME NEW s \in Source, PauseClick(u, s) \/ ModeClick(u, s) PROVE NoRefreshers'
    BY <1>1, <2>3 DEF PauseClick, ModeClick, Idle
  <2>4. ASSUME NEW s \in Source, DeleteSource(u, s) PROVE NoRefreshers'
    BY <1>5, <2>4 DEF DeleteSource
  <2> QED BY <1>7, <2>1, <2>2, <2>3, <2>4 DEF UserStarts, RefreshNow
<1>8. ASSUME NEW u \in User, UserContinues(u) PROVE NoRefreshers'
  <2>1. CASE Dedupe(u)
    BY <1>0, <1>1, <1>2, <2>1 DEF Dedupe, Job
  <2>2. CASE Distil(u)
    BY <1>0, <1>1, <2>2 DEF Distil, Job
  <2>3. CASE ThreadRead(u)
    BY <1>0, <1>1, <1>2, <2>3 DEF ThreadRead, Job
  <2>4. ~ReadRow(u) /\ ~FetchText(u) /\ ~FetchBlocked(u)
    BY <1>0 DEF ReadRow, FetchText, FetchBlocked, At
  <2>5. CASE InsertRow(u) \/ NotModified(u) \/ GoneRow(u) \/ ReviseThread(u)
                 \/ PauseWrite(u) \/ ModeWrite(u)
    BY <1>0, <1>2, <2>5 DEF InsertRow, NotModified, GoneRow, ReviseThread, PauseWrite, ModeWrite
  <2>6. CASE Freeze(u) \/ TouchUnchanged(u) \/ CommitChange(u)
    BY <1>0, <1>4, <2>6 DEF Freeze, TouchUnchanged, CommitChange
  <2> QED BY <1>8, <2>1, <2>2, <2>3, <2>4, <2>5, <2>6 DEF UserContinues, Continue
<1>9. CASE CronContinues
  <2> Cron \in Actor
    BY DEF Actor
  <2>1. CASE Continue(Cron)
    BY <1>2, <1>3, <1>4, <2>1
    DEF Continue, Dedupe, Distil, InsertRow, ReadRow, NotModified, FetchText, FetchBlocked,
        Freeze, TouchUnchanged, CommitChange, GoneRow
  <2> QED BY <1>2, <1>3, <1>9, <2>1 DEF CronContinues, CronTracked, Discover, StampVersion
<1>10. ASSUME NEW s \in Source, CronStarts(s) PROVE NoRefreshers'
  BY <1>3, <1>10 DEF CronStarts, CronPage, CronList
<1>11. ASSUME NEW a \in Actor, GoesWrong(a) PROVE NoRefreshers'
  BY <1>2, <1>11 DEF GoesWrong, Refused, FetchFails, Crash
<1>12. CASE UNCHANGED vars
  BY <1>5, <1>12 DEF vars
<1> QED BY <1>6, <1>7, <1>8, <1>9, <1>10, <1>11, <1>12 DEF Next
(* A row's id is spent, and so is that of the row the cron has read.       *)
IdsAreSpent ==
    /\ \A s \in Source : row[s] # NoRow => row[s].id <= inserted
    /\ job[Cron].seen # NoRow => job[Cron].seen.id <= inserted

(* A job that is on its way to a commit of what it fetches. *)
Refreshes(j) == j.at = "fetch" \/ (j.op = "refresh" /\ j.at \in {"distil", "commit"})

(* What such a job read is what the row still says, unless the row is gone,*)
(* and what it fetched is something else.                                  *)
Holding(j) ==
    /\ j.seen \in Row
    /\ j.at # "fetch" => j.text # j.seen.hash
    /\ (row[j.src] # NoRow /\ row[j.src].id = j.seen.id) =>
           row[j.src].hash = j.seen.hash /\ row[j.src].digest = j.seen.digest

CronReadsTheRow == Refreshes(job[Cron]) => Holding(job[Cron])

(* How a step can change what the cron is doing. *)
LEMMA CronJob ==
    ASSUME TypeOK, CronReadsTheRow, [Next]_vars
    PROVE  \/ job'[Cron] = job[Cron]
           \/ /\ ~Refreshes(job'[Cron])
              /\ job'[Cron].seen \in {NoRow, job[Cron].seen} \cup {row[s] : s \in Source}
           \/ /\ Stays
              /\ Holding(job'[Cron])
              /\ job'[Cron].seen \in {job[Cron].seen} \cup {row[s] : s \in Source}
<1> DEFINE c == job[Cron]
           Same == job'[Cron] = c
           Away == /\ ~Refreshes(job'[Cron])
                   /\ job'[Cron].seen \in {NoRow, c.seen} \cup {row[s] : s \in Source}
           On == /\ Stays
                 /\ Holding(job'[Cron])
                 /\ job'[Cron].seen \in {c.seen} \cup {row[s] : s \in Source}
           Goal == Same \/ Away \/ On
<1> SUFFICES Goal
  OBVIOUS
<1> Cron \in Actor /\ c \in Job
  BY DEF Actor, TypeOK
<1>0. \A s \in Source : row[s] \in {row[x] : x \in Source}
  OBVIOUS
<1>1. ASSUME NEW j, Goto(Cron, j) PROVE job'[Cron] = j
  BY <1>1 DEF Goto, TypeOK
<1>2. ASSUME NEW a \in Actor, Finish(a) PROVE Goal
  <2>1. a = Cron => Away
    BY <1>1, <1>2 DEF Finish, Idle, Refreshes
  <2>2. a # Cron => Same
    BY <1>2 DEF Finish, Goto, TypeOK
  <2> QED BY <2>1, <2>2
<1>3. CASE Return(Cron)
  <2> DEFINE j == [c EXCEPT !.at = "stamp"]
  <2>1. Goto(Cron, j) => Away
    BY <1>1 DEF Job, Refreshes
  <2> QED BY <1>2, <1>3, <2>1 DEF Return
<1>4. ASSUME NEW u \in User, NEW j, Goto(u, j) PROVE Same
  BY <1>4, ActorAssumption DEF Goto, TypeOK
<1>5. CASE World
  BY <1>5 DEF World, Edit, SetAccess
<1>6. ASSUME NEW u \in User, UserStarts(u) PROVE Goal
  BY <1>4, <1>6
  DEF UserStarts, PasteLink, RefreshNow, Mention, PauseClick, ModeClick, DeleteSource
<1>7. ASSUME NEW u \in User, UserContinues(u) PROVE Goal
  <2> u \in Actor /\ u # Cron
    BY ActorAssumption DEF Actor
  <2>1. ASSUME Return(u) PROVE Same
    BY <1>4, <2>1 DEF Return, Finish
  <2> QED BY <1>2, <1>4, <1>7, <2>1
      DEF UserContinues, Continue, Dedupe, Distil, InsertRow, ReadRow, NotModified, FetchText,
          FetchBlocked, Freeze, TouchUnchanged, CommitChange, GoneRow, ThreadRead, ReviseThread,
          PauseWrite, ModeWrite
<1>8. CASE Continue(Cron)
  <2>1. CASE Dedupe(Cron)
    <3> DEFINE j == [c EXCEPT !.at = "distil", !.op = "insert"]
    <3>1. Goto(Cron, j) => Away
      BY <1>1 DEF Job, Refreshes
    <3> QED BY <1>2, <2>1, <3>1 DEF Dedupe
  <2>2. CASE Distil(Cron)
    <3>1. PICK d \in Digest :
             Goto(Cron, [c EXCEPT !.at = "commit", !.digest = d, !.now = remote[Src(Cron)].version])
      BY <2>2 DEF Distil
    <3> DEFINE j == [c EXCEPT !.at = "commit", !.digest = d, !.now = remote[Src(Cron)].version]
    <3>2. /\ job'[Cron] = j
          /\ j.at = "commit" /\ j.op = c.op /\ j.text = c.text /\ j.seen = c.seen /\ j.src = c.src
      BY <1>1, <3>1 DEF Job
    <3>3. c.at = "distil" /\ Stays /\ UNCHANGED row
      BY <2>2 DEF Distil, At, Stays
    <3>4. CASE c.op = "refresh"
      <4>1. Holding(c)
        BY <3>3, <3>4 DEF CronReadsTheRow, Refreshes
      <4>2. Holding(j)
        BY <3>2, <3>3, <4>1 DEF Holding
      <4> QED BY <3>2, <3>3, <4>2
    <3>5. CASE c.op # "refresh"
      BY <3>2, <3>5 DEF Refreshes
    <3> QED BY <3>4, <3>5
  <2>3. CASE InsertRow(Cron) \/ NotModified(Cron) \/ GoneRow(Cron)
    BY <1>2, <2>3 DEF InsertRow, NotModified, GoneRow
  <2>4. CASE Freeze(Cron) \/ TouchUnchanged(Cron) \/ CommitChange(Cron)
    BY <1>3, <2>4 DEF Freeze, TouchUnchanged, CommitChange
  <2>5. CASE FetchBlocked(Cron)
    <3>1. PICK why \in RefusalReasons(Cron, Src(Cron)) :
             Goto(Cron, [c EXCEPT !.at = "freeze", !.reason = why])
      BY <2>5 DEF FetchBlocked
    <3> QED BY <1>1, <3>1 DEF Job, Refreshes
  <2>6. CASE ReadRow(Cron)
    <3> DEFINE j == [c EXCEPT !.at = "fetch", !.seen = row[Src(Cron)]]
    <3>1. CASE Goto(Cron, j) /\ StillThere(Cron)
      <4>1. /\ job'[Cron] = j
            /\ j.at = "fetch" /\ j.src = c.src /\ j.seen = row[Src(Cron)]
        BY <1>1, <3>1 DEF Job
      <4>2. Src(Cron) \in Source /\ row[Src(Cron)] \in Row
        BY <2>6, <3>1 DEF ReadRow, StillThere, TypeOK, Holds, At, Src
      <4>3. Holding(j)
        BY <4>1, <4>2 DEF Holding, Src
      <4> QED BY <2>6, <4>1, <4>2, <4>3 DEF ReadRow, Stays
    <3> QED BY <1>2, <2>6, <3>1 DEF ReadRow
  <2>7. CASE FetchText(Cron)
    <3> DEFINE t == remote[Src(Cron)].text
               j(v) == [c EXCEPT !.at = IF t = c.seen.hash THEN "same" ELSE "distil",
                                 !.op = "refresh", !.text = t, !.version = v]
    <3>1. PICK v \in (IF Kind(Src(Cron)) = "web" THEN {0, remote[Src(Cron)].version}
                                               ELSE {c.seen.version}) : Goto(Cron, j(v))
      BY <2>7 DEF FetchText
    <3>2. /\ job'[Cron] = j(v)
          /\ j(v).at = IF t = c.seen.hash THEN "same" ELSE "distil"
          /\ j(v).text = t /\ j(v).seen = c.seen /\ j(v).src = c.src
      BY <1>1, <3>1 DEF Job
    <3>3. c.at = "fetch" /\ Stays
      BY <2>7 DEF FetchText, At, Stays
    <3>4. CASE t = c.seen.hash
      BY <3>2, <3>4 DEF Refreshes
    <3>5. CASE t # c.seen.hash
      <4>1. Holding(c)
        BY <3>3 DEF CronReadsTheRow, Refreshes
      <4>2. Holding(j(v))
        BY <3>2, <3>5, <4>1 DEF Holding
      <4> QED BY <3>2, <3>3, <4>2
    <3> QED BY <3>4, <3>5
  <2> QED BY <1>8, <2>1, <2>2, <2>3, <2>4, <2>5, <2>6, <2>7 DEF Continue
<1>9. CASE CronTracked
  <2> DEFINE r == row[Src(Cron)]
             d == [c EXCEPT !.at = "discover"]
             t == [c EXCEPT !.at = "read", !.seen = r]
  <2>1. Src(Cron) \in Source
    BY <1>9 DEF CronTracked, TypeOK, Holds, At, Src
  <2>2. Goto(Cron, d) => Away
    BY <1>1 DEF Job, Refreshes
  <2>3. Goto(Cron, t) => Away
    BY <1>0, <1>1, <2>1 DEF Job, Refreshes
  <2> QED BY <1>2, <1>9, <2>2, <2>3 DEF CronTracked
<1>10. CASE Discover
  <2> DEFINE j == [c EXCEPT !.at = "dedupe", !.text = remote[Src(Cron)].text,
                            !.version = c.listed, !.mode = "watched"]
  <2>1. Goto(Cron, j) => Away
    BY <1>1 DEF Job, Refreshes
  <2> QED BY <1>2, <1>10, <2>1 DEF Discover
<1>11. ASSUME NEW s \in Source, CronStarts(s) PROVE Goal
  <2>1. CASE CronPage(s)
    BY <1>0, <1>1, <2>1 DEF CronPage, Idle, Refreshes
  <2>2. CASE CronList(s)
    BY <1>1, <2>2 DEF CronList, Idle, Refreshes
  <2> QED BY <1>11, <2>1, <2>2 DEF CronStarts
<1>12. ASSUME NEW a \in Actor, GoesWrong(a) PROVE Goal
  BY <1>2, <1>12 DEF GoesWrong, Refused, FetchFails, Crash
<1>13. CASE StampVersion
  BY <1>2, <1>13 DEF StampVersion
<1>14. CASE CronContinues
  BY <1>8, <1>9, <1>10, <1>13, <1>14 DEF CronContinues
<1>15. CASE UNCHANGED vars
  BY <1>15 DEF vars
<1> HIDE DEF Goal
<1> QED BY <1>5, <1>6, <1>7, <1>11, <1>12, <1>14, <1>15 DEF Next
LEMMA IdsInductive ==
    ASSUME TypeOK, IdsAreSpent, CronReadsTheRow, RowEffect, [Next]_vars
    PROVE  IdsAreSpent'
<1>0. /\ inserted \in Nat /\ job[Cron] \in Job
      /\ \A s \in Source : row[s] # NoRow => row[s].id \in Nat /\ row[s].id <= inserted
      /\ job[Cron].seen # NoRow => job[Cron].seen.id \in Nat /\ job[Cron].seen.id <= inserted
  BY DEF TypeOK, IdsAreSpent, Actor, Job, Row
<1>1. /\ inserted' \in Nat /\ inserted' >= inserted
      /\ \A s \in Source : row'[s] # NoRow => row'[s].id <= inserted'
  <2>1. CASE Stays
    BY <1>0, <2>1 DEF Stays
  <2>2. ASSUME NEW a \in Actor, Rewrites(a)
        PROVE  /\ inserted' \in Nat /\ inserted' >= inserted
               /\ \A s \in Source : row'[s] # NoRow => row'[s].id <= inserted'
    <3>1. PICK n \in Row : Write(a, n) /\ (Keeps(a, n) \/ Renews(a, n))
      BY <2>2 DEF Rewrites
    <3>2. /\ Src(a) \in Source /\ row'[Src(a)] = n
          /\ \A o \in Source \ {Src(a)} : row'[o] = row[o]
      BY <2>2, <3>1, RewriteIsLocal DEF Rewrites
    <3>3. /\ inserted' \in Nat /\ inserted' >= inserted /\ n.id <= inserted'
      BY <1>0, <3>1, <3>2 DEF Keeps, Renews, Inserts, Replaces, StillThere
    <3> QED BY <1>0, <3>2, <3>3
  <2>3. ASSUME NEW p \in Source, Retired(p), UNCHANGED inserted
        PROVE  /\ inserted' \in Nat /\ inserted' >= inserted
               /\ \A s \in Source : row'[s] # NoRow => row'[s].id <= inserted'
    BY <1>0, <2>3 DEF Retired
  <2> QED BY <2>1, <2>2, <2>3 DEF RowEffect
<1>2. job'[Cron].seen \in {NoRow, job[Cron].seen} \cup {row[s] : s \in Source}
  BY CronJob
<1>3. job'[Cron].seen # NoRow => job'[Cron].seen.id <= inserted'
  BY <1>0, <1>1, <1>2
<1> QED BY <1>1, <1>3 DEF IdsAreSpent

LEMMA CronReadsInductive ==
    ASSUME TypeOK, IdsAreSpent, CronReadsTheRow, NoRefreshers, RowEffect, [Next]_vars
    PROVE  CronReadsTheRow'
<1> DEFINE c == job[Cron]
<1>1. CASE ~Refreshes(job'[Cron])
  BY <1>1 DEF CronReadsTheRow, Refreshes
<1>2. CASE Stays /\ Holding(job'[Cron])
  BY <1>2 DEF Stays, CronReadsTheRow, Holding
<1>3. CASE job'[Cron] = c /\ Refreshes(c)
  <2>0. /\ Holding(c) /\ c.src \in Source
        /\ c.seen.id \in Nat /\ c.seen.id <= inserted /\ inserted \in Nat
    BY <1>3, NullAssumption
    DEF CronReadsTheRow, Refreshes, Holding, TypeOK, Holds, Actor, IdsAreSpent, Row
  <2>1. SUFFICES ASSUME row'[c.src] # NoRow, row'[c.src].id = c.seen.id
                 PROVE  row'[c.src].hash = c.seen.hash /\ row'[c.src].digest = c.seen.digest
    BY <1>3, <2>0 DEF CronReadsTheRow, Holding
  <2>2. CASE Stays
    BY <2>0, <2>1, <2>2 DEF Stays, Holding
  <2>3. ASSUME NEW a \in Actor, Rewrites(a)
        PROVE  row'[c.src].hash = c.seen.hash /\ row'[c.src].digest = c.seen.digest
    <3>1. PICK n \in Row : Write(a, n) /\ (Keeps(a, n) \/ Renews(a, n))
      BY <2>3 DEF Rewrites
    <3>2. /\ Src(a) \in Source /\ row'[Src(a)] = n
          /\ \A o \in Source \ {Src(a)} : row'[o] = row[o]
      BY <2>3, <3>1, RewriteIsLocal DEF Rewrites
    <3>3. a \in User
      BY <1>3, <2>3 DEF Rewrites, Actor
    <3>4. CASE c.src # Src(a)
      BY <2>0, <2>1, <3>2, <3>4 DEF Holding
    <3>5. CASE c.src = Src(a) /\ Keeps(a, n)
      BY <2>0, <2>1, <3>2, <3>5 DEF Holding, Keeps
    <3>6. CASE c.src = Src(a) /\ Renews(a, n)
      <4>1. Inserts(a, n)
        BY <3>3, <3>6 DEF Renews, Replaces, NoRefreshers
      <4> QED BY <2>0, <2>1, <3>2, <3>6, <4>1 DEF Inserts
    <3> QED BY <3>1, <3>4, <3>5, <3>6
  <2>4. ASSUME NEW p \in Source, Retired(p)
        PROVE  row'[c.src].hash = c.seen.hash /\ row'[c.src].digest = c.seen.digest
    BY <2>0, <2>1, <2>4 DEF Retired, Holding
  <2> QED BY <2>2, <2>3, <2>4 DEF RowEffect
<1> QED BY <1>1, <1>2, <1>3, CronJob

Recorded == OneRevisionPerChange /\ EmbeddingNamesTheDigest

LEMMA RecordedInductive ==
    ASSUME TypeOK, NewestRevisionIsTheRow, CronReadsTheRow, NoRefreshers, Recorded, RowEffect
    PROVE  Recorded'
<1> DEFINE Once(s) == \A i \in 1 .. Len(revisions[s]) - 1 :
                          revisions[s][i].hash # revisions[s][i + 1].hash
           Named(s) == row[s] # NoRow => row[s].embedding = DigestText[row[s].digest]
<1>0. \A s \in Source : Once(s) /\ Named(s)
  BY DEF Recorded, OneRevisionPerChange, EmbeddingNamesTheDigest
<1>1. SUFFICES ASSUME NEW s \in Source PROVE Once(s)' /\ Named(s)'
  BY DEF Recorded, OneRevisionPerChange, EmbeddingNamesTheDigest
<1>2. CASE Stays
  BY <1>0, <1>2 DEF Stays
<1>3. ASSUME NEW a \in Actor, Rewrites(a) PROVE Once(s)' /\ Named(s)'
  <2>1. PICK n \in Row : Write(a, n) /\ (Keeps(a, n) \/ Renews(a, n))
    BY <1>3 DEF Rewrites
  <2>2. /\ Src(a) \in Source /\ row'[Src(a)] = n
        /\ \A o \in Source \ {Src(a)} : row'[o] = row[o]
    BY <1>3, <2>1, RewriteIsLocal DEF Rewrites
  <2>3. CASE Keeps(a, n)
    BY <1>0, <2>2, <2>3 DEF Keeps
  <2>4. CASE Renews(a, n) /\ s # Src(a)
    <3>1. \A o \in Source \ {Src(a)} : revisions'[o] = revisions[o]
      BY <2>4, RenewalIsLast
    <3>2. revisions'[s] = revisions[s] /\ row'[s] = row[s]
      BY <2>2, <2>4, <3>1
    <3> QED BY <1>0, <3>2
  <2>5. CASE Renews(a, n) /\ s = Src(a) /\ Inserts(a, n)
    <3> DEFINE e == [hash |-> n.hash, digest |-> n.digest, status |-> n.status]
    <3>1. revisions[s] = <<>>
      BY <2>5 DEF Inserts, NewestRevisionIsTheRow
    <3>2. revisions'[s] = Append(revisions[s], e)
      BY <2>5, RenewalIsLast
    <3>3. Len(revisions'[s]) = 1
      BY <3>1, <3>2
    <3>4. n.embedding = DigestText[n.digest]
      BY <2>5 DEF Inserts
    <3> QED BY <2>2, <2>5, <3>3, <3>4
  <2>6. CASE Renews(a, n) /\ s = Src(a) /\ Replaces(a, n)
    <3> DEFINE e == [hash |-> n.hash, digest |-> n.digest, status |-> n.status]
               r == row[s]
    <3>1. a = Cron
      BY <2>6 DEF Replaces, NoRefreshers, Actor
    <3>2. Holding(job[a]) /\ job[a].at = "commit"
      BY <2>6, <3>1 DEF Renews, Replaces, At, CronReadsTheRow, Refreshes
    <3>3. r # NoRow /\ r.hash = job[a].seen.hash /\ r.digest = job[a].seen.digest
      BY <2>6, <3>2 DEF Replaces, StillThere, Holding, Src
    <3>4. n.hash # r.hash /\ n.digest = job[a].digest
      BY <2>6, <3>2, <3>3 DEF Renews, Holding
    <3>5. n.embedding = DigestText[n.digest]
      BY <1>0, <2>6, <3>3, <3>4 DEF Replaces, DigestMoved
    <3>6. revisions'[s] = Append(revisions[s], e)
      BY <2>6, RenewalIsLast
    <3>7. /\ revisions[s] \in Seq(Revision) /\ e \in Revision /\ revisions[s] # <<>>
          /\ revisions[s][Len(revisions[s])].hash = r.hash
      BY <2>6, <3>3 DEF TypeOK, Row, Revision, NewestRevisionIsTheRow, Last
    <3>8. Once(s)'
      BY <1>0, <3>4, <3>6, <3>7, AppendProperties
    <3> QED BY <2>2, <2>6, <3>5, <3>8
  <2> QED BY <2>1, <2>3, <2>4, <2>5, <2>6 DEF Renews
<1>4. ASSUME NEW p \in Source, Retired(p) PROVE Once(s)' /\ Named(s)'
  <2>1. CASE s = p
    BY <1>4, <2>1 DEF Retired, TypeOK
  <2>2. CASE s # p
    BY <1>0, <1>4, <2>2 DEF Retired, TypeOK
  <2> QED BY <2>1, <2>2
<1> QED BY <1>2, <1>3, <1>4 DEF RowEffect
SoleRefresher ==
    NoThreads /\ NoRefreshers /\ IdsAreSpent /\ CronReadsTheRow /\ Recorded

LEMMA SoleRefresherInvariant ==
    ASSUME "mention" \notin UserOps, "refresh" \notin UserOps
    PROVE  Spec => []SoleRefresher
<1>1. Init => SoleRefresher
  BY DEF Init, SoleRefresher, NoThreads, NoRefreshers, IdsAreSpent, CronReadsTheRow, Refreshes,
         Recorded, OneRevisionPerChange, EmbeddingNamesTheDigest, Idle, Actor
<1>2. TypeOK /\ NewestRevisionIsTheRow /\ SoleRefresher /\ [Next]_vars => SoleRefresher'
  <2> SUFFICES ASSUME TypeOK, NewestRevisionIsTheRow, SoleRefresher, [Next]_vars
               PROVE  SoleRefresher'
    OBVIOUS
  <2> USE DEF SoleRefresher
  <2>1. NoThreads' /\ RowEffect
    BY NoThreadsInductive, StepRowEffect
  <2>2. NoRefreshers'
    BY NoRefreshersInductive
  <2>3. IdsAreSpent' /\ CronReadsTheRow'
    BY <2>1, IdsInductive, CronReadsInductive
  <2>4. Recorded'
    BY <2>1, RecordedInductive
  <2> QED BY <2>1, <2>2, <2>3, <2>4
<1> QED BY <1>1, <1>2, TypeCorrect, RowIsNewestRevision, PTL DEF Spec

(* A change of a document is recorded once, whatever pastes, pauses, mode  *)
(* toggles, deletes and crashes happen between the cron's reading of a row *)
(* and its commit: Gate 2 still compares with the row's own text, because  *)
(* nobody else writes texts and a re-pasted source has another id.         *)
THEOREM ChangesAreRecordedOnce ==
    ASSUME "mention" \notin UserOps, "refresh" \notin UserOps
    PROVE  Spec => []OneRevisionPerChange
<1>1. SoleRefresher => OneRevisionPerChange
  BY DEF SoleRefresher, Recorded
<1> QED BY <1>1, SoleRefresherInvariant, PTL

(* Under the same condition the vector that search ranks by is that of the *)
(* digest it shows, although a commit rewrites it only when the digest's   *)
(* text differs from the one read before.                                  *)
THEOREM VectorsNameTheirDigest ==
    ASSUME "mention" \notin UserOps, "refresh" \notin UserOps
    PROVE  Spec => []EmbeddingNamesTheDigest
<1>1. SoleRefresher => EmbeddingNamesTheDigest
  BY DEF SoleRefresher, Recorded
<1> QED BY <1>1, SoleRefresherInvariant, PTL

=============================================================================
