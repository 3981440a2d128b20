---------------------------- MODULE SourceRefresh ----------------------------
(***************************************************************************)
(* The life of one ingested source: the ContextUrl row, its ContextRevision*)
(* history, and everybody who writes them at the same time.                *)
(*                                                                         *)
(* The writers are requests: the cron worker (at most one, it holds the    *)
(* single-flight lock: module RefreshCycle) and any number of user or Chat *)
(* requests.  No lock is taken on a row, and every "await" of the code is  *)
(* a point where the others run, so each request is a small program whose  *)
(* position and local variables live in job[a]:                            *)
(*                                                                         *)
(*   ingest     fetch, dedupe, distil, insert         (lib/ingest.ts)      *)
(*   refresh    read row, fetch, distil, commit       (lib/refresh.ts)     *)
(*   sweep      list Drive, read row, refresh, stamp  (lib/driveSync.ts)   *)
(*   mention    read thread, distil, revise           (lib/chatEvents.ts)  *)
(*   pause/mode read row, write row            (app/actions/context.ts)    *)
(*                                                                         *)
(* Data is kept to what the properties tell apart.  A text is a model      *)
(* value, and hashContent is taken to separate texts, so contentHash is    *)
(* the text itself.  A digest is a model value; DigestText is the string   *)
(* that digestToText serialises it to (two digests may share it: people    *)
(* and status are not in the string).  Time is counted in versions of the  *)
(* remote document, which is all that the one comparison of two timestamps *)
(* (modifiedTime > lastChangedAt) needs.  lastCheckedAt schedules and does *)
(* nothing else: it belongs to RefreshCycle.                               *)
(***************************************************************************)
EXTENDS Naturals, Sequences

CONSTANTS
    Source,         \* one element per sourceRef
    Kinds,          \* the connectors in this instance: a subset of AllKinds
    User,           \* requests of people and of Google Chat
    Cron,           \* the cron worker's request
    UserOps,        \* what users do in this instance: a subset of AllOps
    Throttling,     \* may Drive refuse a listed document with a 403 for the moment?
    Text,           \* what a document can say
    Digest,         \* what the model can make of it
    DigestText,     \* DigestText[d]: digestToText(d), the text that is embedded
    DigestStatus,   \* DigestStatus[d]: the extracted sourceStatus
    NoRow,          \* no ContextUrl row
    Nil,            \* a local variable not in use
    MaxVersion,     \* bound: versions of a remote document
    MaxRows,        \* bound: rows ever inserted
    MaxRevisions,   \* bound: revisions of one row that a Chat mention adds to
    MaxFaults       \* bound: failed fetches, refused distillations, crashes

AllKinds == {"web", "drive", "chat"}
AllOps == {"paste", "refresh", "pause", "mode", "delete", "mention"}
Statuses == {"open", "resolved"}

ASSUME SourceAssumption == Kinds \subseteq AllKinds
ASSUME ActorAssumption == Cron \notin User /\ UserOps \subseteq AllOps
ASSUME DriveAssumption == Throttling \in BOOLEAN
ASSUME DigestAssumption ==
    /\ DOMAIN DigestText = Digest
    /\ DigestStatus \in [Digest -> Statuses]
ASSUME BoundAssumption ==
    /\ MaxVersion \in Nat \ {0}
    /\ {MaxRows, MaxRevisions, MaxFaults} \subseteq Nat

Actor == User \cup {Cron}
Versions == 0 .. MaxVersion          \* 0 is a null sourceVersion
Modes == {"watched", "snapshot"}
(* frozenAt and frozenReason are always written together: one field, with  *)
(* "no" for a row that is not frozen.                                      *)
Frozen == {"no", "user-paused", "resolved", "deleted", "access-revoked", "auth-required"}

Row == [id : Nat, mode : Modes, frozen : Frozen, hash : Text, version : Versions,
        digest : Digest, embedding : {DigestText[d] : d \in Digest}, mentions : Digest,
        status : Statuses, changedAt : Versions]
Revision == [hash : Text, digest : Digest, status : Statuses]

ASSUME NullAssumption == NoRow \notin Row

VARIABLES
    remote,     \* remote[s]: the document: where it lives, its text, version and access
    row,        \* row[s]: the ContextUrl row whose sourceRef is s, or NoRow
    revisions,  \* revisions[s]: the ContextRevision rows of that row
    inserted,   \* rows inserted so far: the autoincrement behind row ids
    job,        \* job[a]: where request a is, and what it holds
    faults      \* faults so far

vars == <<remote, row, revisions, inserted, job, faults>>

Positions == {"idle", "listed", "read", "fetch", "freeze", "same", "distil", "commit",
              "dedupe", "discover", "thread", "stamp", "setPause", "setMode"}

Job == [at : Positions, src : Source \cup {Nil}, op : {"none", "refresh", "insert", "revise"},
        seen : Row \cup {NoRow}, text : Text \cup {Nil}, version : Versions,
        listed : Versions, modified : Versions, mode : Modes, reason : Frozen, digest : Digest \cup {Nil},
        now : Versions]

Idle == [at |-> "idle", src |-> Nil, op |-> "none", seen |-> NoRow, text |-> Nil,
         version |-> 0, listed |-> 0, modified |-> 0, mode |-> "watched", reason |-> "no",
         digest |-> Nil, now |-> 0]

Access == {"live", "denied", "gone"}
Remote == [kind : AllKinds, text : Text, version : 1 .. MaxVersion,
           modified : 1 .. MaxVersion, access : Access]

(* What a request must hold at each position of its program. *)
Holds(j) ==
    /\ j.at # "idle" => j.src \in Source
    /\ j.at \in {"dedupe", "distil", "commit", "same", "thread"} => j.text \in Text
    /\ j.at = "commit" => j.digest \in Digest
    /\ j.at = "fetch" => j.seen \in Row

TypeOK ==
    /\ remote \in [Source -> Remote]
    /\ row \in [Source -> Row \cup {NoRow}]
    /\ revisions \in [Source -> Seq(Revision)]
    /\ inserted \in Nat
    /\ job \in [Actor -> Job]
    /\ faults \in 0 .. MaxFaults
    /\ \A a \in Actor : Holds(job[a])

Init ==
    /\ remote \in
        [Source -> [kind : Kinds, text : Text, version : {1}, modified : {1}, access : {"live"}]]
    /\ row = [s \in Source |-> NoRow]
    /\ revisions = [s \in Source |-> <<>>]
    /\ inserted = 0
    /\ job = [a \in Actor |-> Idle]
    /\ faults = 0

-----------------------------------------------------------------------------
(* Local steps of a request. *)

Kind(s) == remote[s].kind
At(a, where) == job[a].at = where
Src(a) == job[a].src

(* The row the request read is still there; a deleted row is not found by  *)
(* its id even when the source was pasted again.                           *)
StillThere(a) ==
    /\ row[Src(a)] # NoRow
    /\ row[Src(a)].id = job[a].seen.id

Goto(a, j) == job' = [job EXCEPT ![a] = j]
Finish(a) == Goto(a, Idle)

(* refreshSource returning to its caller: the Drive sweep goes on to record*)
(* the listed version, every other caller is done.                         *)
Return(a) ==
    IF a = Cron /\ Kind(Src(a)) = "drive"
    THEN Goto(a, [job[a] EXCEPT !.at = "stamp"])
    ELSE Finish(a)

Write(a, r) == row' = [row EXCEPT ![Src(a)] = r]

(* Mutant of Record: history is overwritten. *)
RecordOverwrites(a, text) ==
    revisions' = [revisions EXCEPT ![Src(a)] =
        <<[hash |-> text, digest |-> job[a].digest, status |-> DigestStatus[job[a].digest]]>>]

Record(a, text) ==
    revisions' = [revisions EXCEPT ![Src(a)] =
        Append(@, [hash |-> text, digest |-> job[a].digest, status |-> DigestStatus[job[a].digest]])]

(* Who can read the document: a signed-in user's own Drive token may open  *)
(* what the service account may not, and the other way round.              *)
Readable(a, s) ==
    \/ Kind(s) # "chat" /\ remote[s].access = "live"
    \/ Kind(s) = "drive" /\ a \in User /\ remote[s].access = "denied"

Fault == faults < MaxFaults /\ faults' = faults + 1

(* An update of a row that is gone throws (P2025) and the request ends.    *)
GoneRow(a) ==
    /\ \/ At(a, "freeze") \/ At(a, "same") \/ At(a, "stamp")
       \/ At(a, "setPause") \/ At(a, "setMode")
       \/ At(a, "commit") /\ job[a].op \in {"refresh", "revise"}
    /\ ~StillThere(a)
    /\ Finish(a)
    /\ UNCHANGED <<remote, row, revisions, inserted, faults>>

(* The process serving the request is killed. *)
Crash(a) ==
    /\ ~At(a, "idle")
    /\ Fault
    /\ Finish(a)
    /\ UNCHANGED <<remote, row, revisions, inserted>>
-----------------------------------------------------------------------------
(* Mutants: what a plausible mistake would make of the actions below.  No  *)
(* specification uses them; each breaks a property of this module.         *)

(* The outcome "frozen" is stored where its reason belongs. *)
FreezeWithoutReason(a) ==
    /\ At(a, "freeze")
    /\ StillThere(a)
    /\ Write(a, [row[Src(a)] EXCEPT !.frozen = "frozen"])
    /\ Return(a)
    /\ UNCHANGED <<remote, revisions, inserted, faults>>

(* The commit of a change, by what it forgets. *)
CommitForgetting(a, forgotten) ==
    LET d == job[a].digest
        new == [digest |-> d, hash |-> job[a].text, version |-> job[a].version,
                status |-> DigestStatus[d], mentions |-> d, changedAt |-> job[a].now,
                embedding |-> DigestText[d],
                frozen |-> IF DigestStatus[d] = "resolved" THEN "resolved" ELSE "no"]
    IN  /\ At(a, "commit")
        /\ job[a].op = "refresh"
        /\ StillThere(a)
        /\ Write(a, [f \in DOMAIN row[Src(a)] |->
                        IF f \in DOMAIN new \ forgotten THEN new[f] ELSE row[Src(a)][f]])
        /\ IF "revision" \in forgotten THEN UNCHANGED revisions ELSE Record(a, job[a].text)
        /\ Return(a)
        /\ UNCHANGED <<remote, inserted, faults>>

CommitWithoutRevision(a) == CommitForgetting(a, {"revision"})
CommitWithoutMentions(a) == CommitForgetting(a, {"mentions"})
CommitWithoutVector(a) == CommitForgetting(a, {"embedding"})

(* The sweep stamps the version the document has by now. *)
StampLatestVersion ==
    /\ At(Cron, "stamp")
    /\ StillThere(Cron)
    /\ Write(Cron, [row[Src(Cron)] EXCEPT !.version = remote[Src(Cron)].version])
    /\ Finish(Cron)
    /\ UNCHANGED <<remote, revisions, inserted, faults>>

(* A document nobody ingested is left for somebody to paste. *)
TrackedOnly ==
    LET r == row[Src(Cron)] IN
    /\ At(Cron, "listed")
    /\ IF r # NoRow /\ r.mode = "watched"
       THEN Goto(Cron, [job[Cron] EXCEPT !.at = "read", !.seen = r])
       ELSE Finish(Cron)
    /\ UNCHANGED <<remote, row, revisions, inserted, faults>>

(* 304 is believed whatever ETag was sent. *)
AlwaysNotModified(a) ==
    /\ At(a, "fetch")
    /\ Kind(Src(a)) = "web"
    /\ Finish(a)
    /\ UNCHANGED <<remote, row, revisions, inserted, faults>>

-----------------------------------------------------------------------------
(* The world outside: documents are edited, hidden, deleted, restored. *)

Edit(s) ==
    /\ remote[s].version < MaxVersion
    /\ \E t \in Text :
           remote' = [remote EXCEPT ![s].text = t, ![s].version = @ + 1,
                                    ![s].modified = remote[s].version + 1]
    /\ UNCHANGED <<row, revisions, inserted, job, faults>>

(* Sharing is part of a Drive file: its version moves, its modifiedTime    *)
(* does not.  An ETag names a content, whoever may read it.                *)
SetAccess(s) ==
    /\ Kind(s) = "drive" => remote[s].version < MaxVersion
    /\ \E acc \in Access \ {remote[s].access} :
           remote' = [remote EXCEPT ![s].access = acc,
                                    ![s].version = IF Kind(s) = "drive" THEN @ + 1 ELSE @]
    /\ UNCHANGED <<row, revisions, inserted, job, faults>>

-----------------------------------------------------------------------------
(* Ingest (lib/ingest.ts).  The text is in hand when ingestContent starts. *)

(* quickIngestAction -> ingestLink: a web page keeps its ETag, when the    *)
(* server sent one; a pasted Google Doc keeps no version.                  *)
PasteLink(u, s) ==
    /\ "paste" \in UserOps
    /\ At(u, "idle")
    /\ Readable(u, s)
    /\ \E m \in Modes, v \in (IF Kind(s) = "web" THEN {0, remote[s].version} ELSE {0}) :
           Goto(u, [Idle EXCEPT !.at = "dedupe", !.src = s, !.text = remote[s].text,
                                !.version = v, !.mode = m])
    /\ UNCHANGED <<remote, row, revisions, inserted, faults>>

(* ingestContent's first look: one source, one row, and no model call for  *)
(* a source that is already here.                                          *)
Dedupe(a) ==
    /\ At(a, "dedupe")
    /\ IF row[Src(a)] # NoRow
       THEN Finish(a)
       ELSE Goto(a, [job[a] EXCEPT !.at = "distil", !.op = "insert"])
    /\ UNCHANGED <<remote, row, revisions, inserted, faults>>

(* summarizeDocument and embedForStorage answer; "now" is read here, before*)
(* the write.                                                              *)
Distil(a) ==
    /\ At(a, "distil")
    /\ \E d \in Digest :
           Goto(a, [job[a] EXCEPT !.at = "commit", !.digest = d, !.now = remote[Src(a)].version])
    /\ UNCHANGED <<remote, row, revisions, inserted, faults>>

(* Either call is refused: the request returns and the row is untouched. *)
Refused(a) ==
    /\ At(a, "distil")
    /\ Fault
    /\ Finish(a)
    /\ UNCHANGED <<remote, row, revisions, inserted>>

(* Row, mentions and initial revision in one transaction; the unique       *)
(* sourceRef turns the loser of a race into a duplicate.  (MaxRows bounds  *)
(* what is inserted again after a delete.)                                 *)
InsertRow(a) ==
    /\ At(a, "commit")
    /\ job[a].op = "insert"
    /\ row[Src(a)] = NoRow => inserted < MaxRows
    /\ IF row[Src(a)] # NoRow
       THEN UNCHANGED <<row, revisions, inserted>>
       ELSE /\ Write(a, [id |-> inserted + 1, mode |-> job[a].mode, frozen |-> "no",
                         hash |-> job[a].text, version |-> job[a].version,
                         digest |-> job[a].digest, embedding |-> DigestText[job[a].digest],
                         mentions |-> job[a].digest, status |-> DigestStatus[job[a].digest],
                         changedAt |-> job[a].now])
            /\ Record(a, job[a].text)
            /\ inserted' = inserted + 1
    /\ Finish(a)
    /\ UNCHANGED <<remote, faults>>

-----------------------------------------------------------------------------
(* refreshSource (lib/refresh.ts). *)

(* "Refresh now" on the row the page shows. *)
RefreshNow(u, s) ==
    /\ "refresh" \in UserOps
    /\ At(u, "idle")
    /\ row[s] # NoRow
    /\ row[s].mode = "watched"
    /\ Goto(u, [Idle EXCEPT !.at = "fetch", !.src = s, !.seen = row[s]])
    /\ UNCHANGED <<remote, row, revisions, inserted, faults>>

(* The cron's refreshSource reads the row again, by the id it picked. *)
ReadRow(a) ==
    /\ At(a, "read")
    /\ IF StillThere(a) /\ row[Src(a)].mode = "watched"
       THEN Goto(a, [job[a] EXCEPT !.at = "fetch", !.seen = row[Src(a)]])
       ELSE Finish(a)
    /\ UNCHANGED <<remote, row, revisions, inserted, faults>>

(* What is read as which refusal.  Drive says 403 or 404 of a document that *)
(* is not shared with the caller; a 404 is taken for a deletion, and a 403 *)
(* that only says "too many requests" for a withdrawn share.               *)
RefusalReasons(a, s) ==
    CASE Kind(s) = "chat" -> {"auth-required"}
      [] remote[s].access = "gone" -> {"deleted"}
      [] Kind(s) = "web" /\ remote[s].access = "denied" -> {"auth-required"}
      [] Kind(s) = "drive" /\ (a \in User \/ remote[s].access = "denied") ->
            {"access-revoked", "deleted"}
      [] Kind(s) = "drive" /\ Throttling -> {"access-revoked"}
      [] OTHER -> {}

(* Mutant of FetchText: no Gate 2, every fetched text is distilled. *)
FetchAlwaysDistils(a) ==
    /\ At(a, "fetch")
    /\ Readable(a, Src(a))
    /\ Goto(a, [job[a] EXCEPT !.at = "distil", !.op = "refresh", !.text = remote[Src(a)].text])
    /\ UNCHANGED <<remote, row, revisions, inserted, faults>>

(* Gate 1: a conditional GET on the stored ETag answers 304. *)
NotModified(a) ==
    /\ At(a, "fetch")
    /\ Kind(Src(a)) = "web"
    /\ Readable(a, Src(a))
    /\ job[a].seen.version # 0
    /\ job[a].seen.version = remote[Src(a)].version
    /\ Finish(a)
    /\ UNCHANGED <<remote, row, revisions, inserted, faults>>

(* The text arrives, and Gate 2 compares it with the hash of the row as it *)
(* was READ.  A web page brings its ETag or none; Drive keeps the version  *)
(* of the row that was read.                                               *)
FetchText(a) ==
    LET s == Src(a) IN
    /\ At(a, "fetch")
    /\ Readable(a, s)
    /\ Kind(s) = "web" => (job[a].seen.version = 0 \/ job[a].seen.version # remote[s].version)
    /\ \E v \in (IF Kind(s) = "web" THEN {0, remote[s].version} ELSE {job[a].seen.version}) :
           Goto(a, [job[a] EXCEPT
                      !.at = IF remote[s].text = job[a].seen.hash THEN "same" ELSE "distil",
                      !.op = "refresh", !.text = remote[s].text, !.version = v])
    /\ UNCHANGED <<remote, row, revisions, inserted, faults>>

(* An auth wall, a 401/403 or a 404/410: the row is going to be frozen. *)
FetchBlocked(a) ==
    /\ At(a, "fetch")
    /\ \E why \in RefusalReasons(a, Src(a)) :
           Goto(a, [job[a] EXCEPT !.at = "freeze", !.reason = why])
    /\ UNCHANGED <<remote, row, revisions, inserted, faults>>

(* A timeout, a 5xx, an unsupported type: nothing is written. *)
FetchFails(a) ==
    /\ At(a, "fetch")
    /\ Fault
    /\ Finish(a)
    /\ UNCHANGED <<remote, row, revisions, inserted>>

Freeze(a) ==
    /\ At(a, "freeze")
    /\ StillThere(a)
    /\ Write(a, [row[Src(a)] EXCEPT !.frozen = job[a].reason])
    /\ Return(a)
    /\ UNCHANGED <<remote, revisions, inserted, faults>>

(* Gate 2 said "same text": the version is stored and any freeze is lifted.*)
TouchUnchanged(a) ==
    /\ At(a, "same")
    /\ StillThere(a)
    /\ Write(a, [row[Src(a)] EXCEPT !.version = job[a].version, !.frozen = "no"])
    /\ Return(a)
    /\ UNCHANGED <<remote, revisions, inserted, faults>>

(* The digest changed, by comparison with the row as it was READ. *)
DigestMoved(a) == DigestText[job[a].digest] # DigestText[job[a].seen.digest]

(* One transaction: row, revision, mentions, and the vector if the digest  *)
(* text moved.  It writes over whatever the row has become since the read. *)
CommitChange(a) ==
    LET d == job[a].digest IN
    /\ At(a, "commit")
    /\ job[a].op = "refresh"
    /\ StillThere(a)
    /\ Write(a, [row[Src(a)] EXCEPT
                   !.digest = d, !.hash = job[a].text, !.version = job[a].version,
                   !.status = DigestStatus[d], !.mentions = d, !.changedAt = job[a].now,
                   !.embedding = IF DigestMoved(a) THEN DigestText[d] ELSE @,
                   !.frozen = IF DigestStatus[d] = "resolved" THEN "resolved" ELSE "no"])
    /\ Record(a, job[a].text)
    /\ Return(a)
    /\ UNCHANGED <<remote, inserted, faults>>

-----------------------------------------------------------------------------
(* The cron worker's way to a source.  Which source, and how many, is      *)
(* RefreshCycle's business.                                                *)

(* runRefreshCycle's page: watched and not frozen, Drive excluded.  The row*)
(* may be anything by the time its turn comes.                             *)
CronPage(s) ==
    /\ At(Cron, "idle")
    /\ Kind(s) # "drive"
    /\ row[s] # NoRow
    /\ row[s].mode = "watched"
    /\ row[s].frozen = "no"
    /\ Goto(Cron, [Idle EXCEPT !.at = "read", !.src = s, !.seen = row[s]])
    /\ UNCHANGED <<remote, row, revisions, inserted, faults>>

(* runDriveSync lists what is shared with the service account now. *)
CronList(s) ==
    /\ At(Cron, "idle")
    /\ Kind(s) = "drive"
    /\ remote[s].access = "live"
    /\ Goto(Cron, [Idle EXCEPT !.at = "listed", !.src = s, !.listed = remote[s].version,
                               !.modified = remote[s].modified])
    /\ UNCHANGED <<remote, row, revisions, inserted, faults>>

(* Gate 1 of the sweep, from the listing: the version moved, the document  *)
(* was modified after the row last changed, or the row has no version.     *)
Moved(r, listed, modified) ==
    \/ r.version = 0
    \/ r.version # listed
    \/ r.changedAt < modified

(* Then it reads the rows it tracks: unknown ones are ingested, moved ones *)
(* refreshed, unless a freeze other than access-revoked stands.            *)
CronTracked ==
    LET r == row[Src(Cron)] IN
    /\ At(Cron, "listed")
    /\ CASE r = NoRow -> Goto(Cron, [job[Cron] EXCEPT !.at = "discover"])
         [] r # NoRow /\ r.mode = "watched" /\ r.frozen \in {"no", "access-revoked"}
              /\ Moved(r, job[Cron].listed, job[Cron].modified) ->
                Goto(Cron, [job[Cron] EXCEPT !.at = "read", !.seen = r])
         [] OTHER -> Finish(Cron)
    /\ UNCHANGED <<remote, row, revisions, inserted, faults>>

Discover ==
    /\ At(Cron, "discover")
    /\ IF remote[Src(Cron)].access = "live"
       THEN Goto(Cron, [job[Cron] EXCEPT !.at = "dedupe", !.text = remote[Src(Cron)].text,
                                         !.version = job[Cron].listed, !.mode = "watched"])
       ELSE Finish(Cron)
    /\ UNCHANGED <<remote, row, revisions, inserted, faults>>

(* After a refresh that returned ok: "the Drive version the content now    *)
(* corresponds to", in an update of its own.                               *)
StampVersion ==
    /\ At(Cron, "stamp")
    /\ StillThere(Cron)
    /\ Write(Cron, [row[Src(Cron)] EXCEPT !.version = job[Cron].listed])
    /\ Finish(Cron)
    /\ UNCHANGED <<remote, revisions, inserted, faults>>

-----------------------------------------------------------------------------
(* Google Chat mentions (snapshotThread, lib/chatEvents.ts). *)

(* The thread as of now, or only the mentioning message when history is    *)
(* off: either way some text.                                              *)
Mention(u, s) ==
    /\ "mention" \in UserOps
    /\ At(u, "idle")
    /\ Kind(s) = "chat"
    /\ Len(revisions[s]) < MaxRevisions
    /\ \E t \in Text :
           Goto(u, [Idle EXCEPT !.at = "thread", !.src = s, !.text = t, !.mode = "snapshot"])
    /\ UNCHANGED <<remote, row, revisions, inserted, faults>>

ThreadRead(u) ==
    LET r == row[Src(u)] IN
    /\ At(u, "thread")
    /\ CASE r = NoRow -> Goto(u, [job[u] EXCEPT !.at = "dedupe"])
         [] r # NoRow /\ r.hash = job[u].text -> Finish(u)
         [] OTHER -> Goto(u, [job[u] EXCEPT !.at = "distil", !.op = "revise", !.seen = r])
    /\ UNCHANGED <<remote, row, revisions, inserted, faults>>

(* The re-mention's transaction writes the digest and the hash, and neither*)
(* the vector, nor the mentions, nor sourceStatus.                         *)
ReviseThread(u) ==
    /\ At(u, "commit")
    /\ job[u].op = "revise"
    /\ StillThere(u)
    /\ Write(u, [row[Src(u)] EXCEPT !.digest = job[u].digest, !.hash = job[u].text,
                                    !.changedAt = remote[Src(u)].version])
    /\ Record(u, job[u].text)
    /\ Finish(u)
    /\ UNCHANGED <<remote, inserted, faults>>

-----------------------------------------------------------------------------
(* Manage -> Sources (app/actions/context.ts) and the delete of a card     *)
(* (app/actions/status.ts).                                                *)

PauseClick(u, s) ==
    /\ "pause" \in UserOps
    /\ At(u, "idle")
    /\ row[s] # NoRow
    /\ Goto(u, [Idle EXCEPT !.at = "setPause", !.src = s, !.seen = row[s]])
    /\ UNCHANGED <<remote, row, revisions, inserted, faults>>

PauseWrite(u) ==
    /\ At(u, "setPause")
    /\ StillThere(u)
    /\ Write(u, [row[Src(u)] EXCEPT !.frozen =
                   IF job[u].seen.frozen = "user-paused" THEN "no" ELSE "user-paused"])
    /\ Finish(u)
    /\ UNCHANGED <<remote, revisions, inserted, faults>>

ModeClick(u, s) ==
    /\ "mode" \in UserOps
    /\ At(u, "idle")
    /\ row[s] # NoRow
    /\ Goto(u, [Idle EXCEPT !.at = "setMode", !.src = s, !.seen = row[s]])
    /\ UNCHANGED <<remote, row, revisions, inserted, faults>>

ModeWrite(u) ==
    /\ At(u, "setMode")
    /\ StillThere(u)
    /\ Write(u, [row[Src(u)] EXCEPT
                   !.mode = IF job[u].seen.mode = "watched" THEN "snapshot" ELSE "watched",
                   !.frozen = "no"])
    /\ Finish(u)
    /\ UNCHANGED <<remote, revisions, inserted, faults>>

(* Revisions and row go together.                                          *)
DeleteSource(u, s) ==
    /\ "delete" \in UserOps
    /\ At(u, "idle")
    /\ row[s] # NoRow
    /\ row' = [row EXCEPT ![s] = NoRow]
    /\ revisions' = [revisions EXCEPT ![s] = <<>>]
    /\ UNCHANGED <<remote, inserted, job, faults>>

-----------------------------------------------------------------------------

World == \E s \in Source : Edit(s) \/ SetAccess(s)

UserStarts(u) ==
    \E s \in Source :
        \/ PasteLink(u, s) \/ RefreshNow(u, s) \/ Mention(u, s)
        \/ PauseClick(u, s) \/ ModeClick(u, s) \/ DeleteSource(u, s)

CronStarts(s) == CronPage(s) \/ CronList(s)

(* What a request does once started, left to itself. *)
Continue(a) ==
    \/ Dedupe(a) \/ Distil(a) \/ InsertRow(a)
    \/ ReadRow(a) \/ NotModified(a) \/ FetchText(a) \/ FetchBlocked(a)
    \/ Freeze(a) \/ TouchUnchanged(a) \/ CommitChange(a) \/ GoneRow(a)

CronContinues == Continue(Cron) \/ CronTracked \/ Discover \/ StampVersion
UserContinues(u) ==
    Continue(u) \/ ThreadRead(u) \/ ReviseThread(u) \/ PauseWrite(u) \/ ModeWrite(u)

GoesWrong(a) == Refused(a) \/ FetchFails(a) \/ Crash(a)

Next ==
    \/ World
    \/ \E u \in User : UserStarts(u) \/ UserContinues(u)
    \/ \E s \in Source : CronStarts(s)
    \/ CronContinues
    \/ \E a \in Actor : GoesWrong(a)

Spec == Init /\ [][Next]_vars

(* Cloud Scheduler calls the worker again and again, and a request that is *)
(* not killed goes on to its end.  Users and the world owe nothing.        *)
Fairness ==
    /\ \A s \in Source : WF_vars(CronStarts(s))
    /\ WF_vars(CronContinues)
    /\ \A u \in User : WF_vars(UserContinues(u))

FairSpec == Spec /\ Fairness

-----------------------------------------------------------------------------
(* Safety. *)

Last(seq) == seq[Len(seq)]

(* What search reads is what history says: a row's hash and digest are     *)
(* those of its newest revision, whoever wrote last and however the writes *)
(* of concurrent refreshes, re-mentions, toggles and deletes interleave    *)
(* (refresh.ts commits both in one transaction).                           *)
NewestRevisionIsTheRow ==
    \A s \in Source :
        IF row[s] = NoRow
        THEN revisions[s] = <<>>
        ELSE /\ revisions[s] # <<>>
             /\ Last(revisions[s]).hash = row[s].hash
             /\ Last(revisions[s]).digest = row[s].digest

(* The OPEN/RESOLVED prefix that summaries put on a source (summaries.ts   *)
(* lifecyclePrefix reads the row) agrees with the newest revision.         *)
StatusFollowsNewestRevision ==
    \A s \in Source : row[s] # NoRow => row[s].status = Last(revisions[s]).status

(* The people linked to a source are those of the digest it shows, never   *)
(* of an older one: refresh rewrites them even when the text stays.        *)
MentionsNameTheDigest == \A s \in Source : row[s] # NoRow => row[s].mentions = row[s].digest

(* Search ranks by the vector of the digest it shows: the vector is only   *)
(* rewritten when the text moved, so a wrong comparison is never repaired. *)
EmbeddingNamesTheDigest ==
    \A s \in Source : row[s] # NoRow => row[s].embedding = DigestText[row[s].digest]

(* A change of the document is recorded once: two neighbouring revisions   *)
(* never carry the same content hash (Gate 2).                             *)
OneRevisionPerChange ==
    \A s \in Source : \A i \in 1 .. Len(revisions[s]) - 1 :
        revisions[s][i].hash # revisions[s][i + 1].hash

Quiet(s) == \A a \in Actor : Src(a) # s

(* When nobody is working on a source, a row that lags behind its document *)
(* can still be told from a fresh one by Gate 1: the ETag differs from the *)
(* server's, or the Drive sweep sees a moved version or a later edit.  If  *)
(* this fails once, the row is stale until somebody edits the document.    *)
StaleIsDetectable ==
    \A s \in Source :
        (Quiet(s) /\ row[s] # NoRow /\ row[s].hash # remote[s].text) =>
            CASE Kind(s) = "web" -> row[s].version # remote[s].version
              [] Kind(s) = "drive" -> Moved(row[s], remote[s].version, remote[s].modified)
              [] OTHER -> TRUE

-----------------------------------------------------------------------------
(* Refinement.                                                             *)

(* The abstract history, with the row as its newest entry. *)
ShownPart(e) == [hash |-> e.hash, digest |-> e.digest]
ShownRow == [s \in Source |-> IF row[s] = NoRow THEN NoRow ELSE ShownPart(row[s])]

History == INSTANCE RevisionLog WITH
    Entry <- Revision, Nothing <- NoRow, Shown <- ShownPart,
    current <- ShownRow, log <- revisions

(* Every step of every writer appends exactly one revision and shows it,   *)
(* deletes a whole history, or leaves both alone.                          *)
ImplementsRevisionLog == History!Spec

-----------------------------------------------------------------------------
(* Liveness. *)

Fresh(s) == row[s] # NoRow /\ row[s].hash = remote[s].text

(* The cron looks after this source. *)
Followed(s) ==
    /\ row[s] # NoRow
    /\ row[s].mode = "watched"
    /\ remote[s].access = "live"
    /\ row[s].frozen \in IF Kind(s) = "drive" THEN {"no", "access-revoked"} ELSE {"no"}

(* A watched source that stays readable and unfrozen ends up showing what  *)
(* the document says, once edits and faults are over, even though a killed *)
(* worker may leave a version unstamped.                                   *)
FollowedSourcesConverge == \A s \in Source : <>[]Followed(s) => <>[]Fresh(s)

(* A document shared with the service account and left shared is ingested. *)
SharedDocsAreDiscovered ==
    \A s \in Source :
        (Kind(s) = "drive" /\ <>[](remote[s].access = "live")) => <>(row[s] # NoRow)
=============================================================================
