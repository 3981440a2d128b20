----------------------------- MODULE RevisionLog -----------------------------
(***************************************************************************)
(* What the ContextUrl / ContextRevision pair promises its readers, with   *)
(* nothing of how a source is fetched or distilled: every source has one   *)
(* history, the history only grows, and what search and the summaries read *)
(* (the row) is always the newest entry of that history.  Deleting a       *)
(* source deletes its history with it.                                     *)
(*                                                                         *)
(* docs/INGEST_FRESHNESS_PLAN.md section 7: "revisions are append-only".   *)
(***************************************************************************)
EXTENDS Sequences

CONSTANTS
    Source,     \* the things that can be ingested, one per sourceRef
    Entry,      \* what one ContextRevision can hold
    Nothing,    \* a source that has no row
    Shown(_)    \* the part of an entry that the row repeats

VARIABLES
    current,    \* current[s]: what the row of s shows
    log         \* log[s]: the revisions of s, oldest first

vars == <<current, log>>

Init ==
    /\ current = [s \in Source |-> Nothing]
    /\ log = [s \in Source |-> <<>>]

(* A first ingest or a later change: the entry and the row move together.  *)
Publish(s, e) ==
    /\ log' = [log EXCEPT ![s] = Append(@, e)]
    /\ current' = [current EXCEPT ![s] = Shown(e)]

(* Deleting the source. *)
Retire(s) ==
    /\ log' = [log EXCEPT ![s] = <<>>]
    /\ current' = [current EXCEPT ![s] = Nothing]

Next ==
    \E s \in Source :
        \/ \E e \in Entry : Publish(s, e)
        \/ Retire(s)

Spec == Init /\ [][Next]_vars
=============================================================================
