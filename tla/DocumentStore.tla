--------------------------- MODULE DocumentStore ---------------------------
(***************************************************************************)
(* One document of the backend's document store, as concurrent requests    *)
(* see it: the `documents` row, the `main` revision head and the revisions *)
(* it points into (routes/docs.py, database_content_store.py,              *)
(* generation_repository.advance_revision_head).                           *)
(*                                                                         *)
(* Each request is one database transaction run by one worker thread and   *)
(* is modelled statement by statement, because every SELECT may observe a  *)
(* different committed state.  Two facts of the ORM session matter:        *)
(*   - put_document keeps the DocumentRow of its first SELECT alive, so    *)
(*     the identity map returns the attributes first read by every later   *)
(*     SELECT of that row (`row`);                                         *)
(*   - nothing keeps the CanvasRevisionHeadRow alive between two calls of  *)
(*     the store, so each db.get of the head is a fresh SELECT (`head`).   *)
(* Writes are invisible to others until commit; an UPDATE or INSERT holds  *)
(* the row's lock until then.                                              *)
(***************************************************************************)
EXTENDS Naturals, Sequences

CONSTANTS
    Requests,    \* request ids; each one runs at most once
    Texts,       \* payload_json texts, told apart by their ETag
    Contents,    \* canonical JSON values, told apart by their digest
    Canon,       \* [Texts -> Contents]: canonical_json_bytes(json.loads(text))
    Isolation,   \* "read_committed" (PostgreSQL, SQLite) or "snapshot" (MySQL family)
    None         \* no row, no If-Match header, no lock holder

ASSUME CanonAssumption == Canon \in [Texts -> Contents]
ASSUME NoneAssumption == None \notin Texts /\ None \notin Requests
ASSUME IsolationAssumption == Isolation \in {"read_committed", "snapshot"}

VARIABLES
    committed,   \* the committed document: row text, lifecycle, head
    revisions,   \* committed revisions, oldest first; a revision's id is its index
    rowLock,     \* the transaction holding the document row's lock
    headLock,    \* the transaction holding the head's key (uncommitted insert)
    pc,          \* where each request is
    req,         \* what each request asks for, None before it arrives
    snap,        \* the state each transaction's snapshot shows ("snapshot" only)
    row,         \* the DocumentRow attributes in each session's identity map
    head         \* the CanvasRevisionHeadRow each session read last

vars == <<committed, revisions, rowLock, headLock, pc, req, snap, row, head>>
locals == <<snap, row, head>>
database == <<committed, revisions>>
locks == <<rowLock, headLock>>

AnyETag == "*"                                \* If-Match: *
NoHead == [version |-> 0, rev |-> 0]      \* the document has no main head yet
NoRow == [text |-> None, life |-> "active"]

Revision == [content: Contents, parent: Nat]
HeadType == [version: Nat, rev: Nat]
RowType == [text: Texts \cup {None}, life: {"active", "archived"}]
StateType == [row: RowType, head: HeadType]

(* PUT carries a body and an optional If-Match; the others carry neither. *)
Put == [kind: {"put"}, text: Texts, ifMatch: Texts \cup {AnyETag, None}]
Get == [kind |-> "get"]
LifecycleRequest == [kind: {"archive", "unarchive"}]
Request == Put \cup {Get} \cup LifecycleRequest

ASSUME RequestAssumption == None \notin Request

Done == {"ok", "etag_mismatch", "conflict", "archived", "diverged", "not_found"}
Running == {"start", "head1", "row2", "head2", "get_head", "insert_row",
            "insert_head", "flush_row", "commit"}

----------------------------------------------------------------------------
(* A document is absent, a legacy row without head, or a row and its head. *)
Init ==
    /\ \/ /\ committed = [row |-> NoRow, head |-> NoHead]
          /\ revisions = <<>>
       \/ \E t \in Texts :
            /\ committed = [row |-> [text |-> t, life |-> "active"], head |-> NoHead]
            /\ revisions = <<>>
       \/ \E t \in Texts :
            /\ committed = [row |-> [text |-> t, life |-> "active"],
                            head |-> [version |-> 1, rev |-> 1]]
            /\ revisions = <<[content |-> Canon[t], parent |-> 0]>>
    /\ rowLock = None
    /\ headLock = None
    /\ pc = [r \in Requests |-> "start"]
    /\ req = [r \in Requests |-> None]
    /\ snap = [r \in Requests |-> committed]
    /\ row = [r \in Requests |-> NoRow]
    /\ head = [r \in Requests |-> NoHead]

(* What a SELECT of r returns now. *)
Visible(r) == IF Isolation = "snapshot" THEN snap[r] ELSE committed

Goto(r, label) == pc' = [pc EXCEPT ![r] = label]

(* db.rollback(): drop the transaction's locks and answer. *)
Rollback(r, answer) ==
    /\ Goto(r, answer)
    /\ rowLock' = IF rowLock = r THEN None ELSE rowLock
    /\ headLock' = IF headLock = r THEN None ELSE headLock
    /\ UNCHANGED database

(* Mutant of Diverges: a document without a head counts as diverged. *)
DivergesWithoutHead(rowRead, headRead) ==
    headRead = NoHead \/ revisions[headRead.rev].content # Canon[rowRead.text]

(* _verify_revision_projection: a head whose revision restores another     *)
(* value than the row's projection is a divergence.                        *)
Diverges(rowRead, headRead) ==
    /\ headRead # NoHead
    /\ revisions[headRead.rev].content # Canon[rowRead.text]

(* _parse_if_match and the comparison with the row's ETag. *)
ETagMatches(ifMatch, rowRead) == ifMatch \in {None, AnyETag, rowRead.text}

----------------------------------------------------------------------------
(* PUT and GET: the SELECT of the document row that opens the transaction. *)
LoadRow(r, q) ==
    /\ pc[r] = "start"
    /\ req' = [req EXCEPT ![r] = q]
    /\ snap' = [snap EXCEPT ![r] = committed]
    /\ row' = [row EXCEPT ![r] = committed.row]
    /\ Goto(r, IF committed.row.text # None THEN "head1"
               ELSE IF q.kind = "get" THEN "not_found"
               ELSE IF q.ifMatch # None THEN "etag_mismatch"
               ELSE "row2")
    /\ UNCHANGED <<head, database, locks>>

(* The head SELECT of the first load, its verification, and what follows   *)
(* before the next SELECT: the GET answer, or PUT's lifecycle and ETag     *)
(* gates.                                                                  *)
LoadHead(r) ==
    /\ pc[r] = "head1"
    /\ LET h == Visible(r).head IN
         Goto(r, IF Diverges(row[r], h) THEN "diverged"
                 ELSE IF req[r].kind = "get" THEN "ok"
                 ELSE IF row[r].life = "archived" THEN "archived"
                 ELSE IF ~ETagMatches(req[r].ifMatch, row[r]) THEN "etag_mismatch"
                 ELSE "row2")
    /\ UNCHANGED <<req, locals, database, locks>>

(* save() loads the row again: a row already in the identity map keeps the *)
(* attributes first read, an absent one is looked up anew.                 *)
ReloadRow(r) ==
    /\ pc[r] = "row2"
    /\ LET again == IF row[r].text # None THEN row[r] ELSE Visible(r).row IN
         /\ row' = [row EXCEPT ![r] = again]
         /\ Goto(r, IF again.text = None THEN "insert_row" ELSE "head2")
    /\ UNCHANGED <<req, snap, head, database, locks>>

(* ... and verifies the projection again, against a fresh head. *)
ReloadHead(r) ==
    /\ pc[r] = "head2"
    /\ Goto(r, IF Diverges(row[r], Visible(r).head) THEN "diverged" ELSE "get_head")
    /\ UNCHANGED <<req, locals, database, locks>>

(* save()'s own db.get of the head: the one its revision is based on.      *)
(* Text equal to the row's: nothing to write, unless the legacy row still  *)
(* has to be materialized.                                                 *)
GetHead(r) ==
    /\ pc[r] = "get_head"
    /\ head' = [head EXCEPT ![r] = Visible(r).head]
    /\ Goto(r, IF head'[r] = NoHead THEN "insert_head"
               ELSE IF row[r].text = req[r].text THEN "ok"
               ELSE "flush_row")
    /\ UNCHANGED <<req, snap, row, database, locks>>

(* INSERT of a new document row: it waits for an uncommitted insert of the *)
(* same key and fails once that one has committed.                         *)
InsertRow(r) ==
    /\ pc[r] = "insert_row"
    /\ rowLock = None
    /\ IF committed.row.text # None
       THEN Rollback(r, "conflict")
       ELSE /\ rowLock' = r
            /\ Goto(r, "insert_head")
            /\ UNCHANGED <<headLock, database>>
    /\ UNCHANGED <<req, locals>>

(* INSERT of the head row, version 1, for a new or a legacy document. *)
InsertHead(r) ==
    /\ pc[r] = "insert_head"
    /\ headLock = None
    /\ IF committed.head # NoHead
       THEN Rollback(r, "conflict")
       ELSE /\ headLock' = r
            /\ Goto(r, IF row[r].text \in {None, req[r].text} THEN "commit" ELSE "flush_row")
            /\ UNCHANGED <<rowLock, database>>
    /\ UNCHANGED <<req, locals>>

(* UPDATE documents SET payload_json ... WHERE the primary key matches. *)
FlushRow(r) ==
    /\ pc[r] = "flush_row"
    /\ rowLock = None
    /\ rowLock' = r
    /\ Goto(r, "commit")
    /\ UNCHANGED <<req, locals, headLock, database>>

(* _materialize_revision: the revisions r adds.  A legacy document gets    *)
(* its old text as root first; a text whose canonical value is already the *)
(* head's adds nothing.                                                    *)
RootNullParent(text) == [content |-> Canon[text], parent |-> None]   \* mutant

Root(text) == [content |-> Canon[text], parent |-> 0]

AddsRoot(r) == head[r] = NoHead

RootText(r) == IF row[r].text = None THEN req[r].text ELSE row[r].text

BaseContent(r) ==
    IF AddsRoot(r) THEN Canon[RootText(r)] ELSE revisions[head[r].rev].content

(* Mutant of AddsRevision: a legacy document only gets its root revision. *)
AddsRevisionToHead(r) == ~AddsRoot(r) /\ Canon[req[r].text] # BaseContent(r)

AddsRevision(r) == Canon[req[r].text] # BaseContent(r)

WithRoot(r) == IF AddsRoot(r) THEN Append(revisions, Root(RootText(r))) ELSE revisions

BaseHead(r) ==
    IF AddsRoot(r) THEN [version |-> 1, rev |-> Len(revisions) + 1] ELSE head[r]

HeadUnchecked(r) == TRUE   \* mutant of HeadUnmoved: UPDATE by key only

(* advance_revision_head's predicate: the head is still at the version r   *)
(* read.  A head r inserted itself is not contended.                       *)
HeadUnmoved(r) == AddsRoot(r) \/ committed.head.version = head[r].version

(* The revision, parent edge and head statements that follow the row's     *)
(* UPDATE, and the commit.                                                 *)
CommitPut(r) ==
    /\ pc[r] = "commit"
    /\ headLock \in {None, r}
    /\ AddsRevision(r) => HeadUnmoved(r)
    /\ revisions' =
         IF AddsRevision(r)
         THEN Append(WithRoot(r),
                     [content |-> Canon[req[r].text], parent |-> BaseHead(r).rev])
         ELSE WithRoot(r)
    /\ committed' =
         [row  |-> IF row[r].text = req[r].text THEN committed.row
                   ELSE [committed.row EXCEPT !.text = req[r].text],
          head |-> IF AddsRevision(r)
                   THEN [version |-> BaseHead(r).version + 1, rev |-> Len(revisions')]
                   ELSE IF AddsRoot(r) THEN BaseHead(r) ELSE committed.head]
    /\ rowLock' = IF rowLock = r THEN None ELSE rowLock
    /\ headLock' = None
    /\ Goto(r, "ok")
    /\ UNCHANGED <<req, locals>>

(* Mutant of HeadConflict: retry the statements with the head read before. *)
HeadConflictRetry(r) ==
    /\ pc[r] = "commit"
    /\ headLock \in {None, r}
    /\ AddsRevision(r) /\ ~HeadUnmoved(r)
    /\ Rollback(r, "flush_row")
    /\ UNCHANGED <<req, locals>>

(* RevisionHeadConflict: rolled back, answered 409. *)
HeadConflict(r) ==
    /\ pc[r] = "commit"
    /\ headLock \in {None, r}
    /\ AddsRevision(r) /\ ~HeadUnmoved(r)
    /\ Rollback(r, "conflict")
    /\ UNCHANGED <<req, locals>>

(* POST archive / unarchive: one UPDATE of lifecycle_state and a commit. *)
SetLifecycleState(r, q) ==
    /\ pc[r] = "start"
    /\ rowLock = None
    /\ req' = [req EXCEPT ![r] = q]
    /\ IF committed.row.text = None
       THEN Goto(r, "not_found") /\ UNCHANGED committed
       ELSE /\ Goto(r, "ok")
            /\ committed' = [committed EXCEPT !.row = [@ EXCEPT !.life =
                 IF q.kind = "archive" THEN "archived" ELSE "active"]]
    /\ UNCHANGED <<revisions, locks, locals>>

Arrive(r) ==
    \/ \E q \in Put \cup {Get} : LoadRow(r, q)
    \/ \E q \in LifecycleRequest : SetLifecycleState(r, q)

Handle(r) ==
    \/ LoadHead(r)
    \/ ReloadRow(r)
    \/ ReloadHead(r)
    \/ GetHead(r)
    \/ InsertRow(r)
    \/ InsertHead(r)
    \/ FlushRow(r)
    \/ CommitPut(r)
    \/ HeadConflict(r)

AllAnswered == \A r \in Requests : pc[r] \in Done

Terminated == AllAnswered /\ UNCHANGED vars

Next == (\E r \in Requests : Arrive(r) \/ Handle(r)) \/ Terminated

Spec == Init /\ [][Next]_vars

(* A worker thread keeps executing the request it has been given, and a    *)
(* database lock is granted once it is free; no request need ever arrive.  *)
FairSpec == Spec /\ \A r \in Requests : WF_vars(Handle(r))

----------------------------------------------------------------------------
(* Properties. *)

(* Types of the committed rows and of what each session has read.          *)
TypeOK ==
    /\ committed \in StateType
    /\ revisions \in Seq(Revision)
    /\ rowLock \in Requests \cup {None}
    /\ headLock \in Requests \cup {None}
    /\ pc \in [Requests -> Running \cup Done]
    /\ req \in [Requests -> Request \cup {None}]
    /\ snap \in [Requests -> StateType]
    /\ row \in [Requests -> RowType]
    /\ head \in [Requests -> HeadType]

(* However saves interleave, the head is the newest revision, its version  *)
(* counts the saves, and every revision's parent is the one saved before   *)
(* it: advance_revision_head never forks or drops a generation.            *)
HistoryLinear ==
    /\ committed.head.version = Len(revisions)
    /\ committed.head.rev = Len(revisions)
    /\ \A i \in 1..Len(revisions) : revisions[i].parent = i - 1

(* A PUT answered 200 has its content in the revision history, for good:   *)
(* also when save() returned early because the text or the digest was      *)
(* already there, and whatever committed in between.                       *)
AcknowledgedSaveKept ==
    \A r \in Requests :
        (pc[r] = "ok" /\ req[r].kind = "put")
            => \E i \in 1..Len(revisions) : revisions[i].content = Canon[req[r].text]

(* ADR-0070, runtime integration 6: the row's projection and the revision  *)
(* the head points to are the same canonical value (what load() verifies). *)
ProjectionMatchesHead ==
    committed.head # NoHead =>
        revisions[committed.head.rev].content = Canon[committed.row.text]

(* 503 "projection differs from revision head" is answered only if the     *)
(* committed document really diverged, never to a reader that raced a save.*)
DivergenceIsReal ==
    \A r \in Requests : pc[r] = "diverged" => ~ProjectionMatchesHead

(* ADR-0070, runtime integration 7: a save that changed the document after *)
(* the If-Match comparison makes the stale writer fail, so a conditional   *)
(* PUT only ever replaces the very text its If-Match names.                *)
NoLostUpdate ==
    [][\A r \in Requests :
          (/\ pc[r] = "commit" /\ pc'[r] = "ok"
           /\ committed'.row.text # committed.row.text
           /\ req[r].ifMatch \in Texts)
              => committed.row.text = req[r].ifMatch]_vars

Answer(label) ==
    IF label \in Running THEN "pending" ELSE IF label = "ok" THEN "ok" ELSE "rejected"

Register == INSTANCE DocumentRegister WITH
    current <- committed.row.text,
    history <- [i \in 1..Len(revisions) |-> revisions[i].content],
    asked   <- req,
    answer  <- [r \in Requests |-> Answer(pc[r])]

(* The concurrent transactions behave like one atomic register with        *)
(* conditional writes: every 200 takes effect, or is a repetition, at one  *)
(* point, and no save in between is overwritten unseen.                    *)
ImplementsRegister == Register!RegisterSpec

(* Every request that has arrived is answered: none waits for a lock for   *)
(* ever, whoever holds the other one.                                      *)
EveryRequestAnswered ==
    \A r \in Requests : (pc[r] # "start") ~> (pc[r] \in Done)
=============================================================================
