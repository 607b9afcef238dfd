---------------------------- MODULE GenerationGC ----------------------------
(***************************************************************************)
(* Garbage collection of the generation store against concurrent saves and *)
(* pins (generation_repository.py), on a database that reads the newest    *)
(* commit per statement (READ COMMITTED) and enforces the foreign keys of  *)
(* models.py.  An INSERT of a referencing row holds a shared lock on the   *)
(* row it references until commit; a DELETE or SELECT ... FOR UPDATE       *)
(* evaluates its NOT EXISTS conditions first, then waits for such locks,   *)
(* and does not evaluate them again when the row was only locked, not      *)
(* updated.                                                                *)
(***************************************************************************)
EXTENDS Naturals, FiniteSets

CONSTANTS
    Revs,       \* revision ids
    Digests,    \* content digests
    Base,       \* [Digests -> Digests \cup {None}]: delta base of each blob
    External,   \* digests whose blob is kept by an external backend
    Savers,     \* concurrent save transactions
    SavedTiers, \* tiers that saves use
    None

ASSUME BaseAssumption == Base \in [Digests -> Digests \cup {None}]
ASSUME ExternalAssumption == External \subseteq Digests
ASSUME SavedTiersAssumption == SavedTiers \subseteq {"ephemeral", "checkpoint", "governed"}
ASSUME NoneAssumption == None \notin Revs \cup Digests
ASSUME TargetAssumption == Revs \cap Digests = {}   \* events have a target_kind

VARIABLES
    revs,      \* committed revisions: [Revs -> revision \cup {NoRev}]
    head,      \* the document's main head
    pins,      \* committed pins
    blobs,     \* storage_state of each blob row, "absent" when there is none
    objects,   \* external objects that physically exist
    audit,     \* deletion audit events
    save,      \* each saver's transaction
    pinning,   \* a revision whose pin is inserted but not committed
    revGc,     \* the revision a DELETE has selected
    blobGc     \* the blob sweep's transaction

vars == <<revs, head, pins, blobs, objects, audit, save, pinning, revGc, blobGc>>

Tiers == {"ephemeral", "checkpoint", "governed"}
NoRev == [tier |-> "none", digest |-> None, parent |-> None, source |-> None]
Revision == [tier: Tiers, digest: Digests, parent: Revs \cup {None}, source: Revs \cup {None}]
BlobStates == {"absent", "ready", "deleting"}
Event == [target: Revs \cup Digests, outcome: {"deleted", "not_found", "failed"}]
IdleSave == [pc |-> "idle", rev |-> None, row |-> NoRev, existing |-> FALSE]
IdleSweep == [pc |-> "idle", digest |-> None, outcome |-> "none"]

Live == {r \in Revs : revs[r] # NoRev}

(* Rows a saver has inserted and not yet committed. *)
Inserted == {s \in Savers : save[s].pc = "inserted"}

(* Types of the tables, and audit events with a real outcome only.         *)
TypeOK ==
    /\ revs \in [Revs -> Revision \cup {NoRev}]
    /\ head \in Revs
    /\ pins \subseteq Revs
    /\ blobs \in [Digests -> BlobStates]
    /\ objects \subseteq External
    /\ audit \subseteq Event
    /\ pinning \in Revs \cup {None}
    /\ revGc \in Revs \cup {None}
    /\ \A s \in Savers : save[s].rev \in Revs \cup {None}

----------------------------------------------------------------------------
(* A store with one saved document; retention pruning has left another     *)
(* revision that nothing references, and there are blobs without users.    *)
Init ==
    /\ \E h, e \in Revs, te \in SavedTiers, dh, de \in Digests, stored \in SUBSET Digests :
         /\ h # e /\ dh \notin External
         /\ {dh, de} \subseteq stored
         /\ \A d \in stored : Base[d] \in stored \cup {None}
         /\ revs = [r \in Revs |->
              CASE r = h -> [tier |-> "checkpoint", digest |-> dh, parent |-> None, source |-> None]
                [] r = e -> [tier |-> te, digest |-> de, parent |-> None, source |-> None]
                [] OTHER -> NoRev]
         /\ head = h
         /\ blobs = [d \in Digests |-> IF d \in stored THEN "ready" ELSE "absent"]
         /\ objects = stored \cap External
    /\ pins = {} /\ audit = {} /\ pinning = None /\ revGc = None
    /\ save = [s \in Savers |-> IdleSave]
    /\ blobGc = IdleSweep

----------------------------------------------------------------------------
(* load_database_generation_blob: the blob and its delta ancestry are all  *)
(* ready, with their bytes in the database.                                *)
Restorable(d) ==
    \E ancestry \in SUBSET (Digests \ External) :
        /\ d \in ancestry
        /\ \A a \in ancestry : blobs[a] = "ready" /\ Base[a] \in ancestry \cup {None}

(* A save: save_database_generation_blob restores the base, looks the      *)
(* digest up ...                                                           *)
SelectBlob(s, r, d, tier, source) ==
    /\ save[s].pc = "idle"
    /\ d \notin External
    /\ revs[r] = NoRev /\ \A t \in Savers : save[t].rev # r
    /\ source \in Live \cup {None}
    /\ Base[d] # None => Restorable(Base[d])   \* else GenerationBlobUnavailable
    /\ blobs[d] # "deleting"                   \* else GenerationBlobConflict
    /\ save' = [save EXCEPT ![s] =
         [pc |-> "selected", rev |-> r, existing |-> blobs[d] = "ready",
          row |-> [tier |-> tier, digest |-> d, parent |-> head, source |-> source]]]
    /\ UNCHANGED <<revs, head, pins, blobs, objects, audit, pinning, revGc, blobGc>>

(* Keys the INSERTs of blob, revision and parent edge reference. *)
References(row, existing) ==
    /\ existing => blobs[row.digest] # "absent"
    /\ ~existing => /\ blobs[row.digest] = "absent"
                    /\ \A t \in Inserted : save[t].row.digest # row.digest
                    /\ Base[row.digest] # None => blobs[Base[row.digest]] # "absent"
    /\ row.parent \in Live
    /\ row.source \in Live \cup {None}

(* ... and inserts blob, revision and edge; it waits for a sweep that has  *)
(* locked the blob or its base.                                            *)
InsertRevision(s) ==
    LET row == save[s].row IN
    /\ save[s].pc = "selected"
    /\ blobGc.pc # "locked" \/ blobGc.digest \notin {row.digest, Base[row.digest]}
    /\ save' = [save EXCEPT ![s] =
         IF References(row, save[s].existing) THEN [@ EXCEPT !.pc = "inserted"] ELSE IdleSave]
    /\ UNCHANGED <<revs, head, pins, blobs, objects, audit, pinning, revGc, blobGc>>

(* advance_revision_head and commit; a moved head rolls everything back. *)
CommitSave(s) ==
    /\ save[s].pc = "inserted"
    /\ save' = [save EXCEPT ![s] = IdleSave]
    /\ IF head = save[s].row.parent
       THEN /\ revs' = [revs EXCEPT ![save[s].rev] = save[s].row]
            /\ head' = save[s].rev
            /\ blobs' = IF save[s].existing THEN blobs
                        ELSE [blobs EXCEPT ![save[s].row.digest] = "ready"]
       ELSE UNCHANGED <<revs, head, blobs>>
    /\ UNCHANGED <<pins, objects, audit, pinning, revGc, blobGc>>

(* An operator pins a revision: INSERT, then commit. *)
InsertPin(r) ==
    /\ pinning = None /\ r \in Live \ pins
    /\ pinning' = r
    /\ UNCHANGED <<revs, head, pins, blobs, objects, audit, save, revGc, blobGc>>

CommitPin ==
    /\ pinning # None
    /\ pins' = pins \cup {pinning}
    /\ pinning' = None
    /\ UNCHANGED <<revs, head, blobs, objects, audit, save, revGc, blobGc>>

----------------------------------------------------------------------------
(* Mutant of Unprotected: age and references, whatever the tier. *)
UnprotectedAnyTier(r) ==
    /\ r \in Live /\ r # head /\ r \notin pins
    /\ \A c \in Live : r \notin {revs[c].parent, revs[c].source}

(* The WHERE clause of list_ephemeral_gc_candidates and of the DELETE. *)
Unprotected(r) ==
    /\ r \in Live /\ revs[r].tier = "ephemeral"
    /\ r # head
    /\ \A c \in Live : revs[c].parent # r
    /\ \A c \in Live : revs[c].source # r
    /\ r \notin pins

(* delete_ephemeral_gc_candidate: the DELETE evaluates its conditions ...  *)
SelectRevision(r) ==
    /\ revGc = None
    /\ Unprotected(r)
    /\ revGc' = r
    /\ UNCHANGED <<revs, head, pins, blobs, objects, audit, save, pinning, blobGc>>

Shared(r) ==
    \/ pinning = r
    \/ \E s \in Inserted : r \in {save[s].row.parent, save[s].row.source}

ReferencedUnchecked(r) == FALSE   \* mutant of Referenced: keys that cascade

(* The NO ACTION keys of head, parent edge and source still refuse it;     *)
(* pins and the revision's own parent edges cascade.                       *)
Referenced(r) == r = head \/ \E c \in Live : r \in {revs[c].parent, revs[c].source}

(* ... takes the row once nobody shares it, and commits with its event.    *)
DeleteRevision ==
    /\ revGc # None /\ ~Shared(revGc)
    /\ revGc' = None
    /\ IF revGc \notin Live \/ Referenced(revGc)
       THEN UNCHANGED <<revs, pins, audit>>
       ELSE /\ revs' = [revs EXCEPT ![revGc] = NoRev]
            /\ pins' = pins \ {revGc}
            /\ audit' = audit \cup {[target |-> revGc, outcome |-> "deleted"]}
    /\ UNCHANGED <<head, blobs, objects, save, pinning, blobGc>>

----------------------------------------------------------------------------
(* Neither a revision nor a delta blob uses d. *)
Unreferenced(d) ==
    /\ \A r \in Live : revs[r].digest # d
    /\ \A b \in Digests : blobs[b] # "absent" => Base[b] # d

(* delete_unreferenced_blob_gc_candidate: SELECT ... FOR UPDATE evaluates  *)
(* its conditions ...                                                      *)
SelectCandidate(d) ==
    /\ blobGc = IdleSweep
    /\ blobs[d] # "absent" /\ Unreferenced(d)
    /\ blobGc' = [pc |-> "selected", digest |-> d, outcome |-> "none"]
    /\ UNCHANGED <<revs, head, pins, blobs, objects, audit, save, pinning, revGc>>

(* ... locks the row once no uncommitted reference shares it; the row is   *)
(* then set to deleting (visible to others after the commit only).         *)
LockCandidate ==
    /\ blobGc.pc = "selected"
    /\ \A s \in Inserted : blobGc.digest \notin {save[s].row.digest, Base[save[s].row.digest]}
    /\ blobGc' = [blobGc EXCEPT !.pc = "locked"]
    /\ UNCHANGED <<revs, head, pins, blobs, objects, audit, save, pinning, revGc>>

(* The physical deletion: done, nothing there, or an exception. *)
DeleteObject ==
    LET d == blobGc.digest IN
    /\ blobGc.pc = "locked" /\ blobGc.outcome = "none"
    /\ \/ /\ blobGc' = [blobGc EXCEPT !.outcome =
               IF d \in External \ objects THEN "not_found" ELSE "deleted"]
          /\ objects' = objects \ {d}
       \/ /\ d \in External
          /\ blobGc' = [blobGc EXCEPT !.outcome = "failed"]
          /\ UNCHANGED objects
    /\ UNCHANGED <<revs, head, pins, blobs, audit, save, pinning, revGc>>

(* Mutant of FinishSweep: the failure path reports a deletion. *)
FinishSweepAlwaysDeleted ==
    LET d == blobGc.digest IN
    /\ blobGc.pc = "locked" /\ blobGc.outcome # "none"
    /\ blobs' = [blobs EXCEPT ![d] = IF Unreferenced(d) THEN "absent" ELSE "deleting"]
    /\ audit' = audit \cup {[target |-> d, outcome |-> "deleted"]}
    /\ blobGc' = IdleSweep
    /\ UNCHANGED <<revs, head, pins, objects, save, pinning, revGc>>

(* Mutant of FinishSweep: the metadata goes before the object. *)
FinishSweepEarly ==
    LET d == blobGc.digest IN
    /\ blobGc.pc = "locked"
    /\ blobs' = [blobs EXCEPT ![d] = IF Unreferenced(d) THEN "absent" ELSE "deleting"]
    /\ audit' = audit \cup {[target |-> d, outcome |-> blobGc.outcome]}
    /\ blobGc' = IdleSweep
    /\ UNCHANGED <<revs, head, pins, objects, save, pinning, revGc>>

(* The metadata DELETE, with the conditions evaluated again, the event and *)
(* the caller's commit; a failure leaves the row deleting.                 *)
FinishSweep ==
    LET d == blobGc.digest
        gone == blobGc.outcome # "failed" /\ Unreferenced(d)
    IN
    /\ blobGc.pc = "locked" /\ blobGc.outcome # "none"
    /\ blobs' = [blobs EXCEPT ![d] = IF gone THEN "absent" ELSE "deleting"]
    /\ audit' = audit \cup
         {[target |-> d, outcome |-> IF gone THEN blobGc.outcome ELSE "failed"]}
    /\ blobGc' = IdleSweep
    /\ UNCHANGED <<revs, head, pins, objects, save, pinning, revGc>>

(* The sweep's process dies: the transaction rolls back, a deleted object  *)
(* stays deleted.                                                          *)
CrashSweep ==
    /\ blobGc.pc # "idle"
    /\ blobGc' = IdleSweep
    /\ UNCHANGED <<revs, head, pins, blobs, objects, audit, save, pinning, revGc>>

----------------------------------------------------------------------------
Saving(s) ==
    \/ \E r \in Revs, d \in Digests, tier \in SavedTiers, source \in Revs \cup {None} :
          SelectBlob(s, r, d, tier, source)
    \/ InsertRevision(s)
    \/ CommitSave(s)

Collecting ==
    \/ \E r \in Revs : SelectRevision(r)
    \/ DeleteRevision
    \/ \E d \in Digests : SelectCandidate(d)
    \/ LockCandidate
    \/ DeleteObject
    \/ FinishSweep
    \/ CrashSweep

Next ==
    \/ \E s \in Savers : Saving(s)
    \/ \E r \in Revs : InsertPin(r)
    \/ CommitPin
    \/ Collecting

Spec == Init /\ [][Next]_vars

----------------------------------------------------------------------------
(* Properties. *)

(* The collector never breaks the history: head, parents, sources and the  *)
(* blobs of committed revisions always exist, with their delta bases, also *)
(* when a row was selected before a save that references it committed.     *)
HistoryIntact ==
    /\ head \in Live
    /\ \A r \in Live :
         /\ revs[r].parent \in Live \cup {None}
         /\ revs[r].source \in Live \cup {None}
         /\ blobs[revs[r].digest] # "absent"
    /\ \A d \in Digests :
         (blobs[d] # "absent" /\ Base[d] # None) => blobs[Base[d]] # "absent"

(* ADR-0070, decision 15: checkpoint and governed revisions are never      *)
(* collected.                                                              *)
DurableKept ==
    [][\A r \in Live : revs[r].tier # "ephemeral" => revs'[r] = revs[r]]_vars

(* ADR-0070, decision 18: a deletion the audit reports did happen; after   *)
(* "deleted" or "not_found" the external object is gone for good.          *)
AuditTellsTheTruth ==
    \A d \in External :
        (\E e \in audit : e.target = d /\ e.outcome # "failed") => d \notin objects
=============================================================================
